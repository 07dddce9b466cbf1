--------------------------- MODULE Inserts_proofs ---------------------------
(***************************************************************************)
(* What holds of every INSERT, whatever the tables, the rows, the queries  *)
(* inserted from and what is done about conflicts.                         *)
(***************************************************************************)
EXTENDS Inserts, FoldTheorems, FiniteSetTheorems

\* What may be said of a column at a setter, and the cell it makes.
SaidOf(c) == {Unsaid} \cup Arguments(c) \cup (IF c.nullable /\ c.default THEN {Null} ELSE {})
Denoted(c, word) == IF word = Unsaid THEN EmptyField(c) ELSE IntoColumnValue(c, word)

\* The rows that can be built, with what was said of them.
HeaderOf(t) == Names(Insertable(t))
NamesOf(t) == ToSet(HeaderOf(t))
Words(t) ==
  {s \in [NamesOf(t) -> Cell(t) \cup {Unsaid, None}] : \A n \in NamesOf(t) : s[n] \in SaidOf(Named(t, n))}
Fields(t, s) == [n \in NamesOf(t) |-> Denoted(Named(t, n), s[n])]
CellsOf(t, s) == [i \in DOMAIN HeaderOf(t) |-> Fields(t, s)[HeaderOf(t)[i]]]
Complete(t) == {s \in Words(t) : \A n \in NamesOf(t) : Fields(t, s)[n] # Missing}
Built(t, s) == [cells |-> CellsOf(t, s), said |-> s]
BuiltRow(t) == {Built(t, s) : s \in Complete(t)}

\* A SET list names each column once, with what was last said of it.
Twice(list) == \E i, j \in DOMAIN list : i # j /\ list[i].column = list[j].column
Matches(list, words) == ~Twice(list) /\ ToSet(list) = {Set(n, words[n]) : n \in DOMAIN words}

\* A clause on conflict says what its call asked for.
ActionAgrees(action, m) ==
  IF action = None THEN m.sets = None /\ m.wheres = {}
  ELSE /\ m.sets \in Assigned(columns) /\ Matches(action.sets, m.sets)
       /\ m.wheres = ToSet(action.wheres)

ConflictAgrees(clause, m) ==
  IF clause = None THEN m = None
  ELSE /\ m \in MeantConflict(columns)
       /\ clause.target = m.target /\ Reaches(clause.target)
       /\ ActionAgrees(clause.action, m)

\* A statement has the rows it was given, and never two of a table with
\* nothing to name.
RowsAgree(rows) ==
  /\ statement.rows = Cells(rows) /\ meant.rows = Said(rows)
  /\ rows # <<>>
  /\ Insertable(columns) = <<>> => Len(rows) = 1

StatementAgrees ==
  \/ statement = Nothing /\ meant.rows = <<>>
  \/ /\ statement \in ValuesInsert(columns)
     /\ \E rows \in Seq(BuiltRow(columns)) : RowsAgree(rows)
     /\ ConflictAgrees(statement.on_conflict, meant.on_conflict)
  \/ /\ statement \in SelectInsert(columns) /\ statement.source = Header
     /\ Len(meant.rows) = 1

Unwritten == [rows |-> <<>>, on_conflict |-> None]

TableInv ==
  /\ columns \in Tables \cup {None}
  /\ columns # None => dialect \in Served
  /\ columns = None => building = None /\ held = <<>> /\ statement = None /\ change = None

\* The row being built has what the setters last said.
BuildingInv == building # None => said \in Words(columns) /\ building = Fields(columns, said)

HeldInv == held \in Seq(BuiltRow(columns))

StatementInv ==
  /\ meant = [rows |-> meant.rows, on_conflict |-> meant.on_conflict]
  /\ IF statement = None THEN meant = Unwritten ELSE StatementAgrees

ChangeInv ==
  change # None => change \in ConflictUpdate(columns) /\ Matches(change.sets, change.meant)

IInv == TableInv /\ BuildingInv /\ HeldInv /\ StatementInv /\ ChangeInv
-----------------------------------------------------------------------------
(***************************************************************************)
(* Tables, by their columns and their names.                               *)
(***************************************************************************)
LEMMA TableIs ==
  ASSUME NEW t \in Tables
  PROVE  /\ t \in Seq(ToSet(t)) /\ Len(t) \in Nat /\ DOMAIN t = 1 .. Len(t)
         /\ \A i, j \in DOMAIN t : t[i].name = t[j].name => i = j
         /\ \A c \in ToSet(t) : c.name # Default /\ c.values \cap {Null, Default, Missing, None} = {}
<1>1. t \in Seq(ToSet(t)) /\ \A i, j \in DOMAIN t : t[i].name = t[j].name => i = j
  BY ColumnsAssumption
<1>2. ASSUME NEW i \in DOMAIN t
      PROVE  t[i].name # Default /\ t[i].values \cap {Null, Default, Missing, None} = {}
  BY ColumnsAssumption
<1>3. \A c \in ToSet(t) : \E i \in DOMAIN t : c = t[i]
  BY DEF ToSet
<1> QED BY <1>1, <1>2, <1>3

\* A column is found by its name.
LEMMA NamedIs ==
  ASSUME NEW t \in Tables, NEW c \in ToSet(t)
  PROVE  Named(t, c.name) = c
<1>1. \A d \in ToSet(t) : d.name = c.name => d = c
  BY TableIs DEF ToSet
<1> QED BY <1>1 DEF Named

LEMMA NamesAre ==
  ASSUME NEW t \in Tables, NEW n
  PROVE  n \in ToSet(Names(t)) <=> \E c \in ToSet(t) : c.name = n
BY DEF Names, ToSet

LEMMA InsertableAre ==
  ASSUME NEW t \in Tables
  PROVE  /\ Insertable(t) \in Seq(ToSet(t)) /\ DOMAIN Insertable(t) = 1 .. Len(Insertable(t))
         /\ Len(Insertable(t)) \in Nat
         /\ ToSet(Insertable(t)) = {c \in ToSet(t) : ~c.generated}
         /\ \A i, j \in DOMAIN Insertable(t) : Insertable(t)[i].name = Insertable(t)[j].name => i = j
<1> DEFINE chosen == {c \in ToSet(t) : ~c.generated}
           those == Only(t, chosen)
<1>1. t \in Seq(ToSet(t)) /\ DOMAIN t = 1 .. Len(t) /\ Len(t) \in Nat
  BY TableIs
<1> HIDE DEF chosen
<1>2. those \in Seq(ToSet(t)) /\ ToSet(those) = ToSet(t) \cap chosen
  BY <1>1, ChosenOf, ChosenAre
<1>3. PICK at : InOrder(those, t, at, Len(t))
  BY <1>1, ChosenInOrder
<1>4. Insertable(t) = those
  BY DEF Insertable, chosen
<1> HIDE DEF those
<1>5. ASSUME NEW i \in DOMAIN those, NEW j \in DOMAIN those, i # j
      PROVE  those[i].name # those[j].name
  <2>1. Len(those) \in Nat /\ DOMAIN those = 1 .. Len(those)
    BY <1>2
  <2>0. i \in 1 .. Len(those) /\ j \in 1 .. Len(those) /\ (i < j \/ j < i)
    BY <1>5, <2>1
  <2>2. /\ at[i] \in DOMAIN t /\ at[j] \in DOMAIN t /\ at[i] # at[j]
        /\ those[i] = t[at[i]] /\ those[j] = t[at[j]]
    BY <1>1, <1>3, <2>0 DEF InOrder
  <2> QED BY <2>2, TableIs
<1>6. ToSet(t) \cap chosen = {c \in ToSet(t) : ~c.generated}
  BY DEF chosen
<1> QED BY <1>2, <1>4, <1>5, <1>6

LEMMA HeaderIs ==
  ASSUME NEW t \in Tables
  PROVE  /\ HeaderOf(t) \in Seq(NamesOf(t)) /\ DOMAIN HeaderOf(t) = 1 .. Len(HeaderOf(t))
         /\ Len(HeaderOf(t)) = Len(Insertable(t)) /\ Len(HeaderOf(t)) \in Nat
         /\ \A i, j \in DOMAIN HeaderOf(t) : HeaderOf(t)[i] = HeaderOf(t)[j] => i = j
         /\ \A i \in DOMAIN HeaderOf(t) : HeaderOf(t)[i] \in NamesOf(t)
         /\ NamesOf(t) = {c.name : c \in {d \in ToSet(t) : ~d.generated}}
<1> DEFINE those == Insertable(t)
           h == [i \in DOMAIN those |-> those[i].name]
<1>1. HeaderOf(t) = h
  BY DEF HeaderOf, Names
<1>2. /\ those \in Seq(ToSet(t)) /\ DOMAIN those = 1 .. Len(those) /\ Len(those) \in Nat
      /\ ToSet(those) = {c \in ToSet(t) : ~c.generated}
      /\ \A i, j \in DOMAIN those : those[i].name = those[j].name => i = j
  BY InsertableAre
<1> HIDE DEF those
<1>3. ToSet(h) = {c.name : c \in ToSet(those)}
  BY DEF ToSet
<1>4. h \in Seq(ToSet(h)) /\ DOMAIN h = DOMAIN those /\ Len(h) = Len(those)
  BY <1>2 DEF ToSet
<1>5. \A i \in DOMAIN h : h[i] \in ToSet(h)
  BY DEF ToSet
<1>6. \A i, j \in DOMAIN h : h[i] = h[j] => i = j
  BY <1>2
<1> HIDE DEF h
<1> QED BY <1>1, <1>2, <1>3, <1>4, <1>5, <1>6 DEF NamesOf, those

\* A name of the header is of a column that is not generated.
LEMMA NameIs ==
  ASSUME NEW t \in Tables, NEW n \in NamesOf(t)
  PROVE  /\ Named(t, n) \in ToSet(t) /\ Named(t, n).name = n /\ ~Named(t, n).generated
         /\ n # Default
<1>1. PICK c \in ToSet(t) : c.name = n /\ ~c.generated
  BY HeaderIs
<1> QED BY <1>1, NamedIs, TableIs
-----------------------------------------------------------------------------
(***************************************************************************)
(* Cells, and what was said of them.                                       *)
(***************************************************************************)
LEMMA CellMade ==
  ASSUME NEW t \in Tables, NEW c \in ToSet(t), NEW word \in SaidOf(c)
  PROVE  /\ word \in Cell(t) \cup {Unsaid, None}
         /\ Denoted(c, word) \in Cell(t) \cup {Missing}
         /\ ~c.generated /\ Denoted(c, word) # Missing =>
              (IF Denoted(c, word) = Default THEN Fallback(c) ELSE Denoted(c, word))
                = (IF word \in {Unsaid, None} THEN Fallback(c) ELSE word)
<1>1. /\ None # Null /\ None # Unsaid /\ Null # Default /\ Null # Unsaid /\ Unsaid # Default
      /\ Missing # Default /\ Missing # Null
  BY ColumnsAssumption, InsertsAssumption DEF Null, Default, Missing, Unsaid
<1>2. c.values \subseteq Cell(t) /\ {Null, Default} \subseteq Cell(t)
  BY DEF Cell
<1>3. c.values \cap {Null, Default, Missing, None} = {} /\ Unsaid \notin c.values
  BY TableIs, InsertsAssumption
<1>4. word = Unsaid \/ word \in c.values \/ (word = None /\ (c.nullable \/ c.default))
        \/ (word = Null /\ c.nullable /\ c.default)
  BY DEF SaidOf, Arguments
<1> HIDE DEF Null, Default, Missing, Unsaid
<1>5. CASE word = Unsaid
  BY <1>1, <1>2, <1>5 DEF Denoted, EmptyField, Fallback
<1>6. CASE word \in c.values
  BY <1>1, <1>2, <1>3, <1>6 DEF Denoted, IntoColumnValue
<1>7. CASE word = None /\ (c.nullable \/ c.default)
  BY <1>1, <1>2, <1>7 DEF Denoted, IntoColumnValue, Fallback
<1>8. CASE word = Null /\ c.nullable /\ c.default
  BY <1>1, <1>2, <1>8 DEF Denoted, IntoColumnValue
<1> QED BY <1>4, <1>5, <1>6, <1>7, <1>8

\* A row built has a cell for each name, of the column's.
LEMMA BuiltIs ==
  ASSUME NEW t \in Tables, NEW s \in Complete(t)
  PROVE  /\ CellsOf(t, s) \in Seq(Cell(t)) /\ Len(CellsOf(t, s)) = Len(HeaderOf(t))
         /\ DOMAIN CellsOf(t, s) = DOMAIN HeaderOf(t)
         /\ Built(t, s) \in BuiltRow(t)
<1>1. /\ DOMAIN HeaderOf(t) = 1 .. Len(HeaderOf(t)) /\ Len(HeaderOf(t)) \in Nat
      /\ \A i \in DOMAIN HeaderOf(t) : HeaderOf(t)[i] \in NamesOf(t)
  BY HeaderIs
<1>2. ASSUME NEW n \in NamesOf(t) PROVE Fields(t, s)[n] \in Cell(t)
  <2>1. Named(t, n) \in ToSet(t) /\ s[n] \in SaidOf(Named(t, n))
    BY NameIs DEF Complete, Words
  <2>2. Fields(t, s)[n] = Denoted(Named(t, n), s[n]) /\ Fields(t, s)[n] # Missing
    BY DEF Fields, Complete
  <2> QED BY <2>1, <2>2, CellMade
<1>3. /\ CellsOf(t, s) = [i \in 1 .. Len(HeaderOf(t)) |-> CellsOf(t, s)[i]]
      /\ \A i \in 1 .. Len(HeaderOf(t)) : CellsOf(t, s)[i] \in Cell(t)
  BY <1>1, <1>2 DEF CellsOf
<1> QED BY <1>1, <1>3 DEF BuiltRow

LEMMA BuiltRowIs ==
  ASSUME NEW t \in Tables, NEW r \in BuiltRow(t)
  PROVE  /\ r.said \in Complete(t) /\ r.cells = CellsOf(t, r.said) /\ r.cells \in Seq(Cell(t))
<1>1. PICK s \in Complete(t) : r = Built(t, s)
  BY DEF BuiltRow
<1>2. r.said = s /\ r.cells = CellsOf(t, s)
  BY <1>1 DEF Built
<1> QED BY <1>2, BuiltIs

\* The cells of the rows, and what was said, one of the other.
LEMMA RowsOf ==
  ASSUME NEW t \in Tables, NEW rows \in Seq(BuiltRow(t))
  PROVE  /\ Cells(rows) \in Seq(Seq(Cell(t))) /\ Len(Cells(rows)) = Len(rows)
         /\ Said(rows) \in Seq(Complete(t)) /\ Len(Said(rows)) = Len(rows)
         /\ DOMAIN Cells(rows) = 1 .. Len(rows) /\ DOMAIN Said(rows) = 1 .. Len(rows)
         /\ Len(rows) \in Nat
<1>1. DOMAIN rows = 1 .. Len(rows) /\ Len(rows) \in Nat /\ \A i \in 1 .. Len(rows) : rows[i] \in BuiltRow(t)
  OBVIOUS
<1>2. \A i \in 1 .. Len(rows) : rows[i].cells \in Seq(Cell(t)) /\ rows[i].said \in Complete(t)
  BY <1>1, BuiltRowIs
<1>3. Cells(rows) = [i \in 1 .. Len(rows) |-> rows[i].cells]
  BY <1>1 DEF Cells
<1>4. Said(rows) = [i \in 1 .. Len(rows) |-> rows[i].said]
  BY <1>1 DEF Said
<1> QED BY <1>1, <1>2, <1>3, <1>4

LEMMA Concatenated ==
  ASSUME NEW T, NEW c \in Seq(T), NEW d \in Seq(T)
  PROVE  c \o d = [i \in 1 .. (Len(c) + Len(d)) |-> IF i <= Len(c) THEN c[i] ELSE d[i - Len(c)]]
<1>1. c \o d \in Seq(T) /\ Len(c \o d) = Len(c) + Len(d)
      /\ \A i \in 1 .. (Len(c) + Len(d)) : (c \o d)[i] = IF i <= Len(c) THEN c[i] ELSE d[i - Len(c)]
  BY ConcatProperties
<1>2. c \o d = [i \in 1 .. Len(c \o d) |-> (c \o d)[i]]
  BY <1>1, WordIs
<1> QED BY <1>1, <1>2

LEMMA RowsOfBoth ==
  ASSUME NEW t \in Tables, NEW rows \in Seq(BuiltRow(t)), NEW more \in Seq(BuiltRow(t))
  PROVE  /\ rows \o more \in Seq(BuiltRow(t)) /\ Len(rows \o more) = Len(rows) + Len(more)
         /\ Cells(rows \o more) = Cells(rows) \o Cells(more)
         /\ Said(rows \o more) = Said(rows) \o Said(more)
<1> DEFINE both == rows \o more
           L == Len(rows)
           M == Len(more)
<1>1. /\ both \in Seq(BuiltRow(t)) /\ Len(both) = L + M /\ L \in Nat /\ M \in Nat
      /\ DOMAIN both = 1 .. (L + M) /\ DOMAIN rows = 1 .. L /\ DOMAIN more = 1 .. M
      /\ \A i \in 1 .. (L + M) : both[i] = IF i <= L THEN rows[i] ELSE more[i - L]
  OBVIOUS
<1> HIDE DEF both, L, M
<1>2. \A i \in 1 .. (L + M) : (i <= L => i \in 1 .. L) /\ (~(i <= L) => i - L \in 1 .. M)
  BY <1>1
<1>3. Cells(both) = Cells(rows) \o Cells(more)
  <2> DEFINE c == Cells(rows)
             d == Cells(more)
  <2>1. /\ c \in Seq(Seq(Cell(t))) /\ Len(c) = L /\ d \in Seq(Seq(Cell(t))) /\ Len(d) = M
        /\ \A i \in 1 .. L : c[i] = rows[i].cells
        /\ \A i \in 1 .. M : d[i] = more[i].cells
    BY <1>1, RowsOf DEF L, M, Cells
  <2>2. Cells(both) = [i \in 1 .. (L + M) |-> both[i].cells]
    BY <1>1 DEF Cells
  <2> HIDE DEF c, d
  <2>3. c \in Seq(Seq(Cell(t))) /\ d \in Seq(Seq(Cell(t)))
    BY <2>1
  <2>5. c \o d = [i \in 1 .. (Len(c) + Len(d)) |-> IF i <= Len(c) THEN c[i] ELSE d[i - Len(c)]]
    BY <2>3, Concatenated
  <2>6. c \o d = [i \in 1 .. (L + M) |-> IF i <= L THEN c[i] ELSE d[i - L]]
    BY <2>1, <2>5
  <2>4. \A i \in 1 .. (L + M) : both[i].cells = IF i <= L THEN c[i] ELSE d[i - L]
    BY <1>1, <1>2, <2>1
  <2> QED BY <2>2, <2>4, <2>6 DEF c, d
<1>4. Said(both) = Said(rows) \o Said(more)
  <2> DEFINE c == Said(rows)
             d == Said(more)
  <2>1. /\ c \in Seq(Complete(t)) /\ Len(c) = L /\ d \in Seq(Complete(t)) /\ Len(d) = M
        /\ \A i \in 1 .. L : c[i] = rows[i].said
        /\ \A i \in 1 .. M : d[i] = more[i].said
    BY <1>1, RowsOf DEF L, M, Said
  <2>2. Said(both) = [i \in 1 .. (L + M) |-> both[i].said]
    BY <1>1 DEF Said
  <2> HIDE DEF c, d
  <2>3. c \in Seq(Complete(t)) /\ d \in Seq(Complete(t))
    BY <2>1
  <2>5. c \o d = [i \in 1 .. (Len(c) + Len(d)) |-> IF i <= Len(c) THEN c[i] ELSE d[i - Len(c)]]
    BY <2>3, Concatenated
  <2>6. c \o d = [i \in 1 .. (L + M) |-> IF i <= L THEN c[i] ELSE d[i - L]]
    BY <2>1, <2>5
  <2>4. \A i \in 1 .. (L + M) : both[i].said = IF i <= L THEN c[i] ELSE d[i - L]
    BY <1>1, <1>2, <2>1
  <2> QED BY <2>2, <2>4, <2>6 DEF c, d
<1> QED BY <1>1, <1>3, <1>4 DEF both, L, M

LEMMA RowsOfOne ==
  ASSUME NEW t \in Tables, NEW r \in BuiltRow(t)
  PROVE  /\ <<r>> \in Seq(BuiltRow(t)) /\ Len(<<r>>) = 1
         /\ Cells(<<r>>) = <<r.cells>> /\ Said(<<r>>) = <<r.said>>
<1>1. DOMAIN <<r>> = 1 .. 1 /\ <<r>>[1] = r /\ <<r>> \in Seq(BuiltRow(t)) /\ Len(<<r>>) = 1
  OBVIOUS
<1>2. \A i \in 1 .. 1 : i = 1
  OBVIOUS
<1> DEFINE one == <<r>>
<1> HIDE DEF one
<1>3. DOMAIN one = 1 .. 1 /\ one[1] = r
  BY <1>1 DEF one
<1>4. Cells(one) = [i \in 1 .. 1 |-> r.cells] /\ Said(one) = [i \in 1 .. 1 |-> r.said]
  BY <1>2, <1>3 DEF Cells, Said
<1> QED BY <1>1, <1>4 DEF one
-----------------------------------------------------------------------------
(***************************************************************************)
(* The SET list of a DO UPDATE (push_set).                                 *)
(***************************************************************************)
OneSet(t) == [column : AssignableTo(t), value : Expressions]
Others(list, name) == Only(list, {s \in ToSet(list) : s.column # name})

LEMMA OthersKept ==
  ASSUME NEW t, NEW list \in SetList(t), NEW name
  PROVE  /\ Others(list, name) \in SetList(t)
         /\ ToSet(Others(list, name)) = {s \in ToSet(list) : s.column # name}
         /\ ~Twice(list) => ~Twice(Others(list, name))
<1> DEFINE chosen == {s \in ToSet(list) : s.column # name}
           kept == Only(list, chosen)
<1>1. list \in Seq(OneSet(t))
  BY DEF SetList, OneSet
<1> HIDE DEF chosen
<1>2. kept \in Seq(OneSet(t)) /\ ToSet(kept) = ToSet(list) \cap chosen
  BY <1>1, ChosenOf, ChosenAre
<1>3. PICK at : InOrder(kept, list, at, Len(list))
  BY <1>1, ChosenInOrder
<1> HIDE DEF kept
<1>4. ASSUME ~Twice(list) PROVE ~Twice(kept)
  <2> SUFFICES ASSUME NEW i \in DOMAIN kept, NEW j \in DOMAIN kept, i # j
               PROVE  kept[i].column # kept[j].column
    BY DEF Twice
  <2>1. i \in 1 .. Len(kept) /\ j \in 1 .. Len(kept) /\ (i < j \/ j < i)
    BY <1>2
  <2>2. /\ at[i] \in DOMAIN list /\ at[j] \in DOMAIN list /\ at[i] # at[j]
        /\ kept[i] = list[at[i]] /\ kept[j] = list[at[j]]
    BY <1>1, <1>3, <2>1 DEF InOrder
  <2> QED BY <1>4, <2>2 DEF Twice
<1> QED BY <1>2, <1>4 DEF Others, SetList, OneSet, chosen, kept

LEMMA OneMoreSet ==
  ASSUME NEW t, NEW list \in SetList(t), NEW e \in OneSet(t)
  PROVE  /\ Append(list, e) \in SetList(t)
         /\ ToSet(Append(list, e)) = ToSet(list) \cup {e}
         /\ ~Twice(list) /\ (\A s \in ToSet(list) : s.column # e.column) => ~Twice(Append(list, e))
<1> DEFINE more == Append(list, e)
<1>1. list \in Seq(OneSet(t))
  BY DEF SetList, OneSet
<1>2. more \in Seq(OneSet(t)) /\ Len(more) = Len(list) + 1 /\ DOMAIN list = 1 .. Len(list)
  BY <1>1, AppendProperties
<1>3. /\ more[Len(list) + 1] = e
      /\ \A i \in DOMAIN list : more[i] = list[i]
      /\ DOMAIN more = DOMAIN list \cup {Len(list) + 1} /\ Len(list) + 1 \notin DOMAIN list
  BY <1>1, <1>2, AppendProperties
<1> HIDE DEF more
<1>4. ToSet(more) = ToSet(list) \cup {e}
  BY <1>3 DEF ToSet
<1>5. ASSUME ~Twice(list), \A s \in ToSet(list) : s.column # e.column
      PROVE  ~Twice(more)
  <2>1. \A i \in DOMAIN list : more[i].column # e.column
    BY <1>3, <1>5 DEF ToSet
  <2> QED BY <1>3, <1>5, <2>1 DEF Twice
<1> QED BY <1>2, <1>4, <1>5 DEF SetList, OneSet, more

\* One assignment more, to a list that matches what was said before it.
LEMMA MatchesMore ==
  ASSUME NEW t, NEW list \in SetList(t), NEW words \in Assigned(t), Matches(list, words),
         NEW name \in AssignableTo(t), NEW value \in Expressions
  PROVE  /\ PushSet(list, name, value) \in SetList(t)
         /\ Resaid(words, name, value) \in Assigned(t)
         /\ Matches(PushSet(list, name, value), Resaid(words, name, value))
<1> DEFINE one == Set(name, value)
           kept == Others(list, name)
           more == PushSet(list, name, value)
           now == Resaid(words, name, value)
<1>1. more = Append(kept, one)
  BY DEF PushSet, Others
<1>2. one \in OneSet(t) /\ one.column = name /\ one = Set(name, value)
  BY DEF Set, OneSet
<1> HIDE DEF one, kept, more
<1>3. /\ kept \in SetList(t) /\ ~Twice(kept)
      /\ ToSet(kept) = {s \in ToSet(list) : s.column # name}
  BY OthersKept DEF kept, Matches
<1>4. \A s \in ToSet(kept) : s.column # one.column
  BY <1>2, <1>3
<1>5. more \in SetList(t) /\ ToSet(more) = ToSet(kept) \cup {one} /\ ~Twice(more)
  BY <1>1, <1>2, <1>3, <1>4, OneMoreSet
<1>6. PICK names \in SUBSET AssignableTo(t) : words \in [names -> Expressions]
  BY DEF Assigned
<1>7. /\ DOMAIN words = names /\ DOMAIN now = names \cup {name}
      /\ now[name] = value /\ \A n \in names : n # name => now[n] = words[n]
      /\ now = [n \in names \cup {name} |-> now[n]]
  BY <1>6 DEF Resaid
<1> HIDE DEF now
<1>8. now \in [names \cup {name} -> Expressions]
  <2>1. \A n \in names \cup {name} : now[n] \in Expressions
    BY <1>6, <1>7
  <2> QED BY <1>7, <2>1
<1>9. now \in Assigned(t)
  BY <1>6, <1>8 DEF Assigned
<1>10. ToSet(kept) = {Set(n, words[n]) : n \in {m \in names : m # name}}
  BY <1>3, <1>7 DEF Matches, Set
<1>11. {Set(n, now[n]) : n \in names \cup {name}} = {Set(n, words[n]) : n \in {m \in names : m # name}} \cup {one}
  BY <1>2, <1>7
<1>12. Matches(more, now)
  BY <1>5, <1>7, <1>10, <1>11 DEF Matches
<1> QED BY <1>5, <1>9, <1>12 DEF more, now

\* The first assignment of a DO UPDATE.
FirstSet(name, value) == <<Set(name, value)>>
FirstSaid(name, value) == [n \in {name} |-> value]
LEMMA MatchesOne ==
  ASSUME NEW t, NEW name \in AssignableTo(t), NEW value \in Expressions
  PROVE  /\ FirstSet(name, value) \in SetList(t) /\ FirstSaid(name, value) \in Assigned(t)
         /\ Matches(FirstSet(name, value), FirstSaid(name, value))
<1> DEFINE list == FirstSet(name, value)
           words == FirstSaid(name, value)
<1>1. Set(name, value) \in OneSet(t)
  BY DEF OneSet, Set
<1>2. list \in Seq(OneSet(t)) /\ DOMAIN list = {1} /\ list[1] = Set(name, value)
  BY <1>1 DEF FirstSet
<1>3. words \in [{name} -> Expressions] /\ DOMAIN words = {name} /\ words[name] = value
  BY DEF FirstSaid
<1> HIDE DEF list, words
<1>4. words \in Assigned(t)
  BY <1>3 DEF Assigned
<1>5. ToSet(list) = {Set(name, value)} /\ ~Twice(list)
  BY <1>2 DEF ToSet, Twice
<1>6. Matches(list, words)
  BY <1>3, <1>5 DEF Matches
<1> QED BY <1>2, <1>4, <1>6 DEF SetList, OneSet, list, words
-----------------------------------------------------------------------------
(***************************************************************************)
(* What each call keeps.                                                   *)
(***************************************************************************)
LEMMA InitHolds == Init => IInv
BY DEF Init, IInv, TableInv, BuildingInv, HeldInv, StatementInv, ChangeInv, Unwritten

LEMMA TableOpen ==
  ASSUME IInv, columns # None
  PROVE  columns \in Tables /\ dialect \in Served
BY DEF IInv, TableInv

LEMMA TableKept ==
  ASSUME TableInv, columns # None, UNCHANGED <<dialect, columns>>
  PROVE  TableInv'
BY DEF TableInv

LEMMA BuildingKept ==
  ASSUME BuildingInv, UNCHANGED <<columns, building, said>>
  PROVE  BuildingInv'
BY DEF BuildingInv

LEMMA HeldKept ==
  ASSUME HeldInv, UNCHANGED <<columns, held>>
  PROVE  HeldInv'
BY DEF HeldInv

LEMMA StatementKept ==
  ASSUME StatementInv, UNCHANGED <<columns, statement, meant>>
  PROVE  StatementInv'
BY DEF StatementInv, StatementAgrees, RowsAgree, ConflictAgrees, ActionAgrees, Reaches, Header

LEMMA ChangeKept ==
  ASSUME ChangeInv, UNCHANGED <<columns, change>>
  PROVE  ChangeInv'
BY DEF ChangeInv

LEMMA InsertKeeps ==
  ASSUME IInv, NEW d \in Served, NEW t \in Tables, Insert(d, t)
  PROVE  IInv'
<1>1. /\ columns = None /\ dialect' = d /\ columns' = t
      /\ UNCHANGED <<building, held, statement, change, returning, said, meant>>
  BY DEF Insert
<1>2. building = None /\ held = <<>> /\ statement = None /\ change = None
  BY <1>1 DEF IInv, TableInv
<1>3. t # None
  BY ColumnsAssumption
<1>4. TableInv'
  BY <1>1, <1>3 DEF TableInv
<1>5. HeldInv'
  BY <1>1, <1>2 DEF HeldInv
<1>6. BuildingInv' /\ ChangeInv'
  BY <1>1, <1>2 DEF BuildingInv, ChangeInv
<1>7. StatementInv'
  BY <1>1, <1>2 DEF IInv, StatementInv
<1> QED BY <1>4, <1>5, <1>6, <1>7 DEF IInv

LEMMA BuilderKeeps ==
  ASSUME IInv, Builder
  PROVE  IInv'
<1>1. /\ columns # None
      /\ building' = [n \in ToSet(Header) |-> EmptyField(Named(columns, n))]
      /\ said' = [n \in ToSet(Header) |-> Unsaid]
      /\ UNCHANGED <<dialect, columns, held, statement, change, returning, meant>>
  BY DEF Builder, Begun
<1>2. NamesOf(columns) = ToSet(Header)
  BY DEF NamesOf, HeaderOf, Header
<1>3. said' \in Words(columns)
  <2>1. said' \in [NamesOf(columns) -> Cell(columns) \cup {Unsaid, None}]
    BY <1>1, <1>2
  <2>2. \A n \in NamesOf(columns) : said'[n] \in SaidOf(Named(columns, n))
    BY <1>1, <1>2 DEF SaidOf
  <2> QED BY <2>1, <2>2 DEF Words
<1>4. building' = Fields(columns, said')
  <2>1. \A n \in NamesOf(columns) : Denoted(Named(columns, n), said'[n]) = EmptyField(Named(columns, n))
    BY <1>1, <1>2 DEF Denoted
  <2> QED BY <1>1, <1>2, <2>1 DEF Fields
<1>5. BuildingInv'
  BY <1>1, <1>3, <1>4 DEF BuildingInv
<1> QED BY <1>1, <1>5, TableKept, HeldKept, StatementKept, ChangeKept DEF IInv

\* A setter called: the row has what it said.
LEMMA SetterKeeps ==
  ASSUME IInv, building # None, NEW c \in ToSet(Insertable(columns)), NEW word \in SaidOf(c), word # Unsaid,
         building' = [building EXCEPT ![c.name] = IntoColumnValue(c, word)],
         said' = [said EXCEPT ![c.name] = word],
         UNCHANGED <<dialect, columns, held, statement, change, returning, meant>>
  PROVE  IInv'
<1>1. columns # None /\ columns \in Tables
  BY TableOpen DEF IInv, TableInv
<1>2. c \in ToSet(columns) /\ ~c.generated /\ c.name \in NamesOf(columns)
  BY <1>1, InsertableAre, HeaderIs
<1>3. Named(columns, c.name) = c
  BY <1>1, <1>2, NamedIs
<1>4. said \in Words(columns) /\ building = Fields(columns, said)
  BY DEF IInv, BuildingInv
<1>5. word \in Cell(columns) \cup {Unsaid, None}
  BY <1>1, <1>2, CellMade
<1>6. /\ said \in [NamesOf(columns) -> Cell(columns) \cup {Unsaid, None}]
      /\ \A n \in NamesOf(columns) : said[n] \in SaidOf(Named(columns, n))
  BY <1>4 DEF Words
<1>7. /\ said' \in [NamesOf(columns) -> Cell(columns) \cup {Unsaid, None}]
      /\ said'[c.name] = word /\ \A n \in NamesOf(columns) : n # c.name => said'[n] = said[n]
  BY <1>2, <1>5, <1>6
<1>8. said' \in Words(columns)
  BY <1>3, <1>6, <1>7 DEF Words
<1>9. building' = Fields(columns, said')
  <2>1. building = [n \in NamesOf(columns) |-> Denoted(Named(columns, n), said[n])]
    BY <1>4 DEF Fields
  <2>2. building' = [n \in NamesOf(columns) |->
                      IF n = c.name THEN IntoColumnValue(c, word) ELSE Denoted(Named(columns, n), said[n])]
    BY <1>2, <2>1
  <2>3. Denoted(Named(columns, c.name), said'[c.name]) = IntoColumnValue(c, word)
    BY <1>3, <1>7 DEF Denoted
  <2>4. \A n \in NamesOf(columns) : Denoted(Named(columns, n), said'[n]) =
          IF n = c.name THEN IntoColumnValue(c, word) ELSE Denoted(Named(columns, n), said[n])
    BY <1>7, <2>3
  <2> QED BY <2>2, <2>4 DEF Fields
<1>10. BuildingInv'
  BY <1>8, <1>9 DEF BuildingInv
<1> QED BY <1>1, <1>10, TableKept, HeldKept, StatementKept, ChangeKept DEF IInv

LEMMA SetColumnKeeps ==
  ASSUME IInv, NEW c \in ToSet(Insertable(columns)), NEW arg \in Arguments(c), SetColumn(c, arg)
  PROVE  IInv'
<1>1. columns \in Tables
  BY TableOpen DEF IInv, TableInv, SetColumn
<1>2. c \in ToSet(columns)
  BY <1>1, InsertableAre
<1>3. arg # Unsaid /\ arg \in SaidOf(c)
  BY <1>1, <1>2, InsertsAssumption DEF Arguments, SaidOf
<1> QED BY <1>3, SetterKeeps DEF SetColumn

LEMMA SetNullKeeps ==
  ASSUME IInv, NEW c \in ToSet(Insertable(columns)), SetNull(c)
  PROVE  IInv'
<1>1. Null # Unsaid /\ Null # None
  BY ColumnsAssumption DEF Null, Unsaid
<1>2. IntoColumnValue(c, Null) = Null /\ Null \in SaidOf(c)
  BY <1>1 DEF IntoColumnValue, SaidOf, SetNull
<1> QED BY <1>1, <1>2, SetterKeeps DEF SetNull

LEMMA BuildKeeps ==
  ASSUME IInv, Build
  PROVE  IInv'
<1>1. /\ building # None /\ \A n \in DOMAIN building : building[n] # Missing
      /\ held' = Append(held, [cells |-> [i \in DOMAIN Header |-> building[Header[i]]], said |-> said])
      /\ building' = None
      /\ UNCHANGED <<dialect, columns, statement, change, returning, said, meant>>
  BY DEF Build
<1>2. columns # None /\ columns \in Tables
  BY <1>1, TableOpen DEF IInv, TableInv
<1>3. said \in Words(columns) /\ building = Fields(columns, said)
  BY <1>1 DEF IInv, BuildingInv
<1>4. DOMAIN Fields(columns, said) = NamesOf(columns)
  BY DEF Fields
<1>5. said \in Complete(columns)
  BY <1>1, <1>3, <1>4 DEF Complete
<1>6. [cells |-> [i \in DOMAIN Header |-> building[Header[i]]], said |-> said] = Built(columns, said)
  BY <1>3 DEF Built, CellsOf, HeaderOf, Header
<1>7. Built(columns, said) \in BuiltRow(columns)
  BY <1>2, <1>5, BuiltIs
<1>8. HeldInv'
  <2> DEFINE row == Built(columns, said)
             rows == BuiltRow(columns)
  <2>1. held \in Seq(rows) /\ row \in rows
    BY <1>7 DEF IInv, HeldInv
  <2>2. held' = Append(held, row)
    BY <1>1, <1>6
  <2> HIDE DEF row, rows
  <2>3. Append(held, row) \in Seq(rows)
    BY ONLY <2>1
  <2>4. columns' = columns
    BY <1>1
  <2> QED BY ONLY <2>2, <2>3, <2>4 DEF HeldInv, rows
<1>9. BuildingInv'
  BY <1>1 DEF BuildingInv
<1> QED BY <1>1, <1>2, <1>8, <1>9, TableKept, StatementKept, ChangeKept DEF IInv

\* An insert of rows, as a record.
LEMMA ValuesInsertIs ==
  ASSUME NEW t, NEW rows, NEW clause
  PROVE  /\ [kind |-> "values", rows |-> rows, on_conflict |-> clause] \in ValuesInsert(t)
              <=> rows \in Seq(Seq(Cell(t))) /\ clause \in ConflictClause(t) \cup {None}
         /\ \A v \in ValuesInsert(t) :
              /\ v = [kind |-> "values", rows |-> v.rows, on_conflict |-> v.on_conflict]
              /\ v.rows \in Seq(Seq(Cell(t))) /\ v.on_conflict \in ConflictClause(t) \cup {None}
<1> DEFINE R == Seq(Seq(Cell(t)))
           C == ConflictClause(t) \cup {None}
<1>1. ValuesInsert(t) = [kind : {"values"}, rows : R, on_conflict : C]
  BY DEF ValuesInsert
<1> HIDE DEF R, C
<1>2. /\ [kind |-> "values", rows |-> rows, on_conflict |-> clause] \in ValuesInsert(t)
           <=> rows \in R /\ clause \in C
      /\ \A v \in ValuesInsert(t) :
           /\ v = [kind |-> "values", rows |-> v.rows, on_conflict |-> v.on_conflict]
           /\ v.rows \in R /\ v.on_conflict \in C
  BY <1>1
<1> QED BY <1>2 DEF R, C

\* Of the statements, an insert of rows, with those it was given.
LEMMA InsertHas ==
  ASSUME IInv, IsInsert
  PROVE  /\ columns # None /\ columns \in Tables
         /\ statement \in ValuesInsert(columns) /\ statement # None
         /\ \E rows \in Seq(BuiltRow(columns)) : RowsAgree(rows)
         /\ ConflictAgrees(statement.on_conflict, meant.on_conflict)
         /\ statement = [kind |-> "values", rows |-> statement.rows, on_conflict |-> statement.on_conflict]
         /\ meant = [rows |-> meant.rows, on_conflict |-> meant.on_conflict]
<1>1. statement # None /\ statement.kind = "values"
  BY DEF IsInsert
<1>2. columns # None /\ columns \in Tables
  BY <1>1, TableOpen DEF IInv, TableInv
<1>3. statement # Nothing
  BY <1>1 DEF Nothing
<1>4. statement \notin SelectInsert(columns)
  BY <1>1 DEF SelectInsert
<1>5. /\ statement \in ValuesInsert(columns)
      /\ \E rows \in Seq(BuiltRow(columns)) : RowsAgree(rows)
      /\ ConflictAgrees(statement.on_conflict, meant.on_conflict)
  BY <1>1, <1>3, <1>4 DEF IInv, StatementInv, StatementAgrees
<1>6. meant = [rows |-> meant.rows, on_conflict |-> meant.on_conflict]
  BY DEF IInv, StatementInv
<1> QED BY <1>1, <1>2, <1>5, <1>6, ValuesInsertIs

\* A statement with the rows of a list, after a step that gave it them.
LEMMA GivenRows ==
  ASSUME NEW rows \in Seq(BuiltRow(columns)), rows # <<>>,
         Insertable(columns) = <<>> => Len(rows) = 1,
         columns \in Tables, UNCHANGED columns,
         NEW clause \in ConflictClause(columns) \cup {None}, NEW m, ConflictAgrees(clause, m),
         statement' = [kind |-> "values", rows |-> Cells(rows), on_conflict |-> clause],
         meant' = [rows |-> Said(rows), on_conflict |-> m]
  PROVE  StatementInv'
<1>1. Cells(rows) \in Seq(Seq(Cell(columns)))
  BY RowsOf
<1>2. statement' \in ValuesInsert(columns)
  BY <1>1, ValuesInsertIs
<1>3. statement' # None
  BY <1>2, InsertsAssumption
<1>4. statement'.rows = Cells(rows) /\ statement'.on_conflict = clause
  OBVIOUS
<1>5. meant'.rows = Said(rows) /\ meant'.on_conflict = m
  OBVIOUS
<1>6. meant' = [rows |-> meant'.rows, on_conflict |-> meant'.on_conflict]
  OBVIOUS
<1>7. RowsAgree(rows)'
  BY <1>4, <1>5 DEF RowsAgree
<1>8. ConflictAgrees(statement.on_conflict, meant.on_conflict)'
  BY <1>4, <1>5 DEF ConflictAgrees, ActionAgrees, Reaches
<1>9. StatementAgrees'
  BY <1>2, <1>7, <1>8 DEF StatementAgrees
<1> QED BY <1>3, <1>6, <1>9 DEF StatementInv

\* The rows of a statement, and more of them, as they come next.
LEMMA MoreRows ==
  ASSUME IInv, IsInsert, Repeatable(columns), NEW more \in Seq(BuiltRow(columns)), UNCHANGED columns,
         statement' = [statement EXCEPT !.rows = @ \o Cells(more)],
         meant' = [meant EXCEPT !.rows = @ \o Said(more)]
  PROVE  StatementInv'
<1>1. /\ columns \in Tables
      /\ \E rows \in Seq(BuiltRow(columns)) : RowsAgree(rows)
      /\ ConflictAgrees(statement.on_conflict, meant.on_conflict)
      /\ statement = [kind |-> "values", rows |-> statement.rows, on_conflict |-> statement.on_conflict]
      /\ meant = [rows |-> meant.rows, on_conflict |-> meant.on_conflict]
      /\ statement.on_conflict \in ConflictClause(columns) \cup {None}
  BY InsertHas, ValuesInsertIs
<1>2. PICK rows \in Seq(BuiltRow(columns)) : RowsAgree(rows)
  BY <1>1
<1> DEFINE all == rows \o more
           clause == statement.on_conflict
           m == meant.on_conflict
<1>3. /\ all \in Seq(BuiltRow(columns)) /\ Cells(all) = Cells(rows) \o Cells(more)
      /\ Said(all) = Said(rows) \o Said(more)
      /\ Len(all) = Len(rows) + Len(more)
  BY <1>1, RowsOfBoth
<1>4. all # <<>>
  <2>1. Len(rows) \in Nat /\ Len(rows) # 0 /\ Len(more) \in Nat
    BY <1>2 DEF RowsAgree
  <2>2. Len(all) # 0
    BY <1>3, <2>1
  <2> QED BY <2>2
<1>5. statement.rows = Cells(rows) /\ meant.rows = Said(rows)
  BY <1>2 DEF RowsAgree
<1>6. statement' = [kind |-> "values", rows |-> Cells(rows) \o Cells(more), on_conflict |-> clause]
  <2> DEFINE now == statement.rows \o Cells(more)
  <2>1. statement' = [statement EXCEPT !.rows = now]
    OBVIOUS
  <2> HIDE DEF now
  <2>3. statement = [kind |-> "values", rows |-> statement.rows, on_conflict |-> clause]
    BY <1>1
  <2> HIDE DEF clause
  <2>2. statement' = [kind |-> "values", rows |-> now, on_conflict |-> clause]
    BY <2>1, <2>3
  <2> QED BY <1>5, <2>2 DEF now
<1>7. meant' = [rows |-> Said(rows) \o Said(more), on_conflict |-> m]
  <2> DEFINE now == meant.rows \o Said(more)
  <2>1. meant' = [meant EXCEPT !.rows = now]
    OBVIOUS
  <2> HIDE DEF now
  <2>2. meant' = [rows |-> now, on_conflict |-> m]
    BY <1>1, <2>1
  <2> QED BY <1>5, <2>2 DEF now
<1>8. Insertable(columns) # <<>>
  BY DEF Repeatable
<1> HIDE DEF all, clause, m
<1>9. statement' = [kind |-> "values", rows |-> Cells(all), on_conflict |-> clause]
      /\ meant' = [rows |-> Said(all), on_conflict |-> m]
  BY <1>3, <1>6, <1>7
<1>10. clause \in ConflictClause(columns) \cup {None} /\ ConflictAgrees(clause, m)
  BY <1>1 DEF clause, m
<1> QED BY <1>1, <1>3, <1>4, <1>8, <1>9, <1>10, GivenRows

\* The first rows of a statement.
LEMMA FirstRows ==
  ASSUME IInv, columns # None, statement = None, NEW rows \in Seq(BuiltRow(columns)), rows # <<>>,
         Insertable(columns) = <<>> => Len(rows) = 1, UNCHANGED columns,
         statement' = ValuesOf(rows),
         meant' = [meant EXCEPT !.rows = @ \o Said(rows)]
  PROVE  StatementInv'
<1>1. columns \in Tables
  BY TableOpen
<1>2. meant = Unwritten
  BY DEF IInv, StatementInv
<1>3. Said(rows) \in Seq(Complete(columns))
  BY <1>1, RowsOf
<1>4. meant' = [rows |-> Said(rows), on_conflict |-> None]
  <2> DEFINE now == <<>> \o Said(rows)
  <2>1. now = Said(rows)
    BY <1>3
  <2>2. meant' = [Unwritten EXCEPT !.rows = now]
    BY <1>2 DEF Unwritten
  <2> HIDE DEF now
  <2>3. meant' = [rows |-> now, on_conflict |-> None]
    BY <2>2 DEF Unwritten
  <2> QED BY <2>1, <2>3
<1>5. statement' = [kind |-> "values", rows |-> Cells(rows), on_conflict |-> None]
  BY DEF ValuesOf
<1>6. ConflictAgrees(None, None)
  BY DEF ConflictAgrees
<1> QED BY <1>1, <1>4, <1>5, <1>6, GivenRows

LEMMA ValuesKeeps ==
  ASSUME IInv, Values
  PROVE  IInv'
<1> DEFINE one == <<held[1]>>
<1>1. /\ columns # None /\ held # <<>> /\ held' = Tail(held)
      /\ meant' = [meant EXCEPT !.rows = Append(@, held[1].said)]
      /\ UNCHANGED <<dialect, columns, building, change, returning, said>>
  BY DEF Values, Begun
<1>2. columns \in Tables /\ held \in Seq(BuiltRow(columns))
  BY <1>1, TableOpen DEF IInv, HeldInv
<1>3. held[1] \in BuiltRow(columns) /\ Tail(held) \in Seq(BuiltRow(columns))
  BY <1>1, <1>2
<1>4. /\ one \in Seq(BuiltRow(columns)) /\ Len(one) = 1 /\ one # <<>>
      /\ Cells(one) = <<held[1].cells>> /\ Said(one) = <<held[1].said>>
  BY <1>2, <1>3, RowsOfOne
<1> HIDE DEF one
<1>5. HeldInv'
  BY <1>1, <1>3 DEF HeldInv
<1>6. CASE statement = None /\ statement' = ValuesOf(one)
  <2>1. meant.rows = <<>>
    BY <1>6 DEF IInv, StatementInv, Unwritten
  <2>2. Append(meant.rows, held[1].said) = meant.rows \o Said(one)
    BY <1>4, <2>1
  <2>3. meant' = [meant EXCEPT !.rows = @ \o Said(one)]
    BY <1>1, <2>2
  <2>4. StatementInv'
    BY <1>1, <1>4, <1>6, <2>3, FirstRows
  <2> QED BY <1>1, <1>5, <2>4, TableKept, BuildingKept, ChangeKept DEF IInv
<1>7. CASE /\ IsInsert /\ Repeatable(columns)
           /\ statement' = [statement EXCEPT !.rows = Append(@, held[1].cells)]
  <2>1. PICK rows \in Seq(BuiltRow(columns)) : RowsAgree(rows)
    BY <1>7, InsertHas
  <2>2. statement.rows \in Seq(Seq(Cell(columns))) /\ meant.rows \in Seq(Complete(columns))
    BY <1>2, <2>1, RowsOf DEF RowsAgree
  <2>3. /\ Append(statement.rows, held[1].cells) = statement.rows \o Cells(one)
        /\ Append(meant.rows, held[1].said) = meant.rows \o Said(one)
    <3>1. held[1].cells \in Seq(Cell(columns)) /\ held[1].said \in Complete(columns)
      BY <1>2, <1>3, BuiltRowIs
    <3> QED BY <1>4, <2>2, <3>1, AppendIsConcat
  <2>4. /\ statement' = [statement EXCEPT !.rows = @ \o Cells(one)]
        /\ meant' = [meant EXCEPT !.rows = @ \o Said(one)]
    BY <1>1, <1>7, <2>3
  <2>5. StatementInv'
    BY <1>1, <1>4, <1>7, <2>4, MoreRows
  <2> QED BY <1>1, <1>5, <2>5, TableKept, BuildingKept, ChangeKept DEF IInv
<1> QED BY <1>6, <1>7 DEF Values, one

LEMMA ValuesAllKeeps ==
  ASSUME IInv, ValuesAll
  PROVE  IInv'
<1>1. /\ columns # None /\ Repeatable(columns) /\ held' = <<>>
      /\ meant' = [meant EXCEPT !.rows = @ \o Said(held)]
      /\ UNCHANGED <<dialect, columns, building, change, returning, said>>
  BY DEF ValuesAll, Begun
<1>2. columns \in Tables /\ held \in Seq(BuiltRow(columns)) /\ Insertable(columns) # <<>>
  BY <1>1, TableOpen DEF IInv, HeldInv, Repeatable
<1>3. HeldInv'
  BY <1>1 DEF HeldInv
<1>4. StatementInv'
  <2>1. CASE statement = None /\ held # <<>> /\ statement' = ValuesOf(held)
    BY <1>1, <1>2, <2>1, FirstRows
  <2>2. CASE statement = None /\ held = <<>> /\ statement' = Nothing
    <3>1. meant = Unwritten
      BY <2>2 DEF IInv, StatementInv
    <3>2. Said(held) = <<>>
      <4>1. Len(Said(held)) = 0 /\ Said(held) \in Seq(Complete(columns))
        BY <1>2, <2>2, RowsOf
      <4> QED BY <4>1
    <3>3. meant' = [Unwritten EXCEPT !.rows = <<>>]
      <4> DEFINE now == <<>> \o Said(held)
      <4>1. now = <<>>
        BY <3>2
      <4>2. meant' = [Unwritten EXCEPT !.rows = now]
        BY <1>1, <3>1 DEF Unwritten
      <4> HIDE DEF now
      <4> QED BY <4>1, <4>2
    <3>4. /\ meant'.rows = <<>>
          /\ meant' = [rows |-> meant'.rows, on_conflict |-> meant'.on_conflict]
      BY <3>3 DEF Unwritten
    <3>5. Nothing # None
      BY InsertsAssumption
    <3>6. StatementAgrees'
      BY <2>2, <3>4 DEF StatementAgrees, Nothing
    <3> QED BY <2>2, <3>4, <3>5, <3>6 DEF StatementInv
  <2>3. CASE IsInsert /\ statement' = [statement EXCEPT !.rows = @ \o Cells(held)]
    BY <1>1, <1>2, <2>3, MoreRows
  <2> QED BY <2>1, <2>2, <2>3 DEF ValuesAll
<1> QED BY <1>1, <1>3, <1>4, TableKept, BuildingKept, ChangeKept DEF IInv

LEMMA SelectKeeps ==
  ASSUME IInv, NEW source \in Sources, Select(source)
  PROVE  IInv'
<1> DEFINE row == [n \in ToSet(source) |-> n]
<1>1. /\ columns # None /\ statement = None /\ source = Header
      /\ statement' = [kind |-> "select", header |-> Header, source |-> source]
      /\ meant' = [meant EXCEPT !.rows = <<row>>]
      /\ UNCHANGED <<dialect, columns, building, held, said, change, returning>>
  BY DEF Select, Begun, SameShape, clauseVars, rowVars
<1> HIDE DEF row
<1>2. meant = [rows |-> <<>>, on_conflict |-> None]
  BY <1>1 DEF IInv, StatementInv, Unwritten
<1>3. /\ meant' = [rows |-> <<row>>, on_conflict |-> None]
      /\ Len(<<row>>) = 1
  BY <1>1, <1>2
<1>4. Header = Names(Insertable(columns))
  BY DEF Header
<1>5. statement' \in SelectInsert(columns) /\ statement'.source = Header
  <2> DEFINE h == Names(Insertable(columns))
  <2>1. statement' = [kind |-> "select", header |-> h, source |-> source]
    BY <1>1, <1>4
  <2>2. SelectInsert(columns) = [kind : {"select"}, header : {h}, source : Sources]
    BY DEF SelectInsert
  <2> HIDE DEF h
  <2>3. statement' \in SelectInsert(columns) /\ statement'.source = source
    BY <2>1, <2>2
  <2> QED BY <1>1, <2>3
<1>6. columns \in Tables
  BY <1>1, TableOpen
<1>7. statement' # None
  BY <1>5, <1>6, InsertsAssumption
<1>8. Header' = Header
  BY <1>1 DEF Header
<1>9. StatementAgrees'
  BY <1>1, <1>3, <1>5, <1>8 DEF StatementAgrees
<1>10. StatementInv'
  BY <1>3, <1>7, <1>9 DEF StatementInv
<1> QED BY <1>1, <1>10, TableKept, BuildingKept, HeldKept, ChangeKept DEF IInv

\* A ConflictUpdate, as a record.
Change(sets, wheres, m) == [sets |-> sets, wheres |-> wheres, meant |-> m]
LEMMA ConflictUpdateIs ==
  ASSUME NEW t, NEW sets, NEW wheres, NEW m
  PROVE  /\ Change(sets, wheres, m) \in ConflictUpdate(t)
              <=> sets \in SetList(t) /\ wheres \in Seq(Conditions) /\ m \in Assigned(t)
         /\ Change(sets, wheres, m).sets = sets /\ Change(sets, wheres, m).wheres = wheres
         /\ Change(sets, wheres, m).meant = m
         /\ \A v \in ConflictUpdate(t) :
              /\ v = Change(v.sets, v.wheres, v.meant)
              /\ v.sets \in SetList(t) /\ v.wheres \in Seq(Conditions) /\ v.meant \in Assigned(t)
<1> DEFINE S == SetList(t)
           W == Seq(Conditions)
           A == Assigned(t)
<1>1. ConflictUpdate(t) = [sets : S, wheres : W, meant : A]
  BY DEF ConflictUpdate
<1> HIDE DEF S, W, A
<1>2. /\ Change(sets, wheres, m) \in ConflictUpdate(t) <=> sets \in S /\ wheres \in W /\ m \in A
      /\ Change(sets, wheres, m).sets = sets /\ Change(sets, wheres, m).wheres = wheres
      /\ Change(sets, wheres, m).meant = m
      /\ \A v \in ConflictUpdate(t) :
           /\ v = Change(v.sets, v.wheres, v.meant)
           /\ v.sets \in S /\ v.wheres \in W /\ v.meant \in A
  BY <1>1 DEF Change
<1> QED BY <1>2 DEF S, W, A

\* The columns a SET may name are the table's.
LEMMA SetToKeeps ==
  ASSUME IInv, NEW c \in Assignable(columns), NEW value \in Expressions, SetTo(c.name, value)
  PROVE  IInv'
<1> DEFINE name == c.name
<1>1. /\ columns # None /\ UNCHANGED <<dialect, columns, building, held, said, statement, returning, meant>>
      /\ change' = IF change = None
                   THEN [sets |-> <<Set(name, value)>>, wheres |-> <<>>, meant |-> [n \in {name} |-> value]]
                   ELSE [change EXCEPT !.sets = PushSet(@, name, value), !.meant = Resaid(@, name, value)]
  BY DEF SetTo, Begun, rowVars
<1>2. name \in AssignableTo(columns)
  BY DEF AssignableTo
<1> HIDE DEF name
<1>3. CASE change = None
  <2> DEFINE none == <<>>
             list == FirstSet(name, value)
             words == FirstSaid(name, value)
  <2>1. change' = Change(list, none, words)
    BY <1>1, <1>3 DEF Change, FirstSet, FirstSaid
  <2>2. list \in SetList(columns) /\ words \in Assigned(columns) /\ Matches(list, words)
    BY <1>2, MatchesOne
  <2>3. none \in Seq(Conditions)
    OBVIOUS
  <2> HIDE DEF none, list, words
  <2>4. change' \in ConflictUpdate(columns) /\ Matches(change'.sets, change'.meant)
    BY <2>1, <2>2, <2>3, ConflictUpdateIs
  <2>5. ChangeInv'
    BY <1>1, <2>4 DEF ChangeInv
  <2> QED BY <1>1, <2>5, TableKept, BuildingKept, HeldKept, StatementKept DEF IInv
<1>4. CASE change # None
  <2>1. change \in ConflictUpdate(columns) /\ Matches(change.sets, change.meant)
    BY <1>4 DEF IInv, ChangeInv
  <2>2. /\ change = Change(change.sets, change.wheres, change.meant)
        /\ change.sets \in SetList(columns) /\ change.wheres \in Seq(Conditions)
        /\ change.meant \in Assigned(columns)
    BY <2>1, ConflictUpdateIs
  <2> DEFINE more == PushSet(change.sets, name, value)
             now == Resaid(change.meant, name, value)
  <2>3. more \in SetList(columns) /\ now \in Assigned(columns) /\ Matches(more, now)
    BY <1>2, <2>1, <2>2, MatchesMore
  <2>4. change' = [change EXCEPT !.sets = more, !.meant = now]
    BY <1>1, <1>4
  <2> HIDE DEF more, now
  <2>5. change' = Change(more, change.wheres, now)
    BY <2>2, <2>4 DEF Change
  <2>6. change' \in ConflictUpdate(columns) /\ Matches(change'.sets, change'.meant)
    BY <2>2, <2>3, <2>5, ConflictUpdateIs
  <2>7. ChangeInv'
    BY <1>1, <2>6 DEF ChangeInv
  <2> QED BY <1>1, <2>7, TableKept, BuildingKept, HeldKept, StatementKept DEF IInv
<1> QED BY <1>3, <1>4

LEMMA FilterKeeps ==
  ASSUME IInv, NEW condition \in Conditions, Filter(condition)
  PROVE  IInv'
<1> DEFINE more == Append(change.wheres, condition)
<1>1. /\ columns # None /\ change # None
      /\ UNCHANGED <<dialect, columns, building, held, said, statement, returning, meant>>
      /\ change' = [change EXCEPT !.wheres = more]
  BY DEF Filter, Begun, rowVars
<1>2. change \in ConflictUpdate(columns) /\ Matches(change.sets, change.meant)
  BY <1>1 DEF IInv, ChangeInv
<1>3. /\ change = Change(change.sets, change.wheres, change.meant)
      /\ change.sets \in SetList(columns) /\ change.wheres \in Seq(Conditions)
      /\ change.meant \in Assigned(columns)
  BY <1>2, ConflictUpdateIs
<1>4. more \in Seq(Conditions)
  BY <1>3
<1> HIDE DEF more
<1>5. change' = Change(change.sets, more, change.meant)
  BY <1>1, <1>3 DEF Change
<1>6. change' \in ConflictUpdate(columns) /\ Matches(change'.sets, change'.meant)
  BY <1>2, <1>3, <1>4, <1>5, ConflictUpdateIs
<1>7. ChangeInv'
  BY <1>1, <1>6 DEF ChangeInv
<1> QED BY <1>1, <1>7, TableKept, BuildingKept, HeldKept, StatementKept DEF IInv

\* What is done about a conflict, as a record; and what was asked.
Clause(target, action) == [target |-> target, action |-> action]
Action(sets, wheres) == [sets |-> sets, wheres |-> wheres]
Asked(target, sets, wheres) == [target |-> target, sets |-> sets, wheres |-> wheres]

LEMMA ClauseIs ==
  ASSUME NEW t, NEW target, NEW action
  PROVE  /\ Clause(target, action) \in ConflictClause(t)
              <=> target \in Targets /\ action \in ConflictAction(t) \cup {None}
         /\ Clause(target, action).target = target /\ Clause(target, action).action = action
         /\ \A v \in ConflictClause(t) : v.target \in Targets /\ v.action \in ConflictAction(t) \cup {None}
<1> DEFINE A == ConflictAction(t) \cup {None}
<1>1. ConflictClause(t) = [target : Targets, action : A]
  BY DEF ConflictClause
<1> HIDE DEF A
<1>2. /\ Clause(target, action) \in ConflictClause(t) <=> target \in Targets /\ action \in A
      /\ Clause(target, action).target = target /\ Clause(target, action).action = action
      /\ \A v \in ConflictClause(t) : v.target \in Targets /\ v.action \in A
  BY <1>1 DEF Clause
<1> QED BY <1>2 DEF A

LEMMA ActionIs ==
  ASSUME NEW t, NEW sets, NEW wheres
  PROVE  /\ Action(sets, wheres) \in ConflictAction(t) <=> sets \in SetList(t) /\ wheres \in Seq(Conditions)
         /\ Action(sets, wheres).sets = sets /\ Action(sets, wheres).wheres = wheres
         /\ \A v \in ConflictAction(t) : v.sets \in SetList(t) /\ v.wheres \in Seq(Conditions)
<1> DEFINE S == SetList(t)
           W == Seq(Conditions)
<1>1. ConflictAction(t) = [sets : S, wheres : W]
  BY DEF ConflictAction
<1> HIDE DEF S, W
<1>2. /\ Action(sets, wheres) \in ConflictAction(t) <=> sets \in S /\ wheres \in W
      /\ Action(sets, wheres).sets = sets /\ Action(sets, wheres).wheres = wheres
      /\ \A v \in ConflictAction(t) : v.sets \in S /\ v.wheres \in W
  BY <1>1 DEF Action
<1> QED BY <1>2 DEF S, W

LEMMA AskedIs ==
  ASSUME NEW t, NEW target, NEW sets, NEW wheres
  PROVE  /\ Asked(target, sets, wheres) \in MeantConflict(t)
              <=> target \in Targets /\ sets \in Assigned(t) \cup {None} /\ wheres \in SUBSET Conditions
         /\ Asked(target, sets, wheres).target = target /\ Asked(target, sets, wheres).sets = sets
         /\ Asked(target, sets, wheres).wheres = wheres
<1> DEFINE A == Assigned(t) \cup {None}
           W == SUBSET Conditions
<1>1. MeantConflict(t) = [target : Targets, sets : A, wheres : W]
  BY DEF MeantConflict
<1> HIDE DEF A, W
<1>2. /\ Asked(target, sets, wheres) \in MeantConflict(t)
            <=> target \in Targets /\ sets \in A /\ wheres \in W
      /\ Asked(target, sets, wheres).target = target /\ Asked(target, sets, wheres).sets = sets
      /\ Asked(target, sets, wheres).wheres = wheres
  BY <1>1 DEF Asked
<1> QED BY <1>2 DEF A, W

\* The last on_conflict is the statement's.
LEMMA OnConflictKeeps ==
  ASSUME IInv, IsInsert, NEW clause \in ConflictClause(columns), NEW m, ConflictAgrees(clause, m),
         UNCHANGED columns,
         statement' = [statement EXCEPT !.on_conflict = clause],
         meant' = [meant EXCEPT !.on_conflict = m]
  PROVE  StatementInv'
<1>1. /\ columns \in Tables
      /\ statement = [kind |-> "values", rows |-> statement.rows, on_conflict |-> statement.on_conflict]
      /\ meant = [rows |-> meant.rows, on_conflict |-> meant.on_conflict]
  BY InsertHas
<1>2. PICK rows \in Seq(BuiltRow(columns)) : RowsAgree(rows)
  BY InsertHas
<1>3. /\ statement.rows = Cells(rows) /\ meant.rows = Said(rows) /\ rows # <<>>
      /\ Insertable(columns) = <<>> => Len(rows) = 1
  BY <1>2 DEF RowsAgree
<1>4. /\ statement' = [kind |-> "values", rows |-> Cells(rows), on_conflict |-> clause]
      /\ meant' = [rows |-> Said(rows), on_conflict |-> m]
  BY <1>1, <1>3
<1> QED BY <1>1, <1>3, <1>4, GivenRows

LEMMA OnConflictDoNothingKeeps ==
  ASSUME IInv, NEW target \in Targets, OnConflictDoNothing(target)
  PROVE  IInv'
<1> DEFINE clause == Clause(target, None)
           m == Asked(target, None, {})
<1>1. /\ columns # None /\ IsInsert /\ Reaches(target)
      /\ statement' = [statement EXCEPT !.on_conflict = clause]
      /\ meant' = [meant EXCEPT !.on_conflict = m]
      /\ UNCHANGED <<dialect, columns, building, held, said, change, returning>>
  BY DEF OnConflictDoNothing, Begun, Clause, Asked, rowVars, clauseVars
<1>2. clause \in ConflictClause(columns) /\ clause.target = target /\ clause.action = None
  BY ClauseIs
<1>3. m \in MeantConflict(columns) /\ m.target = target /\ m.sets = None /\ m.wheres = {}
  BY AskedIs
<1> HIDE DEF clause, m
<1>4. columns \in Tables
  BY <1>1, TableOpen
<1>5. clause # None
  BY <1>2, <1>4, InsertsAssumption
<1>6. ConflictAgrees(clause, m)
  BY <1>1, <1>2, <1>3, <1>5 DEF ConflictAgrees, ActionAgrees
<1>7. StatementInv'
  BY <1>1, <1>2, <1>6, OnConflictKeeps
<1> QED BY <1>1, <1>7, TableKept, BuildingKept, HeldKept, ChangeKept DEF IInv

LEMMA OnConflictDoUpdateKeeps ==
  ASSUME IInv, NEW target \in Targets, OnConflictDoUpdate(target)
  PROVE  IInv'
<1> DEFINE action == Action(change.sets, change.wheres)
           clause == Clause(target, action)
           wheres == ToSet(change.wheres)
           m == Asked(target, change.meant, wheres)
<1>1. /\ columns # None /\ IsInsert /\ Reaches(target) /\ change # None /\ change' = None
      /\ statement' = [statement EXCEPT !.on_conflict = clause]
      /\ meant' = [meant EXCEPT !.on_conflict = m]
      /\ UNCHANGED <<dialect, columns, building, held, said, returning>>
  BY DEF OnConflictDoUpdate, Begun, Clause, Action, Asked, rowVars
<1>2. change \in ConflictUpdate(columns) /\ Matches(change.sets, change.meant)
  BY <1>1 DEF IInv, ChangeInv
<1>3. /\ change.sets \in SetList(columns) /\ change.wheres \in Seq(Conditions)
      /\ change.meant \in Assigned(columns)
  BY <1>2, ConflictUpdateIs
<1>4. wheres \in SUBSET Conditions
  BY <1>3 DEF ToSet
<1>5. /\ action \in ConflictAction(columns)
      /\ action.sets = change.sets /\ action.wheres = change.wheres
  BY <1>3, ActionIs
<1> HIDE DEF action
<1>6. clause \in ConflictClause(columns) /\ clause.target = target /\ clause.action = action
  BY <1>5, ClauseIs
<1> HIDE DEF wheres
<1>7. m \in MeantConflict(columns) /\ m.target = target /\ m.sets = change.meant /\ m.wheres = wheres
  BY <1>3, <1>4, AskedIs
<1> HIDE DEF clause, m
<1>8. columns \in Tables
  BY <1>1, TableOpen
<1>9. clause # None /\ action # None
  BY <1>5, <1>6, <1>8, InsertsAssumption
<1>10. ActionAgrees(action, m)
  BY <1>2, <1>3, <1>5, <1>7, <1>9 DEF ActionAgrees, wheres
<1>11. ConflictAgrees(clause, m)
  BY <1>1, <1>6, <1>7, <1>9, <1>10 DEF ConflictAgrees
<1>12. StatementInv'
  BY <1>1, <1>6, <1>11, OnConflictKeeps
<1>13. ChangeInv'
  BY <1>1 DEF ChangeInv
<1> QED BY <1>1, <1>12, <1>13, TableKept, BuildingKept, HeldKept DEF IInv

LEMMA StepHolds == IInv /\ [Next]_vars => IInv'
<1> SUFFICES ASSUME IInv, [Next]_vars PROVE IInv'
  OBVIOUS
<1>1. ASSUME NEW d \in Served, NEW t \in Tables, Insert(d, t) PROVE IInv'
  BY <1>1, InsertKeeps
<1>2. CASE Builder
  BY <1>2, BuilderKeeps
<1>3. CASE Build
  BY <1>3, BuildKeeps
<1>4. CASE Values
  BY <1>4, ValuesKeeps
<1>5. CASE ValuesAll
  BY <1>5, ValuesAllKeeps
<1>6. CASE Returning
  <2>1. columns # None /\ UNCHANGED <<dialect, columns, building, held, said, statement, change, meant>>
    BY <1>6 DEF Returning, Begun, rowVars
  <2> QED BY <2>1, TableKept, BuildingKept, HeldKept, StatementKept, ChangeKept DEF IInv
<1>7. ASSUME NEW c \in ToSet(Insertable(columns)), SetNull(c) PROVE IInv'
  BY <1>7, SetNullKeeps
<1>8. ASSUME NEW c \in ToSet(Insertable(columns)), NEW arg \in Arguments(c), SetColumn(c, arg) PROVE IInv'
  BY <1>8, SetColumnKeeps
<1>9. ASSUME NEW source \in Sources, Select(source) PROVE IInv'
  BY <1>9, SelectKeeps
<1>10. ASSUME NEW c \in Assignable(columns), NEW e \in Expressions, SetTo(c.name, e) PROVE IInv'
  BY <1>10, SetToKeeps
<1>11. ASSUME NEW condition \in Conditions, Filter(condition) PROVE IInv'
  BY <1>11, FilterKeeps
<1>12. ASSUME NEW target \in Targets, OnConflictDoNothing(target) PROVE IInv'
  BY <1>12, OnConflictDoNothingKeeps
<1>13. ASSUME NEW target \in Targets, OnConflictDoUpdate(target) PROVE IInv'
  BY <1>13, OnConflictDoUpdateKeeps
<1>14. CASE UNCHANGED vars
  <2>1. UNCHANGED <<dialect, columns, building, held, said, statement, change, meant>>
    BY <1>14 DEF vars
  <2>2. TableInv'
    BY <2>1 DEF IInv, TableInv
  <2> QED BY <2>1, <2>2, BuildingKept, HeldKept, StatementKept, ChangeKept DEF IInv
<1> QED BY <1>1, <1>2, <1>3, <1>4, <1>5, <1>6, <1>7, <1>8, <1>9, <1>10, <1>11, <1>12, <1>13, <1>14 DEF Next

\* Whatever the tables, the row being built has what the setters last said, a
\* statement the rows it was given in their order, one where the table has
\* nothing to name, and the conflict clause of the last on_conflict, whose SET
\* names a column once (the *Insert builder, InsertValues, push_set).
THEOREM Invariance == Spec => []IInv
BY InitHolds, StepHolds, PTL DEF Spec
-----------------------------------------------------------------------------
(***************************************************************************)
(* The statement rendered, clause by clause.                               *)
(***************************************************************************)
\* Three runs of clauses, one after the other.
Whole(a, b, c) == (a \o b) \o c

LEMMA Parts ==
  ASSUME NEW S, NEW a \in Seq(S), NEW b \in Seq(S), NEW c \in Seq(S)
  PROVE  /\ Whole(a, b, c) \in Seq(S) /\ Len(Whole(a, b, c)) = Len(a) + Len(b) + Len(c)
         /\ DOMAIN Whole(a, b, c) = 1 .. (Len(a) + Len(b) + Len(c))
         /\ \A i \in 1 .. Len(a) : Whole(a, b, c)[i] = a[i]
         /\ \A i \in 1 .. Len(b) : Whole(a, b, c)[Len(a) + i] = b[i]
         /\ \A i \in 1 .. Len(c) : Whole(a, b, c)[Len(a) + Len(b) + i] = c[i]
<1> DEFINE ab == a \o b
           w == ab \o c
           A == Len(a)
           B == Len(b)
           C == Len(c)
<1>1. /\ A \in Nat /\ B \in Nat /\ C \in Nat
      /\ ab \in Seq(S) /\ Len(ab) = A + B
      /\ \A i \in 1 .. (A + B) : ab[i] = IF i <= A THEN a[i] ELSE b[i - A]
  BY ConcatProperties
<1> HIDE DEF ab
<1>8. /\ w \in Seq(S) /\ Len(w) = Len(ab) + Len(c)
      /\ \A i \in 1 .. (Len(ab) + Len(c)) : w[i] = IF i <= Len(ab) THEN ab[i] ELSE c[i - Len(ab)]
  <2>1. ab \in Seq(S)
    BY <1>1
  <2> QED BY <2>1, ConcatProperties
<1>2. /\ w \in Seq(S) /\ Len(w) = A + B + C
      /\ \A i \in 1 .. (A + B + C) : w[i] = IF i <= A + B THEN ab[i] ELSE c[i - (A + B)]
  <2>1. Len(ab) = A + B /\ Len(c) = C
    BY <1>1
  <2> HIDE DEF w, A, B, C
  <2> QED BY <1>8, <2>1
<1> HIDE DEF w, A, B, C
<1>3. ASSUME NEW i \in 1 .. A PROVE w[i] = a[i]
  <2>1. i \in 1 .. (A + B + C) /\ i \in 1 .. (A + B) /\ i <= A + B /\ i <= A
    BY <1>1
  <2> QED BY <1>1, <1>2, <2>1
<1>4. ASSUME NEW i \in 1 .. B PROVE w[A + i] = b[i]
  <2>1. A + i \in 1 .. (A + B + C) /\ A + i \in 1 .. (A + B) /\ A + i <= A + B /\ ~(A + i <= A) /\ (A + i) - A = i
    BY <1>1
  <2> QED BY <1>1, <1>2, <2>1
<1>5. ASSUME NEW i \in 1 .. C PROVE w[A + B + i] = c[i]
  <2>1. /\ A + B + i \in 1 .. (A + B + C) /\ ~(A + B + i <= A + B) /\ (A + B + i) - (A + B) = i
    BY <1>1
  <2> QED BY <1>1, <1>2, <2>1
<1>6. DOMAIN w = 1 .. (A + B + C)
  BY <1>2
<1>7. Whole(a, b, c) = w
  BY DEF Whole, w, ab
<1> QED BY <1>2, <1>3, <1>4, <1>5, <1>6, <1>7 DEF A, B, C

\* A keyword's places are those it has in each run.
LEMMA Places ==
  ASSUME NEW S, NEW a \in Seq(S), NEW b \in Seq(S), NEW c \in Seq(S), NEW keyword,
         \A i \in 1 .. Len(c) : c[i][1] # keyword
  PROVE  \A i \in 1 .. (Len(a) + Len(b) + Len(c)) :
           i \in Positions(Whole(a, b, c), keyword) <=>
             \/ i \in 1 .. Len(a) /\ a[i][1] = keyword
             \/ i - Len(a) \in 1 .. Len(b) /\ b[i - Len(a)][1] = keyword
<1> DEFINE w == Whole(a, b, c)
           A == Len(a)
           B == Len(b)
           C == Len(c)
<1>1. A \in Nat /\ B \in Nat /\ C \in Nat
  OBVIOUS
<1>2. /\ DOMAIN w = 1 .. (A + B + C)
      /\ \A i \in 1 .. A : w[i] = a[i]
      /\ \A i \in 1 .. B : w[A + i] = b[i]
      /\ \A i \in 1 .. C : w[A + B + i] = c[i]
  <2> HIDE DEF w, A, B, C
  <2>1. DOMAIN w = 1 .. (A + B + C)
    BY Parts DEF w, A, B, C
  <2>2. \A i \in 1 .. A : w[i] = a[i]
    BY Parts DEF w, A, B, C
  <2>3. \A i \in 1 .. B : w[A + i] = b[i]
    BY Parts DEF w, A, B, C
  <2>4. \A i \in 1 .. C : w[A + B + i] = c[i]
    BY Parts DEF w, A, B, C
  <2> QED BY <2>1, <2>2, <2>3, <2>4
<1> HIDE DEF w, A, B, C
<1> SUFFICES ASSUME NEW i \in 1 .. (A + B + C)
             PROVE  i \in Positions(w, keyword) <=>
                      \/ i \in 1 .. A /\ a[i][1] = keyword
                      \/ i - A \in 1 .. B /\ b[i - A][1] = keyword
  BY DEF w, A, B, C
<1>3. i \in Positions(w, keyword) <=> w[i][1] = keyword
  BY <1>2 DEF Positions
<1>4. CASE i <= A
  <2>1. i \in 1 .. A /\ ~(i - A \in 1 .. B)
    BY <1>1, <1>4
  <2> QED BY <1>2, <1>3, <2>1
<1>5. CASE A < i /\ i <= A + B
  <2>1. i - A \in 1 .. B /\ ~(i \in 1 .. A) /\ A + (i - A) = i
    BY <1>1, <1>5
  <2>2. w[A + (i - A)] = b[i - A]
    BY <1>2, <2>1
  <2> QED BY <1>3, <2>1, <2>2
<1>6. CASE A + B < i
  <2>1. i - (A + B) \in 1 .. C /\ ~(i \in 1 .. A) /\ ~(i - A \in 1 .. B) /\ A + B + (i - (A + B)) = i
    BY <1>1, <1>6
  <2>2. w[A + B + (i - (A + B))] = c[i - (A + B)]
    BY <1>2, <2>1
  <2>3. c[i - (A + B)][1] # keyword
    BY <2>1 DEF C
  <2>4. w[i][1] # keyword
    BY <2>1, <2>2, <2>3
  <2> QED BY <1>3, <2>1, <2>4
<1> QED BY <1>1, <1>4, <1>5, <1>6

\* The columns and the rows of an INSERT, each a clause.
Lines(h, cells) == <<<<"COLUMNS", h>>>> \o [i \in DOMAIN cells |-> <<"ROW", cells[i]>>]

LEMMA LinesAre ==
  ASSUME NEW T, NEW cells \in Seq(T), NEW h
  PROVE  /\ Lines(h, cells) \in Seq(ToSet(Lines(h, cells))) /\ Len(Lines(h, cells)) = Len(cells) + 1
         /\ Lines(h, cells)[1] = <<"COLUMNS", h>>
         /\ \A i \in 1 .. Len(cells) : Lines(h, cells)[i + 1] = <<"ROW", cells[i]>>
<1> DEFINE head == <<"COLUMNS", h>>
           one == <<head>>
           row == [i \in DOMAIN cells |-> <<"ROW", cells[i]>>]
           S == {head} \cup {<<"ROW", cells[i]>> : i \in DOMAIN cells}
           N == Len(cells)
           lines == one \o row
<1>1. N \in Nat /\ DOMAIN cells = 1 .. N
  OBVIOUS
<1>2. row \in Seq(S) /\ Len(row) = N /\ \A i \in 1 .. N : row[i] = <<"ROW", cells[i]>>
  BY <1>1
<1> HIDE DEF head, row
<1>3. one \in Seq(S) /\ Len(one) = 1 /\ one[1] = head
  OBVIOUS
<1> HIDE DEF one, S
<1>4. /\ lines \in Seq(S) /\ Len(lines) = 1 + N
      /\ \A i \in 1 .. (1 + N) : lines[i] = IF i <= 1 THEN one[i] ELSE row[i - 1]
  <2>1. one \in Seq(S) /\ row \in Seq(S)
    BY <1>2, <1>3
  <2>2. /\ lines \in Seq(S) /\ Len(lines) = Len(one) + Len(row)
        /\ \A i \in 1 .. (Len(one) + Len(row)) : lines[i] = IF i <= Len(one) THEN one[i] ELSE row[i - Len(one)]
    BY <2>1, ConcatProperties
  <2>3. Len(one) = 1 /\ Len(row) = N
    BY <1>2, <1>3
  <2> HIDE DEF lines, N
  <2> QED BY <2>2, <2>3
<1> HIDE DEF lines, N
<1>5. lines[1] = head
  BY <1>1, <1>3, <1>4
<1>6. ASSUME NEW i \in 1 .. N PROVE lines[i + 1] = <<"ROW", cells[i]>>
  <2>1. i + 1 \in 1 .. (1 + N) /\ ~(i + 1 <= 1) /\ (i + 1) - 1 = i
    BY <1>1
  <2> QED BY <1>2, <1>4, <2>1
<1>7. lines \in Seq(ToSet(lines)) /\ 1 + N = N + 1
  BY <1>1, <1>4 DEF ToSet
<1>8. Lines(h, cells) = lines
  BY DEF Lines, lines, one, row, head
<1> QED BY <1>4, <1>5, <1>6, <1>7, <1>8 DEF head, N
-----------------------------------------------------------------------------
(***************************************************************************)
(* The conflict clause: its target, what it does, and the two WHEREs.      *)
(***************************************************************************)
OnOf(clause) == <<"ON CONFLICT", clause.target.columns>>
PredicateOf(clause) == <<"WHERE", <<clause.target.predicate>>>>
UpdateOf(clause) == <<"DO UPDATE SET", clause.action.sets>>
DoOf(clause) ==
  IF clause.action = None THEN <<"DO NOTHING", <<>>>> ELSE UpdateOf(clause)
FilterOf(clause) == <<"WHERE", clause.action.wheres>>
HasPredicate(clause) == clause.target.predicate # None
HasFilter(clause) == clause.action # None /\ clause.action.wheres # <<>>
DoAt(clause) == IF HasPredicate(clause) THEN 3 ELSE 2
Ending(clause) == IF HasFilter(clause) THEN DoAt(clause) + 1 ELSE DoAt(clause)

ConflictTextIs(k, clause) ==
  /\ k \in Seq(ToSet(k)) /\ Len(k) = Ending(clause)
  /\ k[1] = OnOf(clause) /\ k[DoAt(clause)] = DoOf(clause)
  /\ HasPredicate(clause) => k[2] = PredicateOf(clause)
  /\ HasFilter(clause) => k[DoAt(clause) + 1] = FilterOf(clause)

\* A few clauses, one after the other.
LEMMA Two ==
  ASSUME NEW a, NEW c
  PROVE  <<a>> \o <<>> \o <<c>> = <<a, c>>
<1> DEFINE S == {a, c}
           w == <<a>> \o <<>> \o <<c>>
           v == <<a, c>>
<1>1. w \in Seq(S) /\ Len(w) = 2 /\ w[1] = a /\ w[2] = c
  OBVIOUS
<1>2. v \in Seq(S) /\ Len(v) = 2 /\ v[1] = a /\ v[2] = c
  OBVIOUS
<1> HIDE DEF S, w, v
<1>3. Len(w) = Len(v) /\ \A i \in 1 .. Len(v) : w[i] = v[i]
  BY <1>1, <1>2
<1>4. w = v
  BY <1>1, <1>2, <1>3, SeqEqual
<1> QED BY <1>4 DEF w, v

LEMMA Three ==
  ASSUME NEW a, NEW b, NEW c
  PROVE  <<a>> \o <<b>> \o <<c>> = <<a, b, c>>
<1> DEFINE S == {a, b, c}
           w == <<a>> \o <<b>> \o <<c>>
           v == <<a, b, c>>
<1>1. w \in Seq(S) /\ Len(w) = 3 /\ w[1] = a /\ w[2] = b /\ w[3] = c
  OBVIOUS
<1>2. v \in Seq(S) /\ Len(v) = 3 /\ v[1] = a /\ v[2] = b /\ v[3] = c
  OBVIOUS
<1> HIDE DEF S, w, v
<1>3. Len(w) = Len(v) /\ \A i \in 1 .. Len(v) : w[i] = v[i]
  BY <1>1, <1>2
<1>4. w = v
  BY <1>1, <1>2, <1>3, SeqEqual
<1> QED BY <1>4 DEF w, v

LEMMA TwoBare ==
  ASSUME NEW a, NEW c
  PROVE  <<a>> \o <<>> \o (<<c>> \o <<>>) = <<a, c>>
<1> DEFINE S == {a, c}
           w == <<a>> \o <<>> \o (<<c>> \o <<>>)
           v == <<a, c>>
<1>1. w \in Seq(S) /\ Len(w) = 2 /\ w[1] = a /\ w[2] = c
  OBVIOUS
<1>2. v \in Seq(S) /\ Len(v) = 2 /\ v[1] = a /\ v[2] = c
  OBVIOUS
<1> HIDE DEF S, w, v
<1>3. Len(w) = Len(v) /\ \A i \in 1 .. Len(v) : w[i] = v[i]
  BY <1>1, <1>2
<1>4. w = v
  BY <1>1, <1>2, <1>3, SeqEqual
<1> QED BY <1>4 DEF w, v

LEMMA ThreeBare ==
  ASSUME NEW a, NEW b, NEW c
  PROVE  <<a>> \o <<b>> \o (<<c>> \o <<>>) = <<a, b, c>>
<1> DEFINE S == {a, b, c}
           w == <<a>> \o <<b>> \o (<<c>> \o <<>>)
           v == <<a, b, c>>
<1>1. w \in Seq(S) /\ Len(w) = 3 /\ w[1] = a /\ w[2] = b /\ w[3] = c
  OBVIOUS
<1>2. v \in Seq(S) /\ Len(v) = 3 /\ v[1] = a /\ v[2] = b /\ v[3] = c
  OBVIOUS
<1> HIDE DEF S, w, v
<1>3. Len(w) = Len(v) /\ \A i \in 1 .. Len(v) : w[i] = v[i]
  BY <1>1, <1>2
<1>4. w = v
  BY <1>1, <1>2, <1>3, SeqEqual
<1> QED BY <1>4 DEF w, v

LEMMA ThreeEnd ==
  ASSUME NEW a, NEW c, NEW d
  PROVE  <<a>> \o <<>> \o (<<c>> \o <<d>>) = <<a, c, d>>
<1> DEFINE S == {a, c, d}
           w == <<a>> \o <<>> \o (<<c>> \o <<d>>)
           v == <<a, c, d>>
<1>1. w \in Seq(S) /\ Len(w) = 3 /\ w[1] = a /\ w[2] = c /\ w[3] = d
  OBVIOUS
<1>2. v \in Seq(S) /\ Len(v) = 3 /\ v[1] = a /\ v[2] = c /\ v[3] = d
  OBVIOUS
<1> HIDE DEF S, w, v
<1>3. Len(w) = Len(v) /\ \A i \in 1 .. Len(v) : w[i] = v[i]
  BY <1>1, <1>2
<1>4. w = v
  BY <1>1, <1>2, <1>3, SeqEqual
<1> QED BY <1>4 DEF w, v

LEMMA Four ==
  ASSUME NEW a, NEW b, NEW c, NEW d
  PROVE  <<a>> \o <<b>> \o (<<c>> \o <<d>>) = <<a, b, c, d>>
<1> DEFINE S == {a, b, c, d}
           w == <<a>> \o <<b>> \o (<<c>> \o <<d>>)
           v == <<a, b, c, d>>
<1>1. w \in Seq(S) /\ Len(w) = 4 /\ w[1] = a /\ w[2] = b /\ w[3] = c /\ w[4] = d
  OBVIOUS
<1>2. v \in Seq(S) /\ Len(v) = 4 /\ v[1] = a /\ v[2] = b /\ v[3] = c /\ v[4] = d
  OBVIOUS
<1> HIDE DEF S, w, v
<1>3. Len(w) = Len(v) /\ \A i \in 1 .. Len(v) : w[i] = v[i]
  BY <1>1, <1>2
<1>4. w = v
  BY <1>1, <1>2, <1>3, SeqEqual
<1> QED BY <1>4 DEF w, v

LEMMA FewAre ==
  ASSUME NEW a, NEW b, NEW c, NEW d
  PROVE  /\ <<a, b>> \in Seq(ToSet(<<a, b>>)) /\ <<a, b, c>> \in Seq(ToSet(<<a, b, c>>))
         /\ <<a, b, c, d>> \in Seq(ToSet(<<a, b, c, d>>))
<1>1. /\ <<a, b>> \in Seq({a, b}) /\ <<a, b, c>> \in Seq({a, b, c}) /\ <<a, b, c, d>> \in Seq({a, b, c, d})
  OBVIOUS
<1>2. ToSet(<<a, b>>) = {a, b} /\ ToSet(<<a, b, c>>) = {a, b, c} /\ ToSet(<<a, b, c, d>>) = {a, b, c, d}
  <2>1. DOMAIN <<a, b>> = {1, 2} /\ DOMAIN <<a, b, c>> = {1, 2, 3} /\ DOMAIN <<a, b, c, d>> = {1, 2, 3, 4}
    OBVIOUS
  <2> QED BY <2>1 DEF ToSet
<1> QED BY <1>1, <1>2

LEMMA ConflictText ==
  ASSUME NEW clause, clause # None
  PROVE  ConflictTextIs(RenderConflictClause(clause), clause)
<1> DEFINE k == RenderConflictClause(clause)
           on == OnOf(clause)
           do == DoOf(clause)
           p == PredicateOf(clause)
           f == FilterOf(clause)
<1>1. (<<clause.target.predicate>> # <<>>)
  OBVIOUS
<1>2. k = <<on>> \o (IF HasPredicate(clause) THEN <<p>> ELSE <<>>)
            \o (IF clause.action = None THEN <<do>>
                ELSE <<do>> \o (IF HasFilter(clause) THEN <<f>> ELSE <<>>))
  <2>1. Where(IF clause.target.predicate = None THEN <<>> ELSE <<clause.target.predicate>>)
          = IF HasPredicate(clause) THEN <<p>> ELSE <<>>
    BY <1>1 DEF Where, HasPredicate, PredicateOf
  <2>2. clause.action # None =>
          Where(clause.action.wheres) = IF HasFilter(clause) THEN <<f>> ELSE <<>>
    BY DEF Where, HasFilter, FilterOf
  <2>3. CASE clause.action = None
    BY <2>1, <2>3 DEF RenderConflictClause, OnOf, DoOf, UpdateOf
  <2>4. CASE clause.action # None
    BY <2>1, <2>2, <2>4 DEF RenderConflictClause, OnOf, DoOf, UpdateOf
  <2> QED BY <2>3, <2>4
<1>3. HasFilter(clause) => clause.action # None
  BY DEF HasFilter
<1> HIDE DEF k, on, do, p, f
<1>4. CASE HasPredicate(clause) /\ HasFilter(clause)
  <2>1. k = <<on, p, do, f>>
    BY <1>2, <1>3, <1>4, Four
  <2>2. k \in Seq(ToSet(k))
    BY <2>1, FewAre
  <2>3. Len(k) = 4 /\ k[1] = on /\ k[2] = p /\ k[3] = do /\ k[4] = f
    BY <2>1
  <2>4. DoAt(clause) = 3 /\ Ending(clause) = 4 /\ DoAt(clause) + 1 = 4
    BY <1>4 DEF DoAt, Ending
  <2> QED BY <1>4, <2>2, <2>3, <2>4 DEF ConflictTextIs, k, on, do, p, f
<1>5. CASE HasPredicate(clause) /\ ~HasFilter(clause)
  <2>1. k = <<on, p, do>>
    BY <1>2, <1>5, Three, ThreeBare
  <2>2. k \in Seq(ToSet(k))
    BY <2>1, FewAre
  <2>3. Len(k) = 3 /\ k[1] = on /\ k[2] = p /\ k[3] = do
    BY <2>1
  <2>4. DoAt(clause) = 3 /\ Ending(clause) = 3
    BY <1>5 DEF DoAt, Ending
  <2> QED BY <1>5, <2>2, <2>3, <2>4 DEF ConflictTextIs, k, on, do, p, f
<1>6. CASE ~HasPredicate(clause) /\ HasFilter(clause)
  <2>1. k = <<on, do, f>>
    BY <1>2, <1>3, <1>6, ThreeEnd
  <2>2. k \in Seq(ToSet(k))
    BY <2>1, FewAre
  <2>3. Len(k) = 3 /\ k[1] = on /\ k[2] = do /\ k[3] = f
    BY <2>1
  <2>4. DoAt(clause) = 2 /\ Ending(clause) = 3 /\ DoAt(clause) + 1 = 3
    BY <1>6 DEF DoAt, Ending
  <2> QED BY <1>6, <2>2, <2>3, <2>4 DEF ConflictTextIs, k, on, do, p, f
<1>7. CASE ~HasPredicate(clause) /\ ~HasFilter(clause)
  <2>1. k = <<on, do>>
    BY <1>2, <1>7, Two, TwoBare
  <2>2. k \in Seq(ToSet(k))
    BY <2>1, FewAre
  <2>3. Len(k) = 2 /\ k[1] = on /\ k[2] = do
    BY <2>1
  <2>4. DoAt(clause) = 2 /\ Ending(clause) = 2
    BY <1>7 DEF DoAt, Ending
  <2> QED BY <1>7, <2>2, <2>3, <2>4 DEF ConflictTextIs, k, on, do, p, f
<1> QED BY <1>4, <1>5, <1>6, <1>7

\* The keywords of a conflict clause, where they are.
LEMMA ConflictPlaces ==
  ASSUME NEW clause, NEW k, ConflictTextIs(k, clause), NEW i \in 1 .. Len(k)
  PROVE  /\ k[i][1] = "ON CONFLICT" <=> i = 1
         /\ k[i][1] \in {"DO NOTHING", "DO UPDATE SET"} <=> i = DoAt(clause)
         /\ k[i][1] = "WHERE" <=> \/ HasPredicate(clause) /\ i = 2
                                  \/ HasFilter(clause) /\ i = DoAt(clause) + 1
         /\ k[i][1] \in {"ON CONFLICT", "WHERE", "DO NOTHING", "DO UPDATE SET"}
         /\ k[i][1] = "DO UPDATE SET" => clause.action # None /\ k[i] = UpdateOf(clause)
<1>1. /\ OnOf(clause)[1] = "ON CONFLICT" /\ PredicateOf(clause)[1] = "WHERE" /\ FilterOf(clause)[1] = "WHERE"
      /\ DoOf(clause)[1] \in {"DO NOTHING", "DO UPDATE SET"}
      /\ DoOf(clause)[1] = "DO UPDATE SET" =>
           clause.action # None /\ DoOf(clause) = UpdateOf(clause)
  BY DEF OnOf, PredicateOf, FilterOf, DoOf, UpdateOf
<1>2. /\ Len(k) = Ending(clause) /\ k[1] = OnOf(clause) /\ k[DoAt(clause)] = DoOf(clause)
      /\ HasPredicate(clause) => k[2] = PredicateOf(clause)
      /\ HasFilter(clause) => k[DoAt(clause) + 1] = FilterOf(clause)
  BY DEF ConflictTextIs
<1>3. \/ i = 1 \/ i = DoAt(clause) \/ (HasPredicate(clause) /\ i = 2)
      \/ (HasFilter(clause) /\ i = DoAt(clause) + 1)
  BY <1>2 DEF Ending, DoAt
<1>4. DoAt(clause) \in {2, 3} /\ (HasPredicate(clause) <=> DoAt(clause) = 3)
  BY DEF DoAt
<1>5. CASE i = 1
  BY <1>1, <1>2, <1>4, <1>5
<1>6. CASE i = DoAt(clause)
  BY <1>1, <1>2, <1>4, <1>6
<1>7. CASE HasPredicate(clause) /\ i = 2
  BY <1>1, <1>2, <1>4, <1>7
<1>8. CASE HasFilter(clause) /\ i = DoAt(clause) + 1
  BY <1>1, <1>2, <1>4, <1>8
<1> QED BY <1>3, <1>5, <1>6, <1>7, <1>8
-----------------------------------------------------------------------------
(***************************************************************************)
(* The text, as a server finds its clauses.                                *)
(***************************************************************************)
ConflictWords == {"ON CONFLICT", "WHERE", "DO NOTHING", "DO UPDATE SET"}
RowWords == {"COLUMNS", "ROW", EmptyRow, DefaultValues}
LEMMA Spelled ==
  /\ EmptyRow \notin ConflictWords \cup {"COLUMNS", "ROW", "RETURNING"}
  /\ DefaultValues \notin ConflictWords \cup {"COLUMNS", "ROW", "RETURNING"}
  /\ EmptyRow # DefaultValues
BY Zenon DEF EmptyRow, DefaultValues, ConflictWords

Keyworded(a, words) == \A i \in 1 .. Len(a) : a[i][1] \in words

\* The columns and the rows of an INSERT, found at the front of the whole.
RowsStand(w, h, cells) ==
  /\ Positions(w, "COLUMNS") = {1} /\ Positions(w, "ROW") = 2 .. (Len(cells) + 1)
  /\ Positions(w, EmptyRow) = {} /\ Positions(w, DefaultValues) = {}
  /\ w[1] = <<"COLUMNS", h>>
  /\ \A i \in 1 .. Len(cells) : w[i + 1] = <<"ROW", cells[i]>>
  /\ ReadRows(w) = [i \in 1 .. Len(cells) |-> ReadRow(h, cells[i])]

LEMMA RowPlaces ==
  ASSUME NEW T, NEW cells \in Seq(T), NEW h, NEW S, NEW base \in Seq(S), base = Lines(h, cells),
         NEW k \in Seq(S), Keyworded(k, ConflictWords), NEW back \in Seq(S), Keyworded(back, {"RETURNING"})
  PROVE  RowsStand(Whole(base, k, back), h, cells) /\ Keyworded(base, RowWords)
<1> DEFINE w == Whole(base, k, back)
           N == Len(cells)
           B == Len(base)
           K == Len(k)
           R == Len(back)
<1>1. N \in Nat /\ B \in Nat /\ K \in Nat /\ R \in Nat
  OBVIOUS
<1>2. B = N + 1 /\ base[1] = <<"COLUMNS", h>> /\ \A i \in 1 .. N : base[i + 1] = <<"ROW", cells[i]>>
  BY LinesAre
<1>3. \A i \in 1 .. B : base[i][1] = IF i = 1 THEN "COLUMNS" ELSE "ROW"
  <2> SUFFICES ASSUME NEW i \in 1 .. B, i # 1 PROVE base[i][1] = "ROW"
    BY <1>2
  <2>1. i - 1 \in 1 .. N /\ (i - 1) + 1 = i
    BY <1>1, <1>2
  <2>2. base[(i - 1) + 1] = <<"ROW", cells[i - 1]>>
    BY <1>2, <2>1
  <2> QED BY <2>1, <2>2
<1>4. /\ DOMAIN w = 1 .. (B + K + R)
      /\ \A i \in 1 .. B : w[i] = base[i]
  <2> HIDE DEF w, N, B, K, R
  <2>3. base \in Seq(S) /\ k \in Seq(S) /\ back \in Seq(S)
    OBVIOUS
  <2>1. DOMAIN w = 1 .. (B + K + R)
    BY ONLY <2>3, Parts DEF w, B, K, R
  <2>2. \A i \in 1 .. B : w[i] = base[i]
    BY ONLY <2>3, Parts DEF w, B
  <2> QED BY <2>1, <2>2
<1>5. ASSUME NEW word \in RowWords, NEW i \in 1 .. (B + K + R)
      PROVE  i \in Positions(w, word) <=> i \in 1 .. B /\ base[i][1] = word
  <2>0. word \notin ConflictWords \cup {"RETURNING"}
    BY Spelled DEF RowWords, ConflictWords
  <2>1. \A j \in 1 .. R : back[j][1] # word
    BY <2>0 DEF Keyworded
  <2>2. \A j \in 1 .. K : k[j][1] # word
    BY <2>0 DEF Keyworded
  <2>3. i \in Positions(w, word) <=>
          \/ i \in 1 .. B /\ base[i][1] = word
          \/ i - B \in 1 .. K /\ k[i - B][1] = word
    BY <2>1, Places
  <2> QED BY <2>2, <2>3
<1> HIDE DEF w, N, B, K, R
<1>6. \A word : Positions(w, word) \subseteq 1 .. (B + K + R)
  BY <1>4 DEF Positions
<1>7. {"COLUMNS", "ROW", EmptyRow, DefaultValues} \subseteq RowWords
  BY DEF RowWords
<1>8. Positions(w, "COLUMNS") = {1}
  <2>1. 1 \in 1 .. (B + K + R) /\ 1 \in 1 .. B
    BY <1>1, <1>2
  <2>2. \A i \in 1 .. (B + K + R) : i \in Positions(w, "COLUMNS") <=> i \in 1 .. B /\ base[i][1] = "COLUMNS"
    BY <1>5, <1>7
  <2>3. \A i \in 1 .. B : base[i][1] = "COLUMNS" <=> i = 1
    BY <1>3
  <2> QED BY <1>6, <2>1, <2>2, <2>3
<1>9. Positions(w, "ROW") = 2 .. (N + 1)
  <2>1. \A i \in 1 .. (B + K + R) : i \in Positions(w, "ROW") <=> i \in 1 .. B /\ i # 1
    BY <1>3, <1>5, <1>7
  <2>2. \A i \in 2 .. (N + 1) : i \in 1 .. (B + K + R) /\ i \in 1 .. B /\ i # 1
    BY <1>1, <1>2
  <2>3. \A i \in 1 .. B : i # 1 => i \in 2 .. (N + 1)
    BY <1>1, <1>2
  <2> QED BY <1>6, <2>1, <2>2, <2>3
<1>10. Positions(w, EmptyRow) = {} /\ Positions(w, DefaultValues) = {}
  <2>1. \A word \in {EmptyRow, DefaultValues} : \A i \in 1 .. B : base[i][1] # word
    BY <1>3, Spelled
  <2>2. {EmptyRow, DefaultValues} \subseteq RowWords
    BY <1>7
  <2> QED BY <1>5, <1>6, <2>1, <2>2
<1>11. w[1] = <<"COLUMNS", h>> /\ \A i \in 1 .. N : w[i + 1] = <<"ROW", cells[i]>>
  <2>1. 1 \in 1 .. B /\ \A i \in 1 .. N : i + 1 \in 1 .. B
    BY <1>1, <1>2
  <2> QED BY <1>2, <1>4, <2>1
<1>12. ReadRows(w) = [i \in 1 .. N |-> ReadRow(h, cells[i])]
  <2>1. Cardinality(2 .. (N + 1)) = N
    BY <1>1, FS_Interval
  <2>2. Has(w, "COLUMNS")
    BY <1>8 DEF Has
  <2>3. ReadRows(w) = [i \in 1 .. N |-> ReadRow(w[1][2], w[i + 1][2])]
    BY <1>9, <2>1, <2>2 DEF ReadRows
  <2>4. w[1][2] = h /\ \A i \in 1 .. N : w[i + 1][2] = cells[i]
    BY <1>11
  <2> QED BY <2>3, <2>4
<1>13. Keyworded(base, RowWords)
  BY <1>3, <1>7 DEF Keyworded, B
<1>14. RowsStand(w, h, cells)
  BY <1>8, <1>9, <1>10, <1>11, <1>12 DEF RowsStand, N
<1> QED BY <1>13, <1>14 DEF w

\* The row of a table with nothing to name, spelled by itself.
Bare(word) == <<<<word, <<>>>>>>
LEMMA BareIs ==
  ASSUME NEW word
  PROVE  /\ Bare(word) \in Seq(ToSet(Bare(word))) /\ Len(Bare(word)) = 1 /\ Bare(word)[1][1] = word
<1> DEFINE c == <<word, <<>>>>
<1>1. c[1] = word
  OBVIOUS
<1> HIDE DEF c
<1>2. Len(<<c>>) = 1 /\ <<c>>[1] = c /\ <<c>> \in Seq({c}) /\ DOMAIN <<c>> = {1}
  OBVIOUS
<1>3. ToSet(<<c>>) = {c}
  BY <1>2 DEF ToSet
<1>4. Bare(word) = <<c>>
  BY DEF Bare, c
<1> QED BY <1>1, <1>2, <1>3, <1>4

BareStands(w, word) ==
  /\ Positions(w, "COLUMNS") = {} /\ Positions(w, "ROW") = {}
  /\ Positions(w, EmptyRow) # {} => word = EmptyRow
  /\ Positions(w, DefaultValues) # {} => word = DefaultValues
  /\ ReadRows(w) = <<ReadRow(<<>>, <<>>)>>

LEMMA BarePlaces ==
  ASSUME NEW word \in {EmptyRow, DefaultValues}, NEW S, NEW base \in Seq(S),
         base = Bare(word),
         NEW k \in Seq(S), Keyworded(k, ConflictWords), NEW back \in Seq(S), Keyworded(back, {"RETURNING"})
  PROVE  BareStands(Whole(base, k, back), word) /\ Keyworded(base, RowWords)
<1> DEFINE w == Whole(base, k, back)
           K == Len(k)
           R == Len(back)
<1>1. Len(base) = 1 /\ base[1][1] = word /\ K \in Nat /\ R \in Nat
  BY BareIs
<1>2. DOMAIN w = 1 .. (Len(base) + K + R)
  <2> HIDE DEF w, K, R
  <2>1. base \in Seq(S) /\ k \in Seq(S) /\ back \in Seq(S)
    OBVIOUS
  <2> QED BY ONLY <2>1, Parts DEF w, K, R
<1> HIDE DEF w
<1>3. ASSUME NEW other \in RowWords, NEW i \in Positions(w, other) PROVE other = word
  <2>0. other \notin ConflictWords \cup {"RETURNING"}
    BY Spelled DEF RowWords, ConflictWords
  <2>1. \A j \in 1 .. R : back[j][1] # other
    BY <2>0 DEF Keyworded
  <2>2. \A j \in 1 .. K : k[j][1] # other
    BY <2>0 DEF Keyworded
  <2>3. i \in 1 .. (Len(base) + K + R)
    BY <1>2 DEF Positions
  <2>4. \/ i \in 1 .. Len(base) /\ base[i][1] = other
        \/ i - Len(base) \in 1 .. K /\ k[i - Len(base)][1] = other
    BY <2>1, <2>3, Places DEF w
  <2>5. i \in 1 .. 1 /\ base[i][1] = other
    BY <1>1, <2>2, <2>4
  <2>6. i = 1
    BY <2>5
  <2> QED BY <1>1, <2>5, <2>6
<1>4. {"COLUMNS", "ROW", EmptyRow, DefaultValues} \subseteq RowWords
  BY DEF RowWords
<1>5. Positions(w, "COLUMNS") = {} /\ Positions(w, "ROW") = {}
  BY <1>3, <1>4, Spelled
<1>6. ReadRows(w) = <<ReadRow(<<>>, <<>>)>>
  BY <1>5 DEF ReadRows, Has
<1>7. Keyworded(base, RowWords)
  <2>1. \A i \in 1 .. Len(base) : i = 1
    BY <1>1
  <2>2. word \in RowWords
    BY DEF RowWords
  <2> QED BY <1>1, <2>1, <2>2 DEF Keyworded
<1>8. BareStands(w, word)
  BY <1>3, <1>4, <1>5, <1>6 DEF BareStands
<1> QED BY <1>7, <1>8 DEF w

\* The conflict clause, found after the rows and before what is returned.
LEMMA ConflictFound ==
  ASSUME NEW S, NEW base \in Seq(S), Keyworded(base, RowWords),
         NEW k \in Seq(S), NEW back \in Seq(S), Keyworded(back, {"RETURNING"}),
         NEW word \in ConflictWords
  PROVE  Positions(Whole(base, k, back), word) =
           {i \in (Len(base) + 1) .. (Len(base) + Len(k)) : k[i - Len(base)][1] = word}
<1> DEFINE w == Whole(base, k, back)
           B == Len(base)
           K == Len(k)
           R == Len(back)
<1>1. base \in Seq(S) /\ k \in Seq(S) /\ back \in Seq(S)
  OBVIOUS
<1>2. B \in Nat /\ K \in Nat /\ R \in Nat
  OBVIOUS
<1>3. word \notin RowWords /\ word # "RETURNING"
  BY Spelled DEF ConflictWords, RowWords
<1>4. \A j \in 1 .. R : back[j][1] # word
  BY <1>3 DEF Keyworded
<1>5. \A j \in 1 .. B : base[j][1] # word
  BY <1>3 DEF Keyworded
<1> HIDE DEF w, B, K, R
<1>6. DOMAIN w = 1 .. (B + K + R)
  BY ONLY <1>1, Parts DEF w, B, K, R
<1>7. \A i \in 1 .. (B + K + R) : i \in Positions(w, word) <=>
        \/ i \in 1 .. B /\ base[i][1] = word
        \/ i - B \in 1 .. K /\ k[i - B][1] = word
  BY ONLY <1>1, <1>4, Places DEF w, B, K, R
<1>8. Positions(w, word) \subseteq 1 .. (B + K + R)
  BY <1>6 DEF Positions
<1>9. \A i \in 1 .. (B + K + R) : i - B \in 1 .. K <=> i \in (B + 1) .. (B + K)
  BY <1>2
<1>10. \A i \in (B + 1) .. (B + K) : i \in 1 .. (B + K + R)
  BY <1>2
<1>11. Positions(w, word) = {i \in (B + 1) .. (B + K) : k[i - B][1] = word}
  BY <1>5, <1>7, <1>8, <1>9, <1>10
<1> QED BY <1>11 DEF w, B, K

LEMMA NoneFound ==
  ASSUME NEW S, NEW base \in Seq(S), Keyworded(base, RowWords),
         NEW back \in Seq(S), Keyworded(back, {"RETURNING"}),
         NEW word \in ConflictWords
  PROVE  Positions(Whole(base, <<>>, back), word) = {}
<1> DEFINE k == <<>>
<1>1. k \in Seq(S) /\ Len(k) = 0
  OBVIOUS
<1> HIDE DEF k
<1>2. Positions(Whole(base, k, back), word) = {i \in (Len(base) + 1) .. (Len(base) + Len(k)) : k[i - Len(base)][1] = word}
  <2>1. k \in Seq(S) /\ base \in Seq(S) /\ back \in Seq(S)
    BY <1>1
  <2>2. Keyworded(base, RowWords) /\ Keyworded(back, {"RETURNING"}) /\ word \in ConflictWords
    OBVIOUS
  <2> QED BY ONLY <2>1, <2>2, ConflictFound
<1>3. (Len(base) + 1) .. (Len(base) + Len(k)) = {}
  BY <1>1
<1> QED BY <1>2, <1>3 DEF k

\* The places of a conflict clause's parts in the whole, after n others.
ConflictStands(w, n, k, clause) ==
  /\ Positions(w, "ON CONFLICT") = {n + 1}
  /\ Positions(w, "DO NOTHING") \cup Positions(w, "DO UPDATE SET") = {n + DoAt(clause)}
  /\ \A i : i \in Positions(w, "WHERE") <=> \/ HasPredicate(clause) /\ i = n + 2
                                            \/ HasFilter(clause) /\ i = n + DoAt(clause) + 1
  /\ \A i \in 1 .. Len(k) : w[n + i] = k[i]
  /\ \A i \in Positions(w, "DO UPDATE SET") : clause.action # None /\ w[i] = UpdateOf(clause)
  /\ n + Len(k) <= Len(w) /\ Len(w) \in Nat

LEMMA ConflictAt ==
  ASSUME NEW S, NEW base \in Seq(S), Keyworded(base, RowWords),
         NEW clause, NEW k \in Seq(S), ConflictTextIs(k, clause),
         NEW back \in Seq(S), Keyworded(back, {"RETURNING"})
  PROVE  ConflictStands(Whole(base, k, back), Len(base), k, clause)
<1> DEFINE w == Whole(base, k, back)
           n == Len(base)
           K == Len(k)
           D == DoAt(clause)
<1>1. base \in Seq(S) /\ k \in Seq(S) /\ back \in Seq(S)
  OBVIOUS
<1>2. n \in Nat /\ Len(back) \in Nat
  OBVIOUS
<1>3. /\ D \in {2, 3} /\ K \in {D, D + 1} /\ (HasPredicate(clause) <=> D = 3)
      /\ (HasFilter(clause) <=> K = D + 1)
  BY DEF ConflictTextIs, Ending, DoAt
<1>4. \A i \in 1 .. K :
        /\ k[i][1] = "ON CONFLICT" <=> i = 1
        /\ k[i][1] \in {"DO NOTHING", "DO UPDATE SET"} <=> i = D
        /\ k[i][1] = "WHERE" <=> \/ HasPredicate(clause) /\ i = 2
                                 \/ HasFilter(clause) /\ i = D + 1
        /\ k[i][1] = "DO UPDATE SET" => clause.action # None /\ k[i] = UpdateOf(clause)
  <2> HIDE DEF w, n, K, D
  <2> SUFFICES ASSUME NEW i \in 1 .. Len(k)
               PROVE  /\ k[i][1] = "ON CONFLICT" <=> i = 1
                      /\ k[i][1] \in {"DO NOTHING", "DO UPDATE SET"} <=> i = DoAt(clause)
                      /\ k[i][1] = "WHERE" <=> \/ HasPredicate(clause) /\ i = 2
                                               \/ HasFilter(clause) /\ i = DoAt(clause) + 1
                      /\ k[i][1] = "DO UPDATE SET" =>
                           clause.action # None /\ k[i] = UpdateOf(clause)
    BY DEF K, D
  <2>1. ConflictTextIs(k, clause) /\ i \in 1 .. Len(k)
    OBVIOUS
  <2>2. k[i][1] = "ON CONFLICT" <=> i = 1
    BY ONLY <2>1, ConflictPlaces
  <2>3. k[i][1] \in {"DO NOTHING", "DO UPDATE SET"} <=> i = DoAt(clause)
    BY ONLY <2>1, ConflictPlaces
  <2>4. k[i][1] = "WHERE" <=> \/ HasPredicate(clause) /\ i = 2
                              \/ HasFilter(clause) /\ i = DoAt(clause) + 1
    BY ONLY <2>1, ConflictPlaces
  <2>5. ASSUME k[i][1] = "DO UPDATE SET"
        PROVE  clause.action # None /\ k[i] = UpdateOf(clause)
    <3>1. k[i] = DoOf(clause)
      BY <2>1, <2>3, <2>5 DEF ConflictTextIs
    <3>2. DoOf(clause)[1] = "DO UPDATE SET" => clause.action # None /\ DoOf(clause) = UpdateOf(clause)
      BY DEF DoOf, UpdateOf
    <3> QED BY <2>5, <3>1, <3>2
  <2> QED BY <2>2, <2>3, <2>4, <2>5
<1> HIDE DEF w, n, K, D
<1>5. \A word \in ConflictWords : Positions(w, word) = {i \in (n + 1) .. (n + K) : k[i - n][1] = word}
  BY ConflictFound DEF w, n, K
<1>6. \A i \in 1 .. K : w[n + i] = k[i]
  <2>1. \A i \in 1 .. Len(k) : Whole(base, k, back)[Len(base) + i] = k[i]
    BY ONLY <1>1, Parts
  <2> QED BY ONLY <2>1 DEF w, n, K
<1>7. Len(w) = n + K + Len(back)
  BY ONLY <1>1, Parts DEF w, n, K
<1>8. {"ON CONFLICT", "WHERE", "DO NOTHING", "DO UPDATE SET"} \subseteq ConflictWords
  BY DEF ConflictWords
<1>9. \A i \in (n + 1) .. (n + K) : i - n \in 1 .. K /\ n + (i - n) = i /\ \A j \in {1, 2, D, D + 1} : i - n = j <=> i = n + j
  BY <1>2, <1>3
<1>10. n + 1 \in (n + 1) .. (n + K) /\ n + D \in (n + 1) .. (n + K)
  BY <1>2, <1>3
<1>11. D = 3 => n + 2 \in (n + 1) .. (n + K)
  BY <1>2, <1>3
<1>12. K = D + 1 => n + D + 1 \in (n + 1) .. (n + K) /\ n + D + 1 = n + (D + 1)
  BY <1>2, <1>3
<1>13. Positions(w, "ON CONFLICT") = {n + 1}
  <2>1. Positions(w, "ON CONFLICT") = {i \in (n + 1) .. (n + K) : k[i - n][1] = "ON CONFLICT"}
    BY <1>5, <1>8
  <2>2. \A i \in (n + 1) .. (n + K) : k[i - n][1] = "ON CONFLICT" <=> i = n + 1
    BY <1>4, <1>9
  <2> QED BY <1>10, <2>1, <2>2
<1>14. Positions(w, "DO NOTHING") \cup Positions(w, "DO UPDATE SET") = {n + D}
  <2>1. Positions(w, "DO NOTHING") \cup Positions(w, "DO UPDATE SET") =
          {i \in (n + 1) .. (n + K) : k[i - n][1] \in {"DO NOTHING", "DO UPDATE SET"}}
    BY <1>5, <1>8
  <2> QED BY ZenonT(60), <1>4, <1>9, <1>10, <2>1
<1>15. ASSUME NEW i
       PROVE  i \in Positions(w, "WHERE") <=> \/ HasPredicate(clause) /\ i = n + 2
                                              \/ HasFilter(clause) /\ i = n + D + 1
  <2>1. i \in Positions(w, "WHERE") <=> i \in (n + 1) .. (n + K) /\ k[i - n][1] = "WHERE"
    BY <1>5, <1>8
  <2>2. CASE i \in (n + 1) .. (n + K)
    BY ZenonT(60), <1>3, <1>4, <1>9, <1>12, <2>1, <2>2
  <2>3. CASE i \notin (n + 1) .. (n + K)
    BY <1>3, <1>11, <1>12, <2>1, <2>3
  <2> QED BY <2>2, <2>3
<1>16. \A i \in Positions(w, "DO UPDATE SET") :
         clause.action # None /\ w[i] = UpdateOf(clause)
  <2> TAKE i \in Positions(w, "DO UPDATE SET")
  <2>1. i \in (n + 1) .. (n + K) /\ k[i - n][1] = "DO UPDATE SET"
    BY <1>5, <1>8
  <2>2. i - n \in 1 .. K /\ n + (i - n) = i
    BY <1>9, <2>1
  <2>3. w[n + (i - n)] = k[i - n]
    BY <1>6, <2>2
  <2> QED BY <1>4, <2>1, <2>2, <2>3
<1>17. n + K <= Len(w) /\ Len(w) \in Nat
  BY <1>2, <1>3, <1>7
<1>18. ConflictStands(w, n, k, clause)
  BY <1>6, <1>13, <1>14, <1>15, <1>16, <1>17 DEF ConflictStands, K, D
<1> QED BY <1>18 DEF w, n
-----------------------------------------------------------------------------
(***************************************************************************)
(* What the server makes of the conflict clause.                           *)
(***************************************************************************)
LEMMA MaxOfOne == ASSUME NEW i \in Nat PROVE Max({i}) = i
BY DEF Max

\* A SET list, as what it gives each column.
SetsRead(list) ==
  [n \in {list[i].column : i \in DOMAIN list} |-> (CHOOSE s \in ToSet(list) : s.column = n).value]
SetsOf(clause) == IF clause.action = None THEN <<>> ELSE SetsRead(clause.action.sets)
FilteredBy(clause) == IF clause.action = None THEN {} ELSE ToSet(clause.action.wheres)
ConflictOf(clause) ==
  [columns |-> clause.target.columns, predicate |-> {clause.target.predicate} \ {None},
   sets |-> SetsOf(clause), wheres |-> FilteredBy(clause)]

\* The clause read, its ON CONFLICT and what it does at two places.
ReadAt(text, on, do) ==
  [columns |-> text[on][2], predicate |-> WhereBetween(text, on, do),
   sets |-> SetsRead(text[do][2]), wheres |-> WhereBetween(text, do, Len(text) + 1)]

LEMMA NothingSet == SetsRead(<<>>) = <<>>
<1> DEFINE f == SetsRead(<<>>)
           none == <<>>
<1>1. none = [i \in {} |-> none[i]] /\ DOMAIN none = {}
  OBVIOUS
<1>2. {none[i].column : i \in DOMAIN none} = {}
  BY <1>1
<1> HIDE DEF none
<1>3. f = [n \in {none[i].column : i \in DOMAIN none} |-> (CHOOSE s \in ToSet(none) : s.column = n).value]
  BY DEF SetsRead, none
<1>4. DOMAIN f = {} /\ f = [n \in DOMAIN f |-> f[n]]
  BY <1>2, <1>3
<1> HIDE DEF f
<1>5. f = none
  BY <1>1, <1>4
<1> QED BY <1>5 DEF f, none

LEMMA ConflictRead ==
  ASSUME NEW S, NEW base \in Seq(S), Keyworded(base, RowWords),
         NEW clause, NEW k \in Seq(S), ConflictTextIs(k, clause),
         NEW back \in Seq(S), Keyworded(back, {"RETURNING"})
  PROVE  ReadConflict(Whole(base, k, back)) = ConflictOf(clause)
<1> DEFINE w == Whole(base, k, back)
           n == Len(base)
           D == DoAt(clause)
<1>0. ConflictStands(w, n, k, clause)
  BY ConflictAt
<1>2. n \in Nat /\ D \in {2, 3} /\ (HasPredicate(clause) <=> D = 3)
  BY DEF DoAt
<1>3. /\ Len(k) = Ending(clause) /\ k[1] = OnOf(clause) /\ k[D] = DoOf(clause)
      /\ HasPredicate(clause) => k[2] = PredicateOf(clause)
      /\ HasFilter(clause) => k[D + 1] = FilterOf(clause) /\ Len(k) = D + 1
  BY DEF ConflictTextIs, Ending
<1>4. Len(k) \in {D, D + 1}
  BY DEF ConflictTextIs, Ending
<1> HIDE DEF w, n, D
<1>1. /\ \A i : i \in Positions(w, "WHERE") <=> \/ HasPredicate(clause) /\ i = n + 2
                                                \/ HasFilter(clause) /\ i = n + D + 1
      /\ \A i \in 1 .. Len(k) : w[n + i] = k[i]
      /\ n + Len(k) <= Len(w) /\ Len(w) \in Nat
  BY <1>0 DEF ConflictStands, D
<1>5. Positions(w, "ON CONFLICT") = {n + 1} /\ Max(Positions(w, "ON CONFLICT")) = n + 1
  <2>1. Positions(w, "ON CONFLICT") = {n + 1}
    BY <1>0 DEF ConflictStands
  <2>2. n + 1 \in Nat
    BY <1>2
  <2> QED BY <2>1, <2>2, MaxOfOne
<1>6. Max(Positions(w, "DO NOTHING") \cup Positions(w, "DO UPDATE SET")) = n + D
  <2>1. Positions(w, "DO NOTHING") \cup Positions(w, "DO UPDATE SET") = {n + D}
    BY <1>0 DEF ConflictStands, D
  <2>2. n + D \in Nat
    BY <1>2
  <2> QED BY <2>1, <2>2, MaxOfOne
<1>7. w[n + 1] = OnOf(clause) /\ w[n + D] = DoOf(clause)
  <2>1. 1 \in 1 .. Len(k) /\ D \in 1 .. Len(k)
    BY <1>2, <1>4
  <2> QED BY <1>1, <1>3, <2>1
<1>8. WhereBetween(w, n + 1, n + D) = {clause.target.predicate} \ {None}
  <2> DEFINE J == {j \in Positions(w, "WHERE") : n + 1 < j /\ j < n + D}
  <2>1. CASE HasPredicate(clause)
    <3>1. J = {n + 2}
      BY <1>1, <1>2, <2>1
    <3>2. w[n + 2] = PredicateOf(clause)
      <4>1. 2 \in 1 .. Len(k)
        BY <1>2, <1>4
      <4> QED BY <1>1, <1>3, <2>1, <4>1
    <3>3. ToSet(w[n + 2][2]) = {clause.target.predicate}
      <4>1. PredicateOf(clause)[2] = <<clause.target.predicate>>
        BY DEF PredicateOf
      <4>2. ToSet(<<clause.target.predicate>>) = {clause.target.predicate}
        BY DEF ToSet
      <4> QED BY <3>2, <4>1, <4>2
    <3>4. UNION {ToSet(w[i][2]) : i \in J} = {clause.target.predicate}
      BY <3>1, <3>3
    <3> QED BY <2>1, <3>4 DEF WhereBetween, HasPredicate
  <2>2. CASE ~HasPredicate(clause)
    <3>1. J = {}
      BY <1>1, <1>2, <2>2
    <3>2. UNION {ToSet(w[i][2]) : i \in J} = {}
      BY <3>1
    <3> QED BY <2>2, <3>2 DEF WhereBetween, HasPredicate
  <2> QED BY <2>1, <2>2
<1>9. WhereBetween(w, n + D, Len(w) + 1) = FilteredBy(clause)
  <2> DEFINE J == {j \in Positions(w, "WHERE") : n + D < j /\ j < Len(w) + 1}
  <2>1. CASE HasFilter(clause)
    <3>1. J = {n + D + 1}
      BY <1>1, <1>2, <1>3, <2>1
    <3>2. w[n + D + 1] = FilterOf(clause)
      <4>1. D + 1 \in 1 .. Len(k) /\ n + (D + 1) = n + D + 1
        BY <1>2, <1>3, <2>1
      <4> QED BY <1>1, <1>3, <2>1, <4>1
    <3>3. w[n + D + 1][2] = clause.action.wheres
      BY <3>2 DEF FilterOf
    <3>4. UNION {ToSet(w[i][2]) : i \in J} = ToSet(clause.action.wheres)
      BY <3>1, <3>3
    <3> QED BY <2>1, <3>4 DEF WhereBetween, HasFilter, FilteredBy
  <2>2. CASE ~HasFilter(clause)
    <3>1. J = {}
      BY <1>1, <1>2, <2>2
    <3>2. UNION {ToSet(w[i][2]) : i \in J} = {}
      BY <3>1
    <3>3. clause.action # None => clause.action.wheres = <<>>
      BY <2>2 DEF HasFilter
    <3>4. ToSet(<<>>) = {}
      BY DEF ToSet
    <3>5. FilteredBy(clause) = {}
      BY <3>3, <3>4 DEF FilteredBy
    <3> QED BY <3>2, <3>5 DEF WhereBetween
  <2> QED BY <2>1, <2>2
<1>10. w[n + 1][2] = clause.target.columns
  <2>1. OnOf(clause)[2] = clause.target.columns
    BY DEF OnOf
  <2> QED BY <1>7, <2>1
<1>11. SetsRead(w[n + D][2]) = SetsOf(clause)
  <2>1. DoOf(clause)[2] = IF clause.action = None THEN <<>> ELSE clause.action.sets
    BY DEF DoOf, UpdateOf
  <2> QED BY <1>7, <2>1, NothingSet DEF SetsOf
<1>12. Has(w, "ON CONFLICT")
  BY <1>5 DEF Has
<1>13. ReadConflict(w) =
         ReadAt(w, Max(Positions(w, "ON CONFLICT")),
                Max(Positions(w, "DO NOTHING") \cup Positions(w, "DO UPDATE SET")))
  BY <1>12 DEF ReadConflict, ReadAt, SetsRead
<1>14. ReadConflict(w) = ReadAt(w, n + 1, n + D)
  BY <1>5, <1>6, <1>13
<1> QED BY <1>8, <1>9, <1>10, <1>11, <1>14 DEF ReadAt, ConflictOf, w

\* A SET list that matches what was said gives each column that.
LEMMA SetsAreRead ==
  ASSUME NEW t, NEW list \in SetList(t), NEW words \in Assigned(t), Matches(list, words)
  PROVE  SetsRead(list) = words
<1>1. PICK names \in SUBSET AssignableTo(t) : words \in [names -> Expressions]
  BY DEF Assigned
<1>2. DOMAIN words = names /\ words = [n \in names |-> words[n]]
  BY <1>1
<1>3. ToSet(list) = {Set(n, words[n]) : n \in names}
  BY <1>2 DEF Matches
<1>4. {list[i].column : i \in DOMAIN list} = names
  <2>1. {list[i].column : i \in DOMAIN list} = {s.column : s \in ToSet(list)}
    BY DEF ToSet
  <2>2. \A n \in names : Set(n, words[n]).column = n
    BY DEF Set
  <2>3. {s.column : s \in ToSet(list)} \subseteq names
    BY <1>3, <2>2
  <2>4. \A n \in names : \E s \in ToSet(list) : s.column = n
    BY <1>3, <2>2
  <2> QED BY <2>1, <2>3, <2>4
<1>5. ASSUME NEW n \in names
      PROVE  (CHOOSE s \in ToSet(list) : s.column = n).value = words[n]
  <2>1. \A m \in names : Set(m, words[m]).column = m /\ Set(m, words[m]).value = words[m]
    BY DEF Set
  <2>2. \A s \in ToSet(list) : s.column = n <=> s = Set(n, words[n])
    BY <1>3, <2>1
  <2>3. Set(n, words[n]) \in ToSet(list)
    BY <1>3
  <2> QED BY <2>1, <2>2, <2>3
<1> QED BY <1>2, <1>4, <1>5 DEF SetsRead
-----------------------------------------------------------------------------
(***************************************************************************)
(* What the server makes of a row.                                         *)
(***************************************************************************)
\* A generated column takes its fallback, any other the cell in its place.
LEMMA ReadCell ==
  ASSUME columns \in Tables, NEW n \in ToSet(Names(columns)), NEW cells, NEW c, c = Named(columns, n)
  PROVE  /\ c \in ToSet(columns) /\ c.name = n
         /\ c.generated => ReadRow(Header, cells)[n] = Fallback(c)
         /\ ~c.generated => /\ n \in NamesOf(columns)
                            /\ \E i \in DOMAIN Header :
                                 /\ Header[i] = n
                                 /\ ReadRow(Header, cells)[n] =
                                      IF cells[i] = Default THEN Fallback(c) ELSE cells[i]
<1> DEFINE at == {i \in DOMAIN Header : Header[i] = n}
           cell == IF at = {} THEN Default ELSE cells[Max(at)]
<1>1. c \in ToSet(columns) /\ c.name = n
  BY NamesAre, NamedIs
<1>2. ReadRow(Header, cells)[n] = IF cell = Default THEN Fallback(c) ELSE cell
  BY DEF ReadRow
<1>3. Header = HeaderOf(columns)
  BY DEF Header, HeaderOf
<1>4. /\ DOMAIN Header = 1 .. Len(Header) /\ Len(Header) \in Nat
      /\ \A i, j \in DOMAIN Header : Header[i] = Header[j] => i = j
      /\ \A i \in DOMAIN Header : Header[i] \in NamesOf(columns)
      /\ NamesOf(columns) = {d.name : d \in {e \in ToSet(columns) : ~e.generated}}
  BY <1>3, HeaderIs
<1>5. ASSUME c.generated PROVE ReadRow(Header, cells)[n] = Fallback(c)
  <2>1. n \notin NamesOf(columns)
    BY <1>5, NameIs
  <2>2. at = {}
    BY <1>4, <2>1
  <2> QED BY <1>2, <2>2
<1>6. ASSUME ~c.generated
      PROVE  /\ n \in NamesOf(columns)
             /\ \E i \in DOMAIN Header :
                  /\ Header[i] = n
                  /\ ReadRow(Header, cells)[n] = IF cells[i] = Default THEN Fallback(c) ELSE cells[i]
  <2>1. n \in NamesOf(columns)
    BY <1>1, <1>4, <1>6
  <2>2. PICK i \in DOMAIN Header : Header[i] = n
    BY <1>3, <2>1 DEF NamesOf, ToSet
  <2>3. at = {i}
    BY <1>4, <2>2
  <2>4. Max(at) = i
    <3>1. i \in Nat
      BY <1>4
    <3> QED BY <2>3, <3>1, MaxOfOne
  <2>5. cell = cells[i]
    BY <2>3, <2>4
  <2> QED BY <1>2, <2>1, <2>2, <2>5
<1> QED BY <1>1, <1>5, <1>6

\* A row built is read as the setters said it.
LEMMA RowRead ==
  ASSUME columns \in Tables, NEW s \in Complete(columns)
  PROVE  ReadRow(Header, CellsOf(columns, s)) = MeantRow(s)
<1> DEFINE row == ReadRow(Header, CellsOf(columns, s))
<1>1. ASSUME NEW n \in ToSet(Names(columns))
      PROVE  row[n] = IF Named(columns, n).generated \/ s[n] \in {Unsaid, None}
                      THEN Fallback(Named(columns, n)) ELSE s[n]
  <2> DEFINE c == Named(columns, n)
  <2>1. /\ c \in ToSet(columns)
        /\ c.generated => row[n] = Fallback(c)
        /\ ~c.generated => /\ n \in NamesOf(columns)
                           /\ \E i \in DOMAIN Header :
                                /\ Header[i] = n
                                /\ row[n] = IF CellsOf(columns, s)[i] = Default THEN Fallback(c)
                                            ELSE CellsOf(columns, s)[i]
    BY ReadCell
  <2> HIDE DEF c, row
  <2>2. CASE c.generated
    BY <2>1, <2>2 DEF c
  <2>3. CASE ~c.generated
    <3>1. PICK i \in DOMAIN Header :
            /\ Header[i] = n
            /\ row[n] = IF CellsOf(columns, s)[i] = Default THEN Fallback(c) ELSE CellsOf(columns, s)[i]
      BY <2>1, <2>3
    <3>2. n \in NamesOf(columns)
      BY <2>1, <2>3
    <3>3. CellsOf(columns, s)[i] = Fields(columns, s)[n]
      BY <3>1 DEF CellsOf, HeaderOf, Header
    <3>4. Fields(columns, s)[n] = Denoted(c, s[n])
      BY <3>2 DEF Fields, c
    <3>5. s[n] \in SaidOf(c) /\ Denoted(c, s[n]) # Missing
      BY <3>2, <3>4 DEF Complete, Words, c
    <3>6. (IF Denoted(c, s[n]) = Default THEN Fallback(c) ELSE Denoted(c, s[n]))
            = (IF s[n] \in {Unsaid, None} THEN Fallback(c) ELSE s[n])
      BY <2>1, <2>3, <3>5, CellMade
    <3> QED BY <2>3, <3>1, <3>3, <3>4, <3>6 DEF c
  <2> QED BY <2>2, <2>3
<1>2. row = [n \in ToSet(Names(columns)) |-> row[n]]
  BY DEF ReadRow
<1> HIDE DEF row
<1>3. row = MeantRow(s)
  BY <1>1, <1>2 DEF MeantRow
<1> QED BY <1>3 DEF row

\* What a query gives a row: each column the one of its name.
LEMMA QueryRowRead ==
  ASSUME columns \in Tables, NEW n \in ToSet(Names(columns))
  PROVE  ReadRow(Header, Header)[n] = IF Named(columns, n).generated THEN "generated" ELSE n
<1> DEFINE c == Named(columns, n)
<1>1. /\ c.generated => ReadRow(Header, Header)[n] = Fallback(c)
      /\ ~c.generated => /\ n \in NamesOf(columns)
                         /\ \E i \in DOMAIN Header :
                              /\ Header[i] = n
                              /\ ReadRow(Header, Header)[n] =
                                   IF Header[i] = Default THEN Fallback(c) ELSE Header[i]
  BY ReadCell
<1> HIDE DEF c
<1>2. n \in NamesOf(columns) => n # Default
  BY NameIs
<1>3. c.generated => Fallback(c) = "generated"
  BY DEF Fallback
<1> QED BY <1>1, <1>2, <1>3 DEF c
-----------------------------------------------------------------------------
(***************************************************************************)
(* The statement as the server reads it.                                   *)
(***************************************************************************)
BaseOf(h, cells) == IF h = <<>> THEN Bare(InsertNoColumns) ELSE Lines(h, cells)
Back == IF returning = None THEN <<>> ELSE <<<<"RETURNING", returning>>>>
Over(a, b, c) == ToSet(a) \cup ToSet(b) \cup ToSet(c)

LEMMA BackIs == Back \in Seq(ToSet(Back)) /\ Keyworded(Back, {"RETURNING"})
<1> DEFINE r == <<"RETURNING", returning>>
<1>1. r[1] = "RETURNING"
  OBVIOUS
<1> HIDE DEF r
<1>2. /\ <<r>> \in Seq({r}) /\ Len(<<r>>) = 1 /\ <<r>>[1] = r /\ DOMAIN <<r>> = {1}
      /\ \A i \in 1 .. 1 : i = 1
  OBVIOUS
<1>3. ToSet(<<r>>) = {r}
  BY <1>2 DEF ToSet
<1>4. <<>> \in Seq(ToSet(<<>>)) /\ Keyworded(<<>>, {"RETURNING"})
  BY DEF Keyworded
<1>5. Keyworded(<<r>>, {"RETURNING"})
  BY <1>1, <1>2 DEF Keyworded
<1> QED BY <1>2, <1>3, <1>4, <1>5 DEF Back, r

LEMMA OverEach ==
  ASSUME NEW a, NEW b, NEW c, a \in Seq(ToSet(a)), b \in Seq(ToSet(b)), c \in Seq(ToSet(c))
  PROVE  a \in Seq(Over(a, b, c)) /\ b \in Seq(Over(a, b, c)) /\ c \in Seq(Over(a, b, c))
<1>1. ToSet(a) \subseteq Over(a, b, c) /\ ToSet(b) \subseteq Over(a, b, c) /\ ToSet(c) \subseteq Over(a, b, c)
  BY DEF Over
<1> QED BY <1>1

\* What is said of conflicts, wherever there are rows before it.
ReadClause(clause) == IF clause = None THEN None ELSE ConflictOf(clause)
ConflictHeard(w, clause) ==
  /\ ReadConflict(w) = ReadClause(clause)
  /\ Has(w, "ON CONFLICT") => clause # None
  /\ \A i \in Positions(w, "DO UPDATE SET") :
       clause # None /\ clause.action # None /\ w[i] = UpdateOf(clause)

LEMMA ConflictSide ==
  ASSUME NEW S, NEW base \in Seq(S), Keyworded(base, RowWords), NEW clause,
         NEW k \in Seq(S), k = RenderConflictClause(clause),
         NEW back \in Seq(S), Keyworded(back, {"RETURNING"})
  PROVE  ConflictHeard(Whole(base, k, back), clause)
<1> DEFINE w == Whole(base, k, back)
<1> HIDE DEF w
<1>1. base \in Seq(S) /\ k \in Seq(S) /\ back \in Seq(S)
  OBVIOUS
<1>2. CASE clause = None
  <2>1. k = <<>>
    BY <1>2 DEF RenderConflictClause
  <2>2. "ON CONFLICT" \in ConflictWords /\ "DO UPDATE SET" \in ConflictWords
    BY DEF ConflictWords
  <2>3. Positions(w, "ON CONFLICT") = {} /\ Positions(w, "DO UPDATE SET") = {}
    BY <2>1, <2>2, NoneFound DEF w
  <2>4. ~Has(w, "ON CONFLICT")
    BY <2>3 DEF Has
  <2>5. ReadConflict(w) = None
    BY <2>4 DEF ReadConflict
  <2>6. ConflictHeard(w, clause)
    BY <1>2, <2>3, <2>4, <2>5 DEF ConflictHeard, ReadClause
  <2> QED BY <2>6 DEF w
<1>3. CASE clause # None
  <2>1. ConflictTextIs(k, clause)
    BY <1>3, ConflictText
  <2>2. ReadConflict(w) = ConflictOf(clause)
    BY <1>1, <2>1, ConflictRead DEF w
  <2>3. ConflictStands(w, Len(base), k, clause)
    BY <1>1, <2>1, ConflictAt DEF w
  <2>4. \A i \in Positions(w, "DO UPDATE SET") : clause.action # None /\ w[i] = UpdateOf(clause)
    BY <2>3 DEF ConflictStands
  <2>5. ConflictHeard(w, clause)
    BY <1>3, <2>2, <2>4 DEF ConflictHeard, ReadClause
  <2> QED BY <2>5 DEF w
<1> QED BY <1>2, <1>3

LEMMA ConflictWritten ==
  ASSUME NEW clause
  PROVE  /\ RenderConflictClause(clause) \in Seq(ToSet(RenderConflictClause(clause)))
         /\ Keyworded(RenderConflictClause(clause), ConflictWords)
<1> DEFINE k == RenderConflictClause(clause)
<1>1. CASE clause = None
  <2>1. k = <<>>
    BY <1>1 DEF RenderConflictClause
  <2>2. <<>> \in Seq(ToSet(<<>>)) /\ Keyworded(<<>>, ConflictWords)
    BY DEF Keyworded
  <2> QED BY <2>1, <2>2
<1>2. CASE clause # None
  <2> HIDE DEF k
  <2>1. ConflictTextIs(k, clause)
    BY <1>2, ConflictText DEF k
  <2>2. k \in Seq(ToSet(k))
    BY <2>1 DEF ConflictTextIs
  <2>3. ASSUME NEW i \in 1 .. Len(k) PROVE k[i][1] \in ConflictWords
    BY ONLY <2>1, ConflictPlaces DEF ConflictWords
  <2> QED BY <2>2, <2>3 DEF Keyworded, k
<1> QED BY <1>1, <1>2

\* A statement of rows, with the columns in front of them or spelled bare.
LEMMA InsertText ==
  ASSUME IsInsert
  PROVE  ToSql = Whole(BaseOf(Header, statement.rows), RenderConflictClause(statement.on_conflict), Back)
<1>1. statement.kind = "values"
  BY DEF IsInsert
<1>2. RenderValuesClause = BaseOf(Header, statement.rows) \o RenderConflictClause(statement.on_conflict)
  BY DEF RenderValuesClause, BaseOf, Bare, Lines
<1> QED BY <1>1, <1>2 DEF ToSql, Whole, Back

LEMMA QueryText ==
  ASSUME statement.kind = "select"
  PROVE  ToSql = Whole(Lines(statement.header, <<statement.source>>), <<>>, Back)
<1> DEFINE h == <<"COLUMNS", statement.header>>
           r == <<"ROW", statement.source>>
           row == [i \in DOMAIN <<statement.source>> |-> <<"ROW", <<statement.source>>[i]>>]
<1>1. row = <<r>>
  <2>1. DOMAIN <<statement.source>> = 1 .. 1 /\ <<statement.source>>[1] = statement.source
    OBVIOUS
  <2>2. \A i \in 1 .. 1 : i = 1
    OBVIOUS
  <2> DEFINE one == <<statement.source>>
  <2> HIDE DEF one
  <2>3. row = [i \in 1 .. 1 |-> r]
    BY <2>1, <2>2 DEF one
  <2> HIDE DEF r
  <2>4. <<r>> = [i \in 1 .. 1 |-> r]
    OBVIOUS
  <2> QED BY <2>3, <2>4
<1>2. Lines(statement.header, <<statement.source>>) = <<h>> \o <<r>>
  BY <1>1 DEF Lines
<1> HIDE DEF h, r
<1>3. /\ <<h>> \in Seq({h, r}) /\ <<r>> \in Seq({h, r})
  OBVIOUS
<1>4. <<h>> \o <<r>> = <<h, r>>
  <2> DEFINE w == <<h>> \o <<r>>
             v == <<h, r>>
  <2>1. w \in Seq({h, r}) /\ Len(w) = 2 /\ w[1] = h /\ w[2] = r
    OBVIOUS
  <2>2. v \in Seq({h, r}) /\ Len(v) = 2 /\ v[1] = h /\ v[2] = r
    OBVIOUS
  <2> HIDE DEF w, v
  <2>3. Len(w) = Len(v) /\ \A i \in 1 .. Len(v) : w[i] = v[i]
    BY <2>1, <2>2
  <2>4. w = v
    BY <2>1, <2>2, <2>3, SeqEqual
  <2> QED BY <2>4 DEF w, v
<1>5. <<h, r>> \o <<>> = <<h, r>>
  OBVIOUS
<1>6. ToSql = <<h, r>> \o Back
  BY DEF ToSql, Back, h, r
<1> QED BY <1>2, <1>4, <1>5, <1>6 DEF Whole

\* On SQLite a table with nothing to name is not reached by a conflict target:
\* DEFAULT VALUES takes no ON CONFLICT there.
NamesSomething ==
  Sqlite \in Served =>
    \A t \in Tables, target \in Targets :
      Insertable(t) = <<>> => ~(ToSet(target.columns) \subseteq ToSet(Names(t)))

MeantRows == [i \in DOMAIN meant.rows |-> MeantRow(meant.rows[i])]

\* A SET of a statement names a column once.
LEMMA NeverTwice ==
  ASSUME NEW clause, NEW m, ConflictAgrees(clause, m), clause # None, clause.action # None
  PROVE  ~Twice(clause.action.sets)
BY DEF ConflictAgrees, ActionAgrees, Matches

\* The cells of a statement's rows, next to what was said of them.
LEMMA GivenAre ==
  ASSUME columns \in Tables, NEW rows \in Seq(BuiltRow(columns)), RowsAgree(rows)
  PROVE  /\ statement.rows \in Seq(Seq(Cell(columns))) /\ Len(statement.rows) = Len(rows)
         /\ DOMAIN statement.rows = 1 .. Len(rows) /\ DOMAIN meant.rows = 1 .. Len(rows)
         /\ Len(meant.rows) = Len(rows) /\ Len(rows) \in Nat \ {0}
         /\ \A i \in 1 .. Len(rows) :
              /\ meant.rows[i] \in Complete(columns)
              /\ statement.rows[i] = CellsOf(columns, meant.rows[i])
              /\ Len(statement.rows[i]) = Len(Header)
<1>1. statement.rows = Cells(rows) /\ meant.rows = Said(rows) /\ rows # <<>>
  BY DEF RowsAgree
<1>2. /\ Cells(rows) \in Seq(Seq(Cell(columns))) /\ Len(Cells(rows)) = Len(rows)
      /\ Said(rows) \in Seq(Complete(columns)) /\ Len(Said(rows)) = Len(rows)
      /\ DOMAIN Cells(rows) = 1 .. Len(rows) /\ DOMAIN Said(rows) = 1 .. Len(rows)
      /\ Len(rows) \in Nat
  BY RowsOf
<1>3. ASSUME NEW i \in 1 .. Len(rows)
      PROVE  /\ meant.rows[i] \in Complete(columns)
             /\ statement.rows[i] = CellsOf(columns, meant.rows[i])
             /\ Len(statement.rows[i]) = Len(Header)
  <2>1. rows[i] \in BuiltRow(columns) /\ i \in DOMAIN rows
    OBVIOUS
  <2>2. Cells(rows)[i] = rows[i].cells /\ Said(rows)[i] = rows[i].said
    BY <2>1 DEF Cells, Said
  <2>3. rows[i].said \in Complete(columns) /\ rows[i].cells = CellsOf(columns, rows[i].said)
    BY <2>1, BuiltRowIs
  <2>4. Len(CellsOf(columns, rows[i].said)) = Len(HeaderOf(columns))
    BY <2>3, BuiltIs
  <2>5. HeaderOf(columns) = Header
    BY DEF Header, HeaderOf
  <2> QED BY <1>1, <2>2, <2>3, <2>4, <2>5
<1>4. Len(rows) # 0
  BY <1>1
<1> QED BY <1>1, <1>2, <1>3, <1>4

LEMMA InsertRead ==
  ASSUME IInv, IsInsert, ~DefaultOnSqlite, NamesSomething
  PROVE  Read(ToSql) = [rows |-> MeantRows, conflict |-> ReadClause(statement.on_conflict)]
<1> DEFINE clause == statement.on_conflict
           base == BaseOf(Header, statement.rows)
           k == RenderConflictClause(clause)
           S == Over(base, k, Back)
           w == Whole(base, k, Back)
<1>1. /\ columns \in Tables /\ dialect \in Served
      /\ ConflictAgrees(clause, meant.on_conflict)
  BY InsertHas, TableOpen
<1>2. PICK rows \in Seq(BuiltRow(columns)) : RowsAgree(rows)
  BY InsertHas
<1> DEFINE N == Len(rows)
<1>3. /\ statement.rows \in Seq(Seq(Cell(columns))) /\ Len(statement.rows) = N
      /\ DOMAIN statement.rows = 1 .. N /\ DOMAIN meant.rows = 1 .. N /\ N \in Nat \ {0}
      /\ \A i \in 1 .. N :
           /\ meant.rows[i] \in Complete(columns)
           /\ statement.rows[i] = CellsOf(columns, meant.rows[i])
           /\ Len(statement.rows[i]) = Len(Header)
  BY <1>1, <1>2, GivenAre
<1> HIDE DEF N
<1>4. k \in Seq(ToSet(k)) /\ Keyworded(k, ConflictWords)
  BY ConflictWritten
<1>5. Back \in Seq(ToSet(Back)) /\ Keyworded(Back, {"RETURNING"})
  BY BackIs
<1>6. ToSql = w
  BY InsertText
<1> HIDE DEF clause, k
<1>7. MeantRows = [i \in 1 .. N |-> ReadRow(Header, statement.rows[i])]
  <2>1. \A i \in 1 .. N : MeantRow(meant.rows[i]) = ReadRow(Header, statement.rows[i])
    BY <1>1, <1>3, RowRead
  <2> QED BY <1>3, <2>1 DEF MeantRows
<1>7a. k = RenderConflictClause(clause)
  BY DEF k, clause
<1>8. ASSUME base \in Seq(S), k \in Seq(S), Back \in Seq(S), Keyworded(base, RowWords)
      PROVE  /\ ReadConflict(w) = ReadClause(clause)
             /\ Has(w, "ON CONFLICT") => clause # None
             /\ \A i \in Positions(w, "DO UPDATE SET") : \A j, l \in DOMAIN w[i][2] :
                  w[i][2][j].column = w[i][2][l].column => j = l
  <2> HIDE DEF base, S, w
  <2>1. ConflictHeard(w, clause)
    BY ONLY <1>5, <1>7a, <1>8, ConflictSide DEF w
  <2>2. ASSUME NEW i \in Positions(w, "DO UPDATE SET")
        PROVE  \A j, l \in DOMAIN w[i][2] : w[i][2][j].column = w[i][2][l].column => j = l
    <3>1. clause # None /\ clause.action # None /\ w[i] = UpdateOf(clause)
      BY <2>1, <2>2 DEF ConflictHeard
    <3>2. ~Twice(clause.action.sets)
      BY <1>1, <3>1, NeverTwice
    <3>3. UpdateOf(clause)[2] = clause.action.sets
      BY DEF UpdateOf
    <3>4. w[i][2] = clause.action.sets
      BY <3>1, <3>3
    <3> QED BY <3>2, <3>4 DEF Twice
  <2> QED BY <2>1, <2>2 DEF ConflictHeard
<1>9. CASE Header # <<>>
  <2>1. base = Lines(Header, statement.rows)
    BY <1>9 DEF BaseOf
  <2> HIDE DEF base, S
  <2>2. base \in Seq(ToSet(base))
    BY <1>3, <2>1, LinesAre
  <2>3. base \in Seq(S) /\ k \in Seq(S) /\ Back \in Seq(S)
    BY <1>4, <1>5, <2>2, OverEach DEF S
  <2> HIDE DEF w
  <2>3a. RowsStand(w, Header, statement.rows) /\ Keyworded(base, RowWords)
    <3>1. statement.rows \in Seq(Seq(Cell(columns)))
      BY <1>3
    <3> QED BY ONLY <1>4, <1>5, <2>1, <2>3, <3>1, RowPlaces DEF w
  <2>4. /\ ReadConflict(w) = ReadClause(clause)
        /\ \A i \in Positions(w, "DO UPDATE SET") : \A j, l \in DOMAIN w[i][2] :
             w[i][2][j].column = w[i][2][l].column => j = l
    BY <1>8, <2>3, <2>3a
  <2>5. /\ Positions(w, "COLUMNS") = {1} /\ Positions(w, "ROW") = 2 .. (N + 1)
        /\ Positions(w, EmptyRow) = {} /\ Positions(w, DefaultValues) = {}
        /\ w[1] = <<"COLUMNS", Header>> /\ \A i \in 1 .. N : w[i + 1] = <<"ROW", statement.rows[i]>>
        /\ ReadRows(w) = [i \in 1 .. N |-> ReadRow(Header, statement.rows[i])]
    BY <1>3, <2>3a DEF RowsStand
  <2>6. w[1][2] = Header /\ \A i \in 1 .. N : w[i + 1][2] = statement.rows[i]
    BY <2>5
  <2>7. ASSUME NEW i \in Positions(w, "ROW")
        PROVE  /\ dialect = Sqlite => ~Contains(w[i][2], Default)
               /\ i - 1 \in Positions(w, "COLUMNS") \cup Positions(w, "ROW")
               /\ Len(w[i][2]) = Len(w[1][2])
    <3>1. i - 1 \in 1 .. N /\ (i - 1) + 1 = i /\ (i - 1 = 1 \/ i - 1 \in 2 .. (N + 1))
      BY <1>3, <2>5
    <3>2. w[i][2] = statement.rows[i - 1]
      BY <2>6, <3>1
    <3>3. dialect = Sqlite => ~Contains(statement.rows[i - 1], Default)
      BY <1>3, <3>1 DEF DefaultOnSqlite
    <3> QED BY <1>3, <2>5, <2>6, <3>1, <3>2, <3>3
  <2>8. Accepts(w)
    BY <2>4, <2>5, <2>7 DEF Accepts, Has
  <2> QED BY <1>6, <1>7, <2>4, <2>5, <2>8 DEF Read, clause
<1>10. CASE Header = <<>>
  <2>1. base = Bare(InsertNoColumns)
    BY <1>10 DEF BaseOf
  <2>2. InsertNoColumns \in {EmptyRow, DefaultValues}
    BY DEF InsertNoColumns
  <2> HIDE DEF base, S
  <2>3. base \in Seq(ToSet(base))
    BY <2>1, BareIs
  <2>4. base \in Seq(S) /\ k \in Seq(S) /\ Back \in Seq(S)
    BY <1>4, <1>5, <2>3, OverEach DEF S
  <2> HIDE DEF w
  <2>4a. BareStands(w, InsertNoColumns) /\ Keyworded(base, RowWords)
    BY ONLY <1>4, <1>5, <2>1, <2>2, <2>4, BarePlaces DEF w
  <2>5. /\ ReadConflict(w) = ReadClause(clause)
        /\ Has(w, "ON CONFLICT") => clause # None
        /\ \A i \in Positions(w, "DO UPDATE SET") : \A j, l \in DOMAIN w[i][2] :
             w[i][2][j].column = w[i][2][l].column => j = l
    BY <1>8, <2>4, <2>4a
  <2>6. /\ Positions(w, "COLUMNS") = {} /\ Positions(w, "ROW") = {}
        /\ Positions(w, EmptyRow) # {} => InsertNoColumns = EmptyRow
        /\ Positions(w, DefaultValues) # {} => InsertNoColumns = DefaultValues
        /\ ReadRows(w) = <<ReadRow(<<>>, <<>>)>>
    BY <2>4a DEF BareStands
  <2>7. /\ InsertNoColumns = EmptyRow => dialect = MySql
        /\ InsertNoColumns = DefaultValues => dialect # MySql
    BY Spelled DEF InsertNoColumns
  <2>8. Insertable(columns) = <<>>
    <3>1. Len(Header) = Len(Insertable(columns)) /\ Insertable(columns) \in Seq(ToSet(columns))
      BY <1>1, HeaderIs, InsertableAre DEF Header, HeaderOf
    <3>2. Len(Header) = 0
      BY <1>10
    <3>3. Len(Insertable(columns)) = 0
      BY ONLY <3>1, <3>2
    <3> QED BY ONLY <3>1, <3>3
  <2>9. dialect = Sqlite => ~Has(w, "ON CONFLICT")
    <3> SUFFICES ASSUME dialect = Sqlite, clause # None PROVE FALSE
      BY <2>5
    <3>1. Reaches(clause.target) /\ clause.target \in Targets
      BY <1>1, AskedIs DEF ConflictAgrees, MeantConflict
    <3> QED BY <1>1, <2>8, <3>1 DEF NamesSomething, Reaches
  <2>10. Accepts(w)
    BY <2>5, <2>6, <2>7, <2>9 DEF Accepts, Has
  <2>11. N = 1
    BY <1>2, <2>8 DEF RowsAgree, N
  <2>12. <<ReadRow(<<>>, <<>>)>> = MeantRows
    <3>1. 1 \in 1 .. N
      BY <2>11
    <3>2. statement.rows[1] = <<>>
      <4>1. Len(statement.rows[1]) = Len(Header) /\ 1 \in DOMAIN statement.rows
        BY <1>3, <3>1
      <4>2. Len(Header) = 0
        BY <1>10
      <4>3. statement.rows[1] \in Seq(Cell(columns))
        BY ONLY <1>3, <4>1
      <4>4. Len(statement.rows[1]) = 0
        BY ONLY <4>1, <4>2
      <4> QED BY ONLY <4>3, <4>4
    <3>3. MeantRows = [i \in 1 .. 1 |-> ReadRow(Header, statement.rows[i])]
      BY <1>7, <2>11
    <3>4. \A i \in 1 .. 1 : ReadRow(Header, statement.rows[i]) = ReadRow(<<>>, <<>>)
      <4>1. \A i \in 1 .. 1 : i = 1
        OBVIOUS
      <4> QED BY <1>10, <3>2, <4>1
    <3> DEFINE r == ReadRow(<<>>, <<>>)
    <3>5. MeantRows = [i \in 1 .. 1 |-> r]
      BY <3>3, <3>4
    <3> HIDE DEF r
    <3>6. <<r>> = [i \in 1 .. 1 |-> r]
      OBVIOUS
    <3> QED BY <3>5, <3>6 DEF r
  <2> QED BY <1>6, <2>5, <2>6, <2>10, <2>12 DEF Read, clause
<1> QED BY <1>9, <1>10

\* A statement that is neither of rows nor of none is of a query.
LEMMA QueryHas ==
  ASSUME IInv, Rendered, ~IsInsert
  PROVE  /\ columns \in Tables /\ dialect \in Served
         /\ statement.kind = "select" /\ statement.header = Header /\ statement.source = Header
         /\ Len(meant.rows) = 1
<1>1. statement # None /\ statement.kind # "NothingToInsert" /\ statement.kind # "values"
  BY DEF Rendered, IsInsert
<1>2. columns # None
  BY <1>1 DEF IInv, TableInv
<1>3. statement # Nothing
  BY <1>1 DEF Nothing
<1>4. statement \notin ValuesInsert(columns)
  <2>1. \A v \in ValuesInsert(columns) : v.kind = "values"
    BY DEF ValuesInsert
  <2> QED BY <1>1, <2>1
<1>5. statement \in SelectInsert(columns) /\ statement.source = Header /\ Len(meant.rows) = 1
  BY <1>1, <1>3, <1>4 DEF IInv, StatementInv, StatementAgrees
<1>6. statement.kind = "select" /\ statement.header = Header
  BY <1>5 DEF SelectInsert, Header
<1> QED BY <1>2, <1>5, <1>6, TableOpen

LEMMA QueryRead ==
  ASSUME IInv, Rendered, ~IsInsert
  PROVE  Read(ToSql) = [rows |-> <<ReadRow(Header, Header)>>, conflict |-> None]
<1> DEFINE cells == <<statement.source>>
           base == Lines(Header, cells)
           k == <<>>
           S == Over(base, k, Back)
           w == Whole(base, k, Back)
<1>1. /\ columns \in Tables /\ dialect \in Served
      /\ statement.kind = "select" /\ statement.header = Header /\ statement.source = Header
  BY QueryHas
<1>2. ToSql = w
  BY <1>1, QueryText
<1>3. cells \in Seq({Header}) /\ Len(cells) = 1 /\ cells[1] = Header
  BY <1>1
<1>4. k \in Seq(ToSet(k)) /\ Keyworded(k, ConflictWords)
  BY DEF Keyworded
<1>5. Back \in Seq(ToSet(Back)) /\ Keyworded(Back, {"RETURNING"})
  BY BackIs
<1> HIDE DEF cells
<1>6. base \in Seq(ToSet(base))
  BY ONLY <1>3, LinesAre
<1>7. base = Lines(Header, cells)
  OBVIOUS
<1> HIDE DEF base
<1>8. base \in Seq(S) /\ k \in Seq(S) /\ Back \in Seq(S)
  BY <1>4, <1>5, <1>6, OverEach DEF S
<1> HIDE DEF k, S, w
<1>9. RowsStand(w, Header, cells) /\ Keyworded(base, RowWords)
  BY ONLY <1>3, <1>4, <1>5, <1>7, <1>8, RowPlaces DEF w
<1>10. \A word \in ConflictWords : Positions(w, word) = {}
  BY ONLY <1>5, <1>8, <1>9, NoneFound DEF w, k
<1>11. /\ Positions(w, "COLUMNS") = {1} /\ Positions(w, "ROW") = 2 .. 2
       /\ Positions(w, EmptyRow) = {} /\ Positions(w, DefaultValues) = {}
       /\ w[1] = <<"COLUMNS", Header>> /\ w[1 + 1] = <<"ROW", Header>>
       /\ ReadRows(w) = [i \in 1 .. 1 |-> ReadRow(Header, cells[i])]
  BY <1>3, <1>9 DEF RowsStand
<1>12. {"ON CONFLICT", "DO UPDATE SET"} \subseteq ConflictWords
  BY DEF ConflictWords
<1>13. ~Contains(Header, Default)
  <2>1. Header = HeaderOf(columns)
    BY DEF Header, HeaderOf
  <2>2. \A i \in DOMAIN Header : Header[i] # Default
    BY <1>1, <2>1, HeaderIs, NameIs
  <2> QED BY <2>2 DEF Contains
<1>14. ASSUME NEW i \in Positions(w, "ROW")
       PROVE  /\ ~Contains(w[i][2], Default)
              /\ i - 1 \in Positions(w, "COLUMNS")
              /\ Len(w[i][2]) = Len(w[1][2])
  <2>1. i = 2 /\ i - 1 = 1 /\ i = 1 + 1
    BY <1>11
  <2>2. w[i][2] = Header /\ w[1][2] = Header
    BY <1>11, <2>1
  <2> QED BY <1>11, <1>13, <2>1, <2>2
<1>15. Accepts(w)
  BY <1>10, <1>11, <1>12, <1>14 DEF Accepts, Has
<1>16. ReadConflict(w) = None
  BY <1>10, <1>12 DEF ReadConflict, Has
<1>17. ReadRows(w) = <<ReadRow(Header, Header)>>
  <2> DEFINE r == ReadRow(Header, Header)
  <2>1. \A i \in 1 .. 1 : ReadRow(Header, cells[i]) = r
    <3>1. \A i \in 1 .. 1 : i = 1
      OBVIOUS
    <3> QED BY <1>3, <3>1
  <2> HIDE DEF r
  <2>2. ReadRows(w) = [i \in 1 .. 1 |-> r]
    BY <1>11, <2>1
  <2>3. <<r>> = [i \in 1 .. 1 |-> r]
    OBVIOUS
  <2> QED BY <2>2, <2>3 DEF r
<1> QED BY <1>2, <1>15, <1>16, <1>17 DEF Read
\* What the server refused has no rows.
LEMMA NotRejected ==
  ASSUME NEW rows, NEW conflict
  PROVE  /\ [rows |-> rows, conflict |-> conflict] # Rejected
         /\ [rows |-> rows, conflict |-> conflict].rows = rows
         /\ [rows |-> rows, conflict |-> conflict].conflict = conflict
<1> DEFINE r == [rows |-> rows, conflict |-> conflict]
<1>1. "rows" \in DOMAIN r /\ r.rows = rows /\ r.conflict = conflict
  OBVIOUS
<1>2. "rows" \notin DOMAIN Rejected
  BY DEF Rejected
<1> HIDE DEF r
<1>3. r # Rejected
  BY <1>1, <1>2
<1> QED BY <1>1, <1>3 DEF r

\* A statement of rows, rendered and read.
LEMMA RowsRead ==
  ASSUME IInv, NamesSomething, Rendered, IsInsert
  PROVE  /\ Read(ToSql) # Rejected
         /\ Read(ToSql).rows = MeantRows
         /\ Read(ToSql).conflict = ReadClause(statement.on_conflict)
<1>1. ~DefaultOnSqlite
  BY DEF Rendered
<1>2. Read(ToSql) = [rows |-> MeantRows, conflict |-> ReadClause(statement.on_conflict)]
  BY <1>1, InsertRead
<1> QED BY ONLY <1>2, NotRejected

\* What a clause has the server do is what its call asked for.
LEMMA AskedIsRead ==
  ASSUME columns \in Tables, NEW clause \in ConflictClause(columns),
         NEW asked, ConflictAgrees(clause, asked), clause # None
  PROVE  /\ asked # None
         /\ clause.target = asked.target
         /\ SetsOf(clause) = IF asked.sets = None THEN <<>> ELSE asked.sets
         /\ FilteredBy(clause) = asked.wheres
<1>1. /\ asked \in MeantConflict(columns)
      /\ clause.target = asked.target
      /\ ActionAgrees(clause.action, asked)
  BY DEF ConflictAgrees
<1>2. None \notin Assigned(columns) /\ None \notin MeantConflict(columns)
  BY InsertsAssumption
<1>3. clause.action \in ConflictAction(columns) \cup {None}
  BY ClauseIs
<1>4. CASE clause.action = None
  BY <1>1, <1>2, <1>4 DEF ActionAgrees, SetsOf, FilteredBy
<1>5. CASE clause.action # None
  <2>1. /\ asked.sets \in Assigned(columns) /\ Matches(clause.action.sets, asked.sets)
        /\ asked.wheres = ToSet(clause.action.wheres)
    BY <1>1, <1>5 DEF ActionAgrees
  <2>2. clause.action.sets \in SetList(columns)
    BY <1>3, <1>5, ActionIs
  <2>3. SetsRead(clause.action.sets) = asked.sets
    BY ONLY <2>1, <2>2, SetsAreRead
  <2>4. asked.sets # None
    BY <1>2, <2>1
  <2> QED BY <1>1, <1>2, <1>5, <2>1, <2>3, <2>4 DEF SetsOf, FilteredBy
<1> QED BY <1>4, <1>5
-----------------------------------------------------------------------------
\* Every row given to a statement is in the text its server reads, and no
\* other, of every table and in each of the dialects: a table with nothing to
\* name is never given a second (Insertable, INSERT_NO_COLUMNS), and only an
\* empty collection makes no statement (InsertSeed::values_all).
THEOREM EveryRow == ASSUME NamesSomething PROVE Spec => []EveryRowIsInserted
<1>1. ASSUME IInv PROVE EveryRowIsInserted
  <2>1. ASSUME Rendered
        PROVE  Read(ToSql) # Rejected /\ Len(Read(ToSql).rows) = Len(meant.rows)
    <3>1. CASE IsInsert
      <4>1. Read(ToSql) # Rejected /\ Read(ToSql).rows = MeantRows
        BY <1>1, <2>1, <3>1, RowsRead
      <4>2. columns \in Tables
        BY <1>1, <3>1, InsertHas
      <4>3. PICK rows \in Seq(BuiltRow(columns)) : RowsAgree(rows)
        BY <1>1, <3>1, InsertHas
      <4>4. DOMAIN meant.rows = 1 .. Len(meant.rows) /\ Len(meant.rows) \in Nat
        BY <4>2, <4>3, GivenAre
      <4>5. Len(MeantRows) = Len(meant.rows)
        BY <4>4 DEF MeantRows
      <4> QED BY <4>1, <4>5
    <3>2. CASE ~IsInsert
      <4>1. Read(ToSql) = [rows |-> <<ReadRow(Header, Header)>>, conflict |-> None]
        BY <1>1, <2>1, <3>2, QueryRead
      <4>2. Read(ToSql) # Rejected /\ Read(ToSql).rows = <<ReadRow(Header, Header)>>
        BY ONLY <4>1, NotRejected
      <4>3. Len(meant.rows) = 1
        BY <1>1, <2>1, <3>2, QueryHas
      <4>4. Len(<<ReadRow(Header, Header)>>) = 1
        OBVIOUS
      <4> QED BY ONLY <4>2, <4>3, <4>4
    <3> QED BY <3>1, <3>2
  <2>2. ASSUME statement # None
        PROVE  statement.kind = "NothingToInsert" <=> meant.rows = <<>>
    <3>1. StatementAgrees
      BY <1>1, <2>2 DEF IInv, StatementInv
    <3>2. CASE statement = Nothing /\ meant.rows = <<>>
      BY <3>2 DEF Nothing
    <3>3. CASE statement \in ValuesInsert(columns)
      <4>1. IsInsert /\ statement.kind # "NothingToInsert"
        BY <2>2, <3>3 DEF IsInsert, ValuesInsert
      <4>2. PICK rows \in Seq(BuiltRow(columns)) : RowsAgree(rows)
        BY <1>1, <4>1, InsertHas
      <4>3. columns \in Tables
        BY <1>1, <4>1, InsertHas
      <4>4. Len(meant.rows) = Len(rows) /\ Len(rows) \in Nat \ {0}
        BY <4>2, <4>3, GivenAre
      <4> QED BY <4>1, <4>4
    <3>4. CASE statement \in SelectInsert(columns) /\ Len(meant.rows) = 1
      BY <3>4 DEF SelectInsert
    <3> QED BY <3>1, <3>2, <3>3, <3>4 DEF StatementAgrees
  <2> QED BY <2>1, <2>2 DEF EveryRowIsInserted
<1> QED BY <1>1, Invariance, PTL

\* Whatever the table and however its builders were called, each column of
\* each row is stored as was last said of it, in the row's place: a None is
\* the default of a column with one and NULL otherwise (IntoColumnValue, the
\* *Insert builder, InsertValues, render_values_clause).
THEOREM RowsStored == ASSUME NamesSomething PROVE Spec => []RowsAreStoredAsSaid
<1>1. ASSUME IInv PROVE RowsAreStoredAsSaid
  <2> SUFFICES ASSUME Rendered, IsInsert
               PROVE  Read(ToSql).rows = [i \in DOMAIN meant.rows |-> MeantRow(meant.rows[i])]
    BY DEF RowsAreStoredAsSaid
  <2>1. Read(ToSql).rows = MeantRows
    BY <1>1, RowsRead
  <2> QED BY <2>1 DEF MeantRows
<1> QED BY <1>1, Invariance, PTL

\* Whatever the query, its rows fill the columns of the same names, and none
\* the database generates (InsertSeed::select, SameShape).
THEOREM QueryFills == Spec => []QueryFillsColumnsByName
<1>1. ASSUME IInv PROVE QueryFillsColumnsByName
  <2> SUFFICES ASSUME Rendered, ~IsInsert
               PROVE  \A n \in DOMAIN Read(ToSql).rows[1] :
                        Read(ToSql).rows[1][n] = IF Named(columns, n).generated THEN "generated" ELSE n
    BY DEF QueryFillsColumnsByName
  <2> DEFINE row == ReadRow(Header, Header)
  <2>1. columns \in Tables
    BY <1>1, QueryHas
  <2>2. \A n \in ToSet(Names(columns)) : row[n] = IF Named(columns, n).generated THEN "generated" ELSE n
    BY <2>1, QueryRowRead
  <2>3. DOMAIN row = ToSet(Names(columns))
    BY DEF ReadRow
  <2>4. Read(ToSql) = [rows |-> <<row>>, conflict |-> None]
    BY <1>1, QueryRead
  <2> HIDE DEF row
  <2>5. Read(ToSql).rows = <<row>>
    BY ONLY <2>4, NotRejected
  <2>6. Read(ToSql).rows[1] = row
    BY ONLY <2>5
  <2> QED BY ONLY <2>2, <2>3, <2>6
<1> QED BY <1>1, Invariance, PTL

\* The server settles conflicts as the last on_conflict call asked, whatever
\* the rows before it and the columns returned after: on its target, doing
\* nothing, or assigning each column once what it was last set to where every
\* filter holds (render_conflict_clause, push_set, ConflictUpdate).
THEOREM ConflictsSettled == ASSUME NamesSomething PROVE Spec => []ConflictsEndAsAsked
<1>1. ASSUME IInv PROVE ConflictsEndAsAsked
  <2> DEFINE asked == meant.on_conflict
             clause == statement.on_conflict
             predicate == {asked.target.predicate} \ {None}
             sets == IF asked.sets = None THEN <<>> ELSE asked.sets
             end == [columns |-> asked.target.columns, predicate |-> predicate,
                     sets |-> sets, wheres |-> asked.wheres]
  <2> HIDE DEF predicate, sets, end
  <2> SUFFICES ASSUME Rendered, IsInsert
               PROVE  /\ Read(ToSql) # Rejected
                      /\ Read(ToSql).conflict = IF asked = None THEN None ELSE end
    BY DEF ConflictsEndAsAsked, predicate, sets, end
  <2>1. Read(ToSql) # Rejected /\ Read(ToSql).conflict = ReadClause(clause)
    BY <1>1, RowsRead
  <2>2. columns \in Tables /\ ConflictAgrees(clause, asked)
    BY <1>1, InsertHas
  <2>3. clause \in ConflictClause(columns) \cup {None}
    BY <1>1, InsertHas, ValuesInsertIs
  <2>4. CASE clause = None
    BY <2>1, <2>2, <2>4 DEF ReadClause, ConflictAgrees
  <2>5. CASE clause # None
    <3>1. /\ asked # None /\ clause.target = asked.target
          /\ SetsOf(clause) = sets /\ FilteredBy(clause) = asked.wheres
      BY <2>2, <2>3, <2>5, AskedIsRead DEF sets
    <3>2. ConflictOf(clause) = end
      BY <3>1 DEF ConflictOf, end, predicate
    <3> QED BY <2>1, <2>5, <3>1, <3>2 DEF ReadClause
  <2> QED BY <2>4, <2>5
<1> QED BY <1>1, Invariance, PTL
=============================================================================
