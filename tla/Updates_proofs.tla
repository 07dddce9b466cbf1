--------------------------- MODULE Updates_proofs ---------------------------
(***************************************************************************)
(* What holds of every UPDATE and DELETE, whatever the tables, the         *)
(* patches, the computed assignments, the filters and the rows.            *)
(***************************************************************************)
EXTENDS Updates, FoldTheorems, SequenceTheorems

-----------------------------------------------------------------------------
(***************************************************************************)
(* SET lists: what push_set and from_row make of them.                     *)
(***************************************************************************)
Twice(list) == \E i, j \in DOMAIN list : i # j /\ list[i].column = list[j].column

LEMMA Appended ==
  ASSUME NEW t, NEW list \in Assignments(t), NEW e \in Assignment(t)
  PROVE  /\ Append(list, e) \in Assignments(t)
         /\ ToSet(Append(list, e)) = ToSet(list) \cup {e}
         /\ ~Twice(list) /\ (\A s \in ToSet(list) : s.column # e.column) => ~Twice(Append(list, e))
<1> DEFINE more == Append(list, e)
<1>1. list \in Seq(Assignment(t))
  BY DEF Assignments
<1>2. more \in Seq(Assignment(t)) /\ Len(more) = Len(list) + 1 /\ DOMAIN list = 1 .. Len(list)
  BY <1>1, AppendProperties
<1>3. /\ more[Len(list) + 1] = e
      /\ \A i \in DOMAIN list : more[i] = list[i]
      /\ DOMAIN more = DOMAIN list \cup {Len(list) + 1} /\ Len(list) + 1 \notin DOMAIN list
  BY <1>1, <1>2, AppendProperties
<1> HIDE DEF more
<1>4. ToSet(more) = ToSet(list) \cup {e}
  BY <1>3 DEF ToSet
<1>5. ASSUME ~Twice(list), \A s \in ToSet(list) : s.column # e.column
      PROVE  ~Twice(more)
  <2>1. \A i \in DOMAIN list : more[i].column # e.column
    BY <1>3, <1>5 DEF ToSet
  <2> QED BY <1>3, <1>5, <2>1 DEF Twice
<1> QED BY <1>2, <1>4, <1>5 DEF Assignments, more

\* push_set's retain: a SET list without the assignments to one column.
Retained(list, name) == Only(list, {s \in ToSet(list) : s.column # name})

LEMMA OthersRetained ==
  ASSUME NEW t, NEW list \in Assignments(t), NEW name
  PROVE  /\ Retained(list, name) \in Assignments(t)
         /\ ToSet(Retained(list, name)) = {s \in ToSet(list) : s.column # name}
         /\ ~Twice(list) => ~Twice(Retained(list, name))
<1> DEFINE chosen == {s \in ToSet(list) : s.column # name}
           kept == Only(list, chosen)
<1>1. list \in Seq(Assignment(t))
  BY DEF Assignments
<1> HIDE DEF chosen
<1>2. kept \in Seq(Assignment(t)) /\ ToSet(kept) = ToSet(list) \cap chosen
  BY <1>1, ChosenOf, ChosenAre
<1>3. PICK at : InOrder(kept, list, at, Len(list))
  BY <1>1, ChosenInOrder
<1> HIDE DEF kept
<1>4. ASSUME ~Twice(list) PROVE ~Twice(kept)
  <2> SUFFICES ASSUME NEW i \in DOMAIN kept, NEW j \in DOMAIN kept, i # j
               PROVE  kept[i].column # kept[j].column
    BY DEF Twice
  <2>1. i \in 1 .. Len(kept) /\ j \in 1 .. Len(kept) /\ (i < j \/ j < i)
    BY <1>2
  <2>2. /\ at[i] \in DOMAIN list /\ at[j] \in DOMAIN list /\ at[i] # at[j]
        /\ kept[i] = list[at[i]] /\ kept[j] = list[at[j]]
    BY <1>1, <1>3, <2>1 DEF InOrder
  <2> QED BY <1>4, <2>2 DEF Twice
<1> QED BY <1>2, <1>4 DEF Retained, Assignments, chosen, kept

\* An assignment takes the place of any other to its column (push_set).
LEMMA SetPushed ==
  ASSUME NEW t, NEW list \in Assignments(t), NEW name \in AssignableTo(t),
         NEW value \in Assigned(t)
  PROVE  /\ PushSet(list, name, value) \in Assignments(t)
         /\ ToSet(PushSet(list, name, value)) =
              {s \in ToSet(list) : s.column # name} \cup {Set(name, value)}
         /\ ~Twice(list) => ~Twice(PushSet(list, name, value))
<1> DEFINE kept == Retained(list, name)
           one == Set(name, value)
<1>1. PushSet(list, name, value) = Append(kept, one)
  BY DEF PushSet, Retained
<1>2. one \in Assignment(t) /\ one.column = name
  BY DEF Set, Assignment
<1> HIDE DEF one, kept
<1>3. /\ kept \in Assignments(t)
      /\ ToSet(kept) = {s \in ToSet(list) : s.column # name}
      /\ ~Twice(list) => ~Twice(kept)
  BY OthersRetained DEF kept
<1>4. \A s \in ToSet(kept) : s.column # one.column
  BY <1>2, <1>3
<1> QED BY <1>1, <1>2, <1>3, <1>4, Appended DEF one

\* from_row's loop, field by field.
PatchedBy(t, p, acc) ==
  /\ acc[0] = <<>> /\ acc[Len(t)] = FromPatch(t, p)
  /\ \A n \in 1 .. Len(t) : acc[n] = PushField(t, p, acc[n - 1], t[n])

LEMMA FieldPushed ==
  ASSUME NEW t, NEW p \in Patch(t), NEW list \in Assignments(t), NEW c
  PROVE  PushField(t, p, list, c) \in Assignments(t)
<1> SUFFICES ASSUME c \in Assignable(t), Touched(p, c)
             PROVE  PushSet(list, c.name, <<"value", p[c.name]>>) \in Assignments(t)
  BY DEF PushField, Touched
<1>1. c.name \in AssignableTo(t)
  BY DEF AssignableTo
<1>2. <<"value", p[c.name]>> \in Assigned(t)
  BY <1>1 DEF Patch, Touched, Assigned
<1> QED BY <1>1, <1>2, SetPushed

LEMMA PatchSteps ==
  ASSUME NEW t \in Tables, NEW p \in Patch(t)
  PROVE  \E acc : PatchedBy(t, p, acc)
<1> DEFINE N == Len(t)
           step == [x \in (1 .. N) \X Assignments(t) |-> PushField(t, p, x[2], t[x[1]])]
<1>1. N \in Nat /\ DOMAIN t = 1 .. N
  BY ColumnsAssumption
<1>2. step \in [(1 .. N) \X Assignments(t) -> Assignments(t)]
  BY FieldPushed
<1>3. <<>> \in Assignments(t)
  BY DEF Assignments
<1>4. Folds(N, Assignments(t), <<>>, step)
  <2> HIDE DEF step, N
  <2> QED BY <1>1, <1>2, <1>3, FoldExists
<1>5. PICK it \in [SUBSET (1 .. N) -> Assignments(t)] : Folded(it, N, <<>>, step)
  BY <1>4 DEF Folds
<1>6. ASSUME NEW s \in SUBSET DOMAIN t
      PROVE  it[s] = IF s = {} THEN <<>> ELSE PushField(t, p, it[s \ {Max(s)}], t[Max(s)])
  <2>1. CASE s = {}
    BY <1>1, <1>5, <2>1 DEF Folded
  <2>2. CASE s # {}
    <3>1. Max(s) \in 1 .. N /\ s \ {Max(s)} \in SUBSET (1 .. N)
      BY <1>1, <2>2, Greatest
    <3>2. it[s] = step[<<Max(s), it[s \ {Max(s)}]>>]
      BY <1>1, <1>5, <2>2 DEF Folded
    <3>3. <<Max(s), it[s \ {Max(s)}]>> \in (1 .. N) \X Assignments(t)
      BY <1>5, <3>1
    <3> QED BY <2>2, <3>2, <3>3
  <2> QED BY <2>1, <2>2
<1> HIDE DEF step
<1> DEFINE iter == CHOOSE iter : iter = [s \in SUBSET DOMAIN t |->
                      IF s = {} THEN <<>> ELSE PushField(t, p, iter[s \ {Max(s)}], t[Max(s)])]
<1>7. it = [s \in SUBSET DOMAIN t |->
              IF s = {} THEN <<>> ELSE PushField(t, p, it[s \ {Max(s)}], t[Max(s)])]
  <2>1. it = [s \in SUBSET DOMAIN t |-> it[s]]
    BY <1>1, <1>5
  <2> QED BY <1>6, <2>1
<1>8. iter = [s \in SUBSET DOMAIN t |->
                IF s = {} THEN <<>> ELSE PushField(t, p, iter[s \ {Max(s)}], t[Max(s)])]
  BY <1>7
<1>9. FromPatch(t, p) = iter[DOMAIN t]
  BY Zenon DEF FoldLeft, MapThenFoldSet, FromPatch
<1> HIDE DEF iter
<1> DEFINE acc == [n \in 0 .. N |-> iter[1 .. n]]
<1>10. acc[0] = <<>> /\ acc[N] = FromPatch(t, p)
  <2>1. {} \in SUBSET DOMAIN t /\ 1 .. 0 = {} /\ 0 \in 0 .. N /\ N \in 0 .. N
    BY <1>1
  <2>2. iter[{}] = <<>>
    BY <1>8, <2>1
  <2> QED BY <1>1, <1>9, <2>1, <2>2
<1>11. ASSUME NEW n \in 1 .. N
       PROVE  acc[n] = PushField(t, p, acc[n - 1], t[n])
  <2>1. n \in Nat /\ n # 0 /\ n \in 0 .. N /\ n - 1 \in 0 .. N
    BY <1>1
  <2>2. 1 .. n # {} /\ Max(1 .. n) = n /\ (1 .. n) \ {n} = 1 .. (n - 1)
    BY <2>1, Intervals
  <2>3. 1 .. n \in SUBSET DOMAIN t
    BY <1>1
  <2>4. iter[1 .. n] = PushField(t, p, iter[1 .. (n - 1)], t[n])
    BY <1>8, <2>2, <2>3
  <2> QED BY <2>1, <2>4
<1> HIDE DEF acc
<1> QED BY <1>10, <1>11 DEF PatchedBy

\* What the SET list made of a patch says: of each column, what it touched.
SaysOf(p, names) == {Set(m, <<"value", p[m]>>) : m \in {n \in names : p[n] # Untouched}}

LEMMA PatchSays ==
  ASSUME NEW t \in Tables, NEW p \in Patch(t)
  PROVE  /\ FromPatch(t, p) \in Assignments(t) /\ ~Twice(FromPatch(t, p))
         /\ ToSet(FromPatch(t, p)) = SaysOf(p, AssignableTo(t))
<1>1. PICK acc : PatchedBy(t, p, acc)
  BY PatchSteps
<1> DEFINE N == Len(t)
           Upto(n) == {t[i].name : i \in {j \in 1 .. n : t[j] \in Assignable(t)}}
           S == {n \in Nat : n <= N => /\ acc[n] \in Assignments(t) /\ ~Twice(acc[n])
                                       /\ ToSet(acc[n]) = SaysOf(p, Upto(n))}
<1>2. N \in Nat /\ DOMAIN t = 1 .. N /\ \A i, j \in 1 .. N : t[i].name = t[j].name => i = j
  BY ColumnsAssumption
<1>3. 0 \in S
  <2>1. acc[0] = <<>>
    BY <1>1 DEF PatchedBy
  <2>2. Upto(0) = {}
    OBVIOUS
  <2>3. <<>> \in Assignments(t) /\ ToSet(<<>>) = {} /\ ~Twice(<<>>)
    BY DEF Assignments, ToSet, Twice
  <2> QED BY <2>1, <2>2, <2>3 DEF SaysOf
<1>4. ASSUME NEW n \in Nat, n \in S PROVE n + 1 \in S
  <2> SUFFICES ASSUME n + 1 <= N
               PROVE  /\ acc[n + 1] \in Assignments(t) /\ ~Twice(acc[n + 1])
                      /\ ToSet(acc[n + 1]) = SaysOf(p, Upto(n + 1))
    OBVIOUS
  <2> DEFINE c == t[n + 1]
  <2>1. acc[n] \in Assignments(t) /\ ~Twice(acc[n]) /\ ToSet(acc[n]) = SaysOf(p, Upto(n))
    BY <1>4
  <2>2. n + 1 \in 1 .. N /\ (n + 1) - 1 = n
    BY <1>2
  <2>3. acc[n + 1] = PushField(t, p, acc[n], c)
    BY <1>1, <2>2 DEF PatchedBy
  <2>4. \A i : i \in 1 .. (n + 1) <=> i \in 1 .. n \/ i = n + 1
    OBVIOUS
  <2>5. Upto(n + 1) = IF c \in Assignable(t) THEN Upto(n) \cup {c.name} ELSE Upto(n)
    BY <2>4
  <2>6. c.name \notin Upto(n)
    BY <1>2, <2>2
  <2> HIDE DEF c, Upto
  <2>7. CASE c \in Assignable(t) /\ Touched(p, c)
    <3> DEFINE value == <<"value", p[c.name]>>
    <3>1. c.name \in AssignableTo(t) /\ p[c.name] # Untouched
      BY <2>7 DEF AssignableTo, Touched
    <3>2. value \in Assigned(t)
      BY <3>1 DEF Patch, Assigned
    <3>3. acc[n + 1] = PushSet(acc[n], c.name, value)
      BY <2>3, <2>7, <3>1 DEF PushField
    <3> HIDE DEF value
    <3>4. /\ PushSet(acc[n], c.name, value) \in Assignments(t)
          /\ ToSet(PushSet(acc[n], c.name, value)) =
               {s \in ToSet(acc[n]) : s.column # c.name} \cup {Set(c.name, value)}
          /\ ~Twice(PushSet(acc[n], c.name, value))
      BY <2>1, <3>1, <3>2, SetPushed
    <3>5. \A s \in ToSet(acc[n]) : s.column # c.name
      BY <2>1, <2>6 DEF SaysOf, Set
    <3>6. SaysOf(p, Upto(n + 1)) = SaysOf(p, Upto(n)) \cup {Set(c.name, value)}
      BY <2>5, <2>7, <3>1 DEF SaysOf, value
    <3> QED BY <2>1, <3>3, <3>4, <3>5, <3>6
  <2>8. CASE ~(c \in Assignable(t) /\ Touched(p, c))
    <3>1. acc[n + 1] = acc[n]
      BY <2>3, <2>8 DEF PushField
    <3>2. SaysOf(p, Upto(n + 1)) = SaysOf(p, Upto(n))
      BY <2>5, <2>8 DEF SaysOf, Touched
    <3> QED BY <2>1, <3>1, <3>2
  <2> QED BY <2>7, <2>8
<1> HIDE DEF S
<1>5. N \in S
  BY <1>2, <1>3, <1>4, EveryNumber
<1>6. acc[N] \in Assignments(t) /\ ~Twice(acc[N]) /\ ToSet(acc[N]) = SaysOf(p, Upto(N))
  BY <1>2, <1>5 DEF S
<1>7. acc[N] = FromPatch(t, p)
  BY <1>1 DEF PatchedBy
<1>8. Upto(N) = AssignableTo(t)
  BY <1>2 DEF AssignableTo, Assignable, ToSet
<1> QED BY <1>6, <1>7, <1>8
-----------------------------------------------------------------------------
(***************************************************************************)
(* What the calls leave in hand.                                           *)
(***************************************************************************)
\* A list says of each column what was last said of it, once.
Matches(list, words) ==
  /\ ~Twice(list)
  /\ ToSet(list) = {Set(n, words[n]) : n \in {m \in DOMAIN words : words[m] # None}}

\* Whichever is in hand, a patch, a SET list or a statement, it has what was
\* said of each column; and a statement has every filter asked for.
PatchInHand ==
  /\ patch \in Patch(columns) /\ said \in Said(columns)
  /\ sets = None /\ statement = None
  /\ \A n \in AssignableNames :
       said[n] = IF patch[n] = Untouched THEN None ELSE <<"value", patch[n]>>

SetsInHand ==
  /\ sets \in Assignments(columns) /\ said \in Said(columns)
  /\ patch = None /\ statement = None
  /\ Matches(sets, said)

StatementInHand ==
  /\ statement \in Statement(columns) /\ patch = None /\ sets = None
  /\ asked = ToSet(statement.wheres)
  /\ IF statement.kind = "update"
     THEN said \in Said(columns) /\ Matches(statement.sets, said) /\ statement.sets # <<>>
     ELSE said = None /\ statement.sets = <<>>

IInv ==
  /\ columns \in Tables \cup {None}
  /\ columns = None => patch = None /\ sets = None /\ statement = None
  /\ patch # None => PatchInHand
  /\ sets # None => SetsInHand
  /\ statement # None => StatementInHand
  /\ patch = None /\ sets = None /\ statement = None => said = None
  /\ statement = None => asked = {}
-----------------------------------------------------------------------------
LEMMA InitHolds == Init => IInv
BY DEF Init, IInv

\* Where there is a column to set, there is a table.
LEMMA TableOpen ==
  ASSUME IInv, columns # None
  PROVE  columns \in Tables
BY DEF IInv

LEMMA ColumnIs ==
  ASSUME NEW t, NEW name \in AssignableTo(t)
  PROVE  Named(t, name) \in ToSet(t) /\ Named(t, name).name = name
BY DEF Named, AssignableTo, Assignable

LEMMA BuilderKeeps ==
  ASSUME IInv, Builder
  PROVE  IInv'
<1>1. columns \in Tables /\ columns # None /\ sets = None /\ statement = None /\ asked = {}
  BY TableOpen DEF Builder, IInv
<1>2. /\ patch' = [n \in AssignableTo(columns) |-> Untouched]
      /\ said' = [n \in AssignableTo(columns) |-> None]
      /\ UNCHANGED <<columns, sets, statement, asked>>
  BY DEF Builder, AssignableNames
<1>3. patch' \in Patch(columns) /\ said' \in Said(columns)
  BY <1>2 DEF Patch, Said
<1>4. patch' # None
  BY <1>1, <1>3, UpdatesAssumption
<1>5. PatchInHand'
  BY <1>1, <1>2, <1>3 DEF PatchInHand, AssignableNames
<1> QED BY <1>1, <1>2, <1>4, <1>5 DEF IInv

\* A field of the patch takes a value, or none, and so does what was said.
LEMMA FieldKeeps ==
  ASSUME IInv, patch # None, NEW name \in AssignableNames,
         NEW v \in Data(columns) \cup {Untouched},
         patch' = [patch EXCEPT ![name] = v],
         said' = [said EXCEPT ![name] = IF v = Untouched THEN None ELSE <<"value", v>>],
         UNCHANGED <<columns, sets, statement, asked>>
  PROVE  IInv'
<1> DEFINE w == IF v = Untouched THEN None ELSE <<"value", v>>
<1>1. /\ patch \in Patch(columns) /\ said \in Said(columns) /\ sets = None /\ statement = None
      /\ \A n \in AssignableNames :
           said[n] = IF patch[n] = Untouched THEN None ELSE <<"value", patch[n]>>
  BY DEF IInv, PatchInHand
<1>2. columns \in Tables
  BY DEF IInv
<1>3. w \in Assigned(columns) \cup {None}
  BY DEF Assigned
<1>4. patch' \in Patch(columns)
  BY <1>1 DEF Patch
<1>5. said' \in Said(columns)
  BY <1>1, <1>3 DEF Said
<1>6. patch' # None
  BY <1>2, <1>4, UpdatesAssumption
<1>7. \A n \in AssignableNames :
        said'[n] = IF patch'[n] = Untouched THEN None ELSE <<"value", patch'[n]>>
  BY <1>1 DEF Patch, Said, AssignableNames
<1>8. PatchInHand'
  BY <1>1, <1>4, <1>5, <1>7 DEF PatchInHand, AssignableNames
<1> QED BY <1>1, <1>2, <1>6, <1>8 DEF IInv

LEMMA SetNullKeeps ==
  ASSUME IInv, NEW name \in AssignableNames, SetNull(name)
  PROVE  IInv'
<1>1. Null \in Data(columns) /\ Null # Untouched
  BY DEF Data, Null, Untouched
<1> QED BY <1>1, FieldKeeps DEF SetNull

LEMMA SetFieldKeeps ==
  ASSUME IInv, NEW name \in AssignableNames,
         NEW arg \in Named(columns, name).values \cup {None}, SetField(name, arg)
  PROVE  IInv'
<1>1. columns \in Tables
  BY DEF SetField, IInv
<1>2. Named(columns, name) \in ToSet(columns)
  BY ColumnIs DEF AssignableNames
<1>3. arg # None => arg \in Data(columns) /\ arg # Untouched
  BY <1>1, <1>2, UpdatesAssumption DEF Data
<1> DEFINE v == IF arg = None THEN Untouched ELSE arg
<1>4. /\ v \in Data(columns) \cup {Untouched}
      /\ patch' = [patch EXCEPT ![name] = v]
      /\ said' = [said EXCEPT ![name] = IF v = Untouched THEN None ELSE <<"value", v>>]
  BY <1>3 DEF SetField
<1>5. patch # None /\ UNCHANGED <<columns, sets, statement, asked>>
  BY DEF SetField
<1> HIDE DEF v
<1> QED BY <1>4, <1>5, FieldKeeps

\* The SET list of a patch says what was said of its fields.
LEMMA FromRowKeeps ==
  ASSUME IInv, FromRow
  PROVE  IInv'
<1>1. /\ patch \in Patch(columns) /\ said \in Said(columns) /\ statement = None
      /\ \A n \in AssignableNames :
           said[n] = IF patch[n] = Untouched THEN None ELSE <<"value", patch[n]>>
      /\ columns \in Tables /\ columns # None /\ asked = {}
  BY DEF IInv, PatchInHand, FromRow
<1>2. /\ sets' = FromPatch(columns, patch) /\ patch' = None
      /\ UNCHANGED <<columns, statement, said, asked>>
  BY DEF FromRow
<1>3. /\ sets' \in Assignments(columns) /\ ~Twice(sets')
      /\ ToSet(sets') = SaysOf(patch, AssignableTo(columns))
  BY <1>1, <1>2, PatchSays
<1>4. \A n \in DOMAIN said : /\ said[n] # None <=> patch[n] # Untouched
                             /\ said[n] # None => said[n] = <<"value", patch[n]>>
  <2> SUFFICES ASSUME NEW n \in AssignableNames
               PROVE  /\ said[n] # None <=> patch[n] # Untouched
                      /\ said[n] # None => said[n] = <<"value", patch[n]>>
    BY <1>1 DEF Said, AssignableNames
  <2>1. CASE patch[n] = Untouched
    BY <1>1, <2>1
  <2>2. CASE patch[n] # Untouched
    <3>1. <<"value", patch[n]>> \in Assigned(columns)
      BY <1>1, <2>2 DEF Patch, Assigned, AssignableNames
    <3>2. <<"value", patch[n]>> # None
      BY <1>1, <3>1, UpdatesAssumption
    <3> QED BY <1>1, <2>2, <3>2
  <2> QED BY <2>1, <2>2
<1>5. DOMAIN said = AssignableTo(columns)
  BY <1>1 DEF Said
<1>6. SaysOf(patch, AssignableTo(columns)) =
        {Set(n, said[n]) : n \in {m \in DOMAIN said : said[m] # None}}
  BY <1>4, <1>5 DEF SaysOf
<1>7. Matches(sets', said)
  BY <1>3, <1>6 DEF Matches
<1>8. sets' # None
  BY <1>1, <1>3, UpdatesAssumption
<1>9. SetsInHand'
  BY <1>1, <1>2, <1>3, <1>7 DEF SetsInHand
<1> QED BY <1>1, <1>2, <1>8, <1>9 DEF IInv

\* One assignment more, to a list that matches what was said before it.
LEMMA MatchesMore ==
  ASSUME NEW t, NEW list \in Assignments(t), NEW words \in Said(t), Matches(list, words),
         NEW name \in AssignableTo(t), NEW value \in Assigned(t), None \notin Assigned(t)
  PROVE  LET more == PushSet(list, name, value)
             now == [n \in AssignableTo(t) |-> IF n = name THEN value ELSE words[n]]
         IN more \in Assignments(t) /\ more # <<>> /\ now \in Said(t) /\ Matches(more, now)
<1> DEFINE more == PushSet(list, name, value)
           now == [n \in AssignableTo(t) |-> IF n = name THEN value ELSE words[n]]
<1>1. /\ more \in Assignments(t) /\ ~Twice(more)
      /\ ToSet(more) = {s \in ToSet(list) : s.column # name} \cup {Set(name, value)}
  BY SetPushed DEF Matches
<1>2. now \in Said(t)
  BY DEF Said
<1>3. DOMAIN words = AssignableTo(t)
  BY DEF Said
<1>4. {s \in ToSet(list) : s.column # name} =
        {Set(n, words[n]) : n \in {m \in AssignableTo(t) : words[m] # None /\ m # name}}
  BY <1>3 DEF Matches, Set
<1>5. {Set(n, now[n]) : n \in {m \in AssignableTo(t) : now[m] # None}} =
        {Set(n, words[n]) : n \in {m \in AssignableTo(t) : words[m] # None /\ m # name}}
          \cup {Set(name, value)}
  <2>1. now[name] = value /\ value # None
    OBVIOUS
  <2>2. \A n \in AssignableTo(t) : n # name => now[n] = words[n]
    OBVIOUS
  <2> HIDE DEF now
  <2> QED BY <2>1, <2>2
<1>6. DOMAIN now = AssignableTo(t)
  OBVIOUS
<1> HIDE DEF now, more
<1>7. Matches(more, now)
  BY <1>1, <1>4, <1>5, <1>6 DEF Matches
<1>8. more # <<>>
  <2>1. Set(name, value) \in ToSet(more)
    BY <1>1
  <2> QED BY <2>1 DEF ToSet
<1> QED BY <1>1, <1>2, <1>7, <1>8 DEF now, more

\* What fits a column may be assigned to it.
LEMMA FitsIsAssigned ==
  ASSUME IInv, columns # None, NEW name \in AssignableNames, NEW value \in Expressions,
         Fits(columns, name, value)
  PROVE  columns \in Tables /\ value \in Assigned(columns) /\ None \notin Assigned(columns)
<1>1. columns \in Tables
  BY TableOpen
<1>2. value = <<value[1], value[2]>> /\ value[1] \in {"value", "own"}
  BY UpdatesAssumption
<1>3. Named(columns, name) \in ToSet(columns)
  BY ColumnIs DEF AssignableNames
<1>4. value[1] = "value" => value[2] \in Data(columns)
  BY <1>3 DEF Fits, Data
<1>5. value[1] # "value" => value[2] \in ToSet(Names(columns))
  BY DEF Fits
<1>6. value \in Assigned(columns)
  BY <1>2, <1>4, <1>5 DEF Assigned
<1>7. None \notin Assigned(columns)
  BY <1>1, UpdatesAssumption
<1> QED BY <1>1, <1>6, <1>7

\* set_to, of a list in hand or of one that begins with it.
LEMMA SetToKeeps ==
  ASSUME IInv, NEW name \in AssignableNames, NEW value \in Expressions, SetTo(name, value)
  PROVE  IInv'
<1>1. /\ columns # None /\ patch = None /\ sets # NothingToSet
      /\ Fits(columns, name, value)
      /\ UNCHANGED <<columns, patch, asked>>
  BY DEF SetTo
<1>2. columns \in Tables /\ value \in Assigned(columns) /\ None \notin Assigned(columns)
  BY <1>1, FitsIsAssigned
<1>3. None \notin Assignments(columns) /\ None \notin Said(columns)
  BY <1>2, UpdatesAssumption
<1>4. name \in AssignableTo(columns)
  BY DEF AssignableNames
<1>5. CASE statement = None /\ sets = None
  <2> DEFINE words == [n \in AssignableTo(columns) |-> None]
  <2>1. said = None
    BY <1>1, <1>5 DEF IInv
  <2>2. words \in Said(columns) /\ <<>> \in Assignments(columns)
    BY DEF Said, Assignments
  <2>3. Matches(<<>>, words)
    BY DEF Matches, Twice, ToSet
  <2>4. /\ UNCHANGED statement /\ sets' = PushSet(<<>>, name, value)
        /\ said' = [n \in AssignableTo(columns) |-> IF n = name THEN value ELSE words[n]]
    BY <1>5, <2>1 DEF SetTo, AssignableNames
  <2> HIDE DEF words
  <2>5. sets' \in Assignments(columns) /\ said' \in Said(columns) /\ Matches(sets', said')
    BY <1>2, <1>4, <2>2, <2>3, <2>4, MatchesMore
  <2>6. SetsInHand'
    BY <1>1, <1>5, <2>4, <2>5 DEF SetsInHand
  <2> QED BY <1>1, <1>3, <1>5, <2>4, <2>5, <2>6 DEF IInv
<1>6. CASE statement = None /\ sets # None
  <2>1. sets \in Assignments(columns) /\ said \in Said(columns) /\ Matches(sets, said)
    BY <1>6 DEF IInv, SetsInHand
  <2>2. /\ UNCHANGED statement /\ sets' = PushSet(sets, name, value)
        /\ said' = [n \in AssignableTo(columns) |-> IF n = name THEN value ELSE said[n]]
    BY <1>3, <1>6, <2>1 DEF SetTo, AssignableNames
  <2>3. sets' \in Assignments(columns) /\ said' \in Said(columns) /\ Matches(sets', said')
    BY <1>2, <1>4, <2>1, <2>2, MatchesMore
  <2>4. SetsInHand'
    BY <1>1, <1>6, <2>2, <2>3 DEF SetsInHand
  <2> QED BY <1>1, <1>3, <1>6, <2>2, <2>3, <2>4 DEF IInv
<1>7. CASE statement # None
  <2> DEFINE more == PushSet(statement.sets, name, value)
  <2>1. /\ statement.kind = "update" /\ UNCHANGED sets
        /\ statement' = [statement EXCEPT !.sets = more]
    BY <1>7 DEF SetTo
  <2>2. /\ statement \in Statement(columns) /\ sets = None
        /\ asked = ToSet(statement.wheres)
        /\ said \in Said(columns) /\ Matches(statement.sets, said)
    BY <1>7, <2>1 DEF IInv, StatementInHand
  <2>3. said' = [n \in AssignableTo(columns) |-> IF n = name THEN value ELSE said[n]]
    BY <1>3, <2>2 DEF SetTo, AssignableNames
  <2>4. statement.sets \in Assignments(columns)
    BY <2>2 DEF Statement
  <2>5. /\ more \in Assignments(columns) /\ more # <<>>
        /\ said' \in Said(columns) /\ Matches(more, said')
    <3>1. PICK list \in Assignments(columns) : list = statement.sets
      BY <2>4
    <3>2. more = PushSet(list, name, value) /\ Matches(list, said)
      BY <2>2, <3>1
    <3> HIDE DEF more
    <3> QED BY <1>2, <1>4, <2>2, <2>3, <3>2, MatchesMore
  <2> HIDE DEF more
  <2>6. /\ statement' \in Statement(columns) /\ statement'.sets = more
        /\ statement'.kind = "update" /\ statement'.wheres = statement.wheres
    BY <2>1, <2>2, <2>5 DEF Statement
  <2>7. statement' # None
    BY <1>2, <2>6, UpdatesAssumption
  <2>8. StatementInHand'
    BY <1>1, <2>1, <2>2, <2>5, <2>6 DEF StatementInHand
  <2> QED BY <1>1, <1>2, <2>1, <2>2, <2>7, <2>8 DEF IInv
<1> QED BY <1>5, <1>6, <1>7

\* A statement begins with the list in hand, and a DELETE with none.
LEMMA SetAllKeeps ==
  ASSUME IInv, SetAll
  PROVE  IInv'
<1>1. /\ sets \in Assignments(columns) /\ said \in Said(columns) /\ Matches(sets, said)
      /\ patch = None /\ asked = {} /\ sets # <<>> /\ columns # None
  BY DEF SetAll, IInv, SetsInHand, NothingToSet
<1>2. /\ statement' = [kind |-> "update", sets |-> sets, wheres |-> <<>>]
      /\ sets' = None /\ UNCHANGED <<columns, patch, said, asked>>
  BY DEF SetAll
<1>3. columns \in Tables
  BY <1>1, TableOpen
<1>4. /\ statement' \in Statement(columns) /\ statement'.sets = sets
      /\ statement'.kind = "update" /\ ToSet(statement'.wheres) = {}
  BY <1>1, <1>2 DEF Statement, ToSet
<1>5. statement' # None
  BY <1>3, <1>4, UpdatesAssumption
<1>6. StatementInHand'
  BY <1>1, <1>2, <1>4 DEF StatementInHand
<1> QED BY <1>1, <1>2, <1>3, <1>5, <1>6 DEF IInv

LEMMA DeleteKeeps ==
  ASSUME IInv, Delete
  PROVE  IInv'
<1>1. columns \in Tables /\ columns # None /\ patch = None /\ sets = None
      /\ said = None /\ asked = {}
  BY TableOpen DEF Delete, IInv
<1>2. /\ statement' = [kind |-> "delete", sets |-> <<>>, wheres |-> <<>>]
      /\ UNCHANGED <<columns, patch, sets, said, asked>>
  BY DEF Delete
<1>3. /\ statement' \in Statement(columns) /\ statement'.sets = <<>>
      /\ statement'.kind = "delete" /\ ToSet(statement'.wheres) = {}
  BY <1>2 DEF Statement, Assignments, ToSet
<1>4. statement' # None
  BY <1>1, <1>3, UpdatesAssumption
<1>5. StatementInHand'
  BY <1>1, <1>2, <1>3 DEF StatementInHand
<1> QED BY <1>1, <1>2, <1>4, <1>5 DEF IInv

\* A filter goes after the others.
LEMMA FilterAppends ==
  ASSUME IInv, NEW condition \in Conditions, Filter(condition)
  PROVE  /\ statement # None /\ returning = None /\ returning' = None
         /\ statement'.kind = statement.kind /\ statement'.sets = statement.sets
         /\ statement'.wheres = Append(statement.wheres, condition)
         /\ ToSet(statement'.wheres) = ToSet(statement.wheres) \cup {condition}
         /\ statement' \in Statement(columns)
         /\ UNCHANGED <<dialect, columns>>
<1>1. statement # None /\ statement \in Statement(columns)
  BY DEF Filter, IInv, StatementInHand
<1> DEFINE more == Append(statement.wheres, condition)
<1>2. statement' = [statement EXCEPT !.wheres = more]
  BY DEF Filter, Narrowed
<1>3. statement.wheres \in Seq(Conditions)
  BY <1>1 DEF Statement
<1>4. more \in Seq(Conditions) /\ ToSet(more) = ToSet(statement.wheres) \cup {condition}
  <2>1. more \in Seq(Conditions) /\ DOMAIN more = DOMAIN statement.wheres \cup {Len(statement.wheres) + 1}
    BY <1>3, AppendProperties
  <2>2. /\ more[Len(statement.wheres) + 1] = condition
        /\ \A i \in DOMAIN statement.wheres : more[i] = statement.wheres[i]
    BY <1>3, AppendProperties
  <2> HIDE DEF more
  <2> QED BY <2>1, <2>2 DEF ToSet
<1> HIDE DEF more
<1>5. /\ statement'.kind = statement.kind /\ statement'.sets = statement.sets
      /\ statement'.wheres = more /\ statement' \in Statement(columns)
  BY <1>1, <1>2, <1>4 DEF Statement
<1> QED BY <1>1, <1>4, <1>5 DEF Filter, more

LEMMA FilterKeeps ==
  ASSUME IInv, NEW condition \in Conditions, Filter(condition)
  PROVE  IInv'
<1>1. /\ statement # None
      /\ statement'.kind = statement.kind /\ statement'.sets = statement.sets
      /\ ToSet(statement'.wheres) = ToSet(statement.wheres) \cup {condition}
      /\ statement' \in Statement(columns)
  BY FilterAppends
<1>2. asked' = asked \cup {condition} /\ UNCHANGED <<columns, patch, sets, said>>
  BY DEF Filter
<1>3. StatementInHand /\ columns \in Tables /\ columns # None
  BY <1>1 DEF IInv
<1>4. statement' # None
  BY <1>1, <1>3, UpdatesAssumption
<1>5. StatementInHand'
  BY <1>1, <1>2, <1>3 DEF StatementInHand
<1> QED BY <1>2, <1>3, <1>4, <1>5 DEF IInv, StatementInHand

LEMMA StepHolds == IInv /\ [Next]_vars => IInv'
<1> SUFFICES ASSUME IInv, [Next]_vars PROVE IInv'
  OBVIOUS
<1>1. CASE \E d \in Served, t \in Tables : Open(d, t)
  BY <1>1 DEF Open, IInv
<1>2. CASE Delete \/ Builder \/ FromRow \/ SetAll
  BY <1>2, DeleteKeeps, BuilderKeeps, FromRowKeeps, SetAllKeeps
<1>3. CASE Returning \/ UNCHANGED vars
  BY <1>3 DEF Returning, vars, IInv, PatchInHand, SetsInHand, StatementInHand, AssignableNames
<1>4. CASE \E name \in AssignableNames :
             \/ SetNull(name)
             \/ \E arg \in Named(columns, name).values \cup {None} : SetField(name, arg)
             \/ \E value \in Expressions : SetTo(name, value)
  BY <1>4, SetNullKeeps, SetFieldKeeps, SetToKeeps
<1>5. CASE \E condition \in Conditions : Filter(condition)
  BY <1>5, FilterKeeps
<1> QED BY <1>1, <1>2, <1>3, <1>4, <1>5 DEF Next

\* Whatever the calls, and however a patch and computed assignments are mixed,
\* what is in hand has what was last said of each column, once, and every
\* filter (push_set, from_row, and_set_to, filter).
THEOREM Invariance == Spec => []IInv
BY InitHolds, StepHolds, PTL DEF Spec

LEMMA NoEntry ==
  ASSUME NEW t, NEW list \in Assignments(t)
  PROVE  ToSet(list) = {} <=> list = <<>>
<1>1. list \in Seq(Assignment(t))
  BY DEF Assignments
<1>2. list # <<>> => 1 \in DOMAIN list
  BY <1>1
<1>3. list # <<>> => list[1] \in ToSet(list)
  BY <1>2 DEF ToSet
<1>4. ToSet(<<>>) = {}
  BY DEF ToSet
<1> QED BY <1>3, <1>4

\* Of a patch, whatever its table, NothingToSet says it touched no column
\* (from_row).
THEOREM EmptyPatchesRefused == Spec => []OnlyAnEmptyPatchIsRefused
<1>1. IInv => OnlyAnEmptyPatchIsRefused
  <2> SUFFICES ASSUME IInv, said # None, patch = None
               PROVE  sets = NothingToSet <=> \A n \in DOMAIN said : said[n] = None
    BY DEF OnlyAnEmptyPatchIsRefused
  <2>1. ASSUME NEW list, Matches(list, said)
        PROVE  ToSet(list) = {} <=> \A n \in DOMAIN said : said[n] = None
    BY <2>1 DEF Matches
  <2>2. CASE sets # None
    <3>1. sets \in Assignments(columns) /\ Matches(sets, said)
      BY <2>2 DEF IInv, SetsInHand
    <3>2. ToSet(sets) = {} <=> sets = <<>>
      BY <3>1, NoEntry
    <3> QED BY <2>1, <3>1, <3>2 DEF NothingToSet
  <2>3. CASE sets = None
    <3>1. statement # None /\ StatementInHand /\ columns \in Tables
      BY <2>3 DEF IInv
    <3>2. statement.sets \in Assignments(columns) /\ statement.sets # <<>>
          /\ Matches(statement.sets, said)
      BY <3>1 DEF StatementInHand, Statement
    <3>3. ToSet(statement.sets) # {}
      BY <3>2, NoEntry
    <3>4. <<>> \in Assignments(columns) /\ None \notin Assignments(columns)
      BY <3>1, UpdatesAssumption DEF Assignments
    <3> QED BY <2>1, <2>3, <3>2, <3>3, <3>4 DEF NothingToSet
  <2> QED BY <2>2, <2>3
<1> QED BY <1>1, Invariance, PTL
-----------------------------------------------------------------------------
(***************************************************************************)
(* What a server makes of a row by a SET list.                             *)
(***************************************************************************)
RowType(t) == [ToSet(Names(t)) -> Data(t)]

\* A row is of its columns' values or NULL.
LEMMA RowIs ==
  ASSUME NEW t, NEW row \in Row(t) PROVE row \in RowType(t)
BY DEF Row, RowType, Data

LEMMA AssignableNamed ==
  ASSUME NEW t PROVE AssignableTo(t) \subseteq ToSet(Names(t))
BY DEF AssignableTo, Assignable, ToSet, Names

LEMMA OneAssigned ==
  ASSUME NEW t, NEW d, NEW row \in RowType(t), NEW sofar \in RowType(t), NEW s \in Assignment(t)
  PROVE  AssignOne(d, row, sofar, s) \in RowType(t)
<1> DEFINE v == IF s.value[1] = "value" THEN s.value[2]
                ELSE (IF d = MySql THEN sofar ELSE row)[s.value[2]]
<1>1. s.column \in ToSet(Names(t)) /\ s.value \in Assigned(t)
  BY AssignableNamed DEF Assignment
<1>2. \/ s.value[1] = "value" /\ s.value[2] \in Data(t)
      \/ s.value[1] # "value" /\ s.value[2] \in ToSet(Names(t))
  BY <1>1 DEF Assigned
<1>3. v \in Data(t)
  BY <1>2 DEF RowType
<1>4. AssignOne(d, row, sofar, s) = [sofar EXCEPT ![s.column] = v]
  BY DEF AssignOne
<1> HIDE DEF v
<1> QED BY <1>1, <1>3, <1>4 DEF RowType

\* A SET list, entry by entry.
AssignedBy(d, row, list, acc) ==
  /\ acc[0] = row /\ acc[Len(list)] = Assign(d, row, list)
  /\ \A n \in 1 .. Len(list) : acc[n] = AssignOne(d, row, acc[n - 1], list[n])

LEMMA AssignSteps ==
  ASSUME NEW t, NEW d, NEW row \in RowType(t), NEW list \in Assignments(t)
  PROVE  \E acc : AssignedBy(d, row, list, acc)
<1> DEFINE N == Len(list)
           step == [x \in (1 .. N) \X RowType(t) |-> AssignOne(d, row, x[2], list[x[1]])]
<1>1. N \in Nat /\ DOMAIN list = 1 .. N /\ \A i \in 1 .. N : list[i] \in Assignment(t)
  BY DEF Assignments
<1>2. step \in [(1 .. N) \X RowType(t) -> RowType(t)]
  BY <1>1, OneAssigned
<1>4. Folds(N, RowType(t), row, step)
  <2> HIDE DEF step, N
  <2> QED BY <1>1, <1>2, FoldExists
<1>5. PICK it \in [SUBSET (1 .. N) -> RowType(t)] : Folded(it, N, row, step)
  BY <1>4 DEF Folds
<1>6. ASSUME NEW s \in SUBSET DOMAIN list
      PROVE  it[s] = IF s = {} THEN row ELSE AssignOne(d, row, it[s \ {Max(s)}], list[Max(s)])
  <2>1. CASE s = {}
    BY <1>1, <1>5, <2>1 DEF Folded
  <2>2. CASE s # {}
    <3>1. Max(s) \in 1 .. N /\ s \ {Max(s)} \in SUBSET (1 .. N)
      BY <1>1, <2>2, Greatest
    <3>2. it[s] = step[<<Max(s), it[s \ {Max(s)}]>>]
      BY <1>1, <1>5, <2>2 DEF Folded
    <3>3. <<Max(s), it[s \ {Max(s)}]>> \in (1 .. N) \X RowType(t)
      BY <1>5, <3>1
    <3> QED BY <2>2, <3>2, <3>3
  <2> QED BY <2>1, <2>2
<1> HIDE DEF step
<1> DEFINE iter == CHOOSE iter : iter = [s \in SUBSET DOMAIN list |->
                      IF s = {} THEN row ELSE AssignOne(d, row, iter[s \ {Max(s)}], list[Max(s)])]
<1>7. it = [s \in SUBSET DOMAIN list |->
              IF s = {} THEN row ELSE AssignOne(d, row, it[s \ {Max(s)}], list[Max(s)])]
  <2>1. it = [s \in SUBSET DOMAIN list |-> it[s]]
    BY <1>1, <1>5
  <2> QED BY <1>6, <2>1
<1>8. iter = [s \in SUBSET DOMAIN list |->
                IF s = {} THEN row ELSE AssignOne(d, row, iter[s \ {Max(s)}], list[Max(s)])]
  BY <1>7
<1>9. Assign(d, row, list) = iter[DOMAIN list]
  BY Zenon DEF FoldLeft, MapThenFoldSet, Assign
<1> HIDE DEF iter
<1> DEFINE acc == [n \in 0 .. N |-> iter[1 .. n]]
<1>10. acc[0] = row /\ acc[N] = Assign(d, row, list)
  <2>1. {} \in SUBSET DOMAIN list /\ 1 .. 0 = {} /\ 0 \in 0 .. N /\ N \in 0 .. N
    BY <1>1
  <2>2. iter[{}] = row
    BY <1>8, <2>1
  <2> QED BY <1>1, <1>9, <2>1, <2>2
<1>11. ASSUME NEW n \in 1 .. N
       PROVE  acc[n] = AssignOne(d, row, acc[n - 1], list[n])
  <2>1. n \in Nat /\ n # 0 /\ n \in 0 .. N /\ n - 1 \in 0 .. N
    BY <1>1
  <2>2. 1 .. n # {} /\ Max(1 .. n) = n /\ (1 .. n) \ {n} = 1 .. (n - 1)
    BY <2>1, Intervals
  <2>3. 1 .. n \in SUBSET DOMAIN list
    BY <1>1
  <2>4. iter[1 .. n] = AssignOne(d, row, iter[1 .. (n - 1)], list[n])
    BY <1>8, <2>2, <2>3
  <2> QED BY <2>1, <2>4
<1> HIDE DEF acc
<1> QED BY <1>10, <1>11 DEF AssignedBy

\* What an expression comes to on a row.
Evaluated(row, value) == IF value[1] = "value" THEN value[2] ELSE row[value[2]]

\* MySQL reads what it has assigned: an entry names the column of one before.
ReadsAssigned(list) ==
  \E i, j \in DOMAIN list : i < j /\ list[j].value = <<"own", list[i].column>>

\* A row with what a list says of each column, and else as it was.
GivesEach(t, row, list, after) ==
  /\ after \in RowType(t)
  /\ \A s \in ToSet(list) : after[s.column] = Evaluated(row, s.value)
  /\ \A m \in ToSet(Names(t)) : (\A s \in ToSet(list) : s.column # m) => after[m] = row[m]

\* A list of one assignment to each column, none reading what is assigned
\* where that matters, gives each its value and leaves the others.
LEMMA AssignedAsSaid ==
  ASSUME NEW t, NEW d, NEW row \in RowType(t), NEW list \in Assignments(t),
         ~Twice(list), ~(d = MySql /\ ReadsAssigned(list))
  PROVE  GivesEach(t, row, list, Assign(d, row, list))
<1>1. PICK acc : AssignedBy(d, row, list, acc)
  BY AssignSteps
<1> DEFINE N == Len(list)
           S == {n \in Nat : n <= N =>
                   /\ acc[n] \in RowType(t)
                   /\ \A i \in 1 .. n : acc[n][list[i].column] = Evaluated(row, list[i].value)
                   /\ \A m \in ToSet(Names(t)) :
                        (\A i \in 1 .. n : list[i].column # m) => acc[n][m] = row[m]}
<1>2. N \in Nat /\ DOMAIN list = 1 .. N /\ \A i \in 1 .. N : list[i] \in Assignment(t)
  BY DEF Assignments
<1>3. 0 \in S
  BY <1>1 DEF AssignedBy
<1>4. ASSUME NEW n \in Nat, n \in S PROVE n + 1 \in S
  <2> SUFFICES ASSUME n + 1 <= N
      PROVE /\ acc[n + 1] \in RowType(t)
            /\ \A i \in 1 .. (n + 1) : acc[n + 1][list[i].column] = Evaluated(row, list[i].value)
            /\ \A m \in ToSet(Names(t)) :
                 (\A i \in 1 .. (n + 1) : list[i].column # m) => acc[n + 1][m] = row[m]
    OBVIOUS
  <2> DEFINE e == list[n + 1]
             v == IF e.value[1] = "value" THEN e.value[2]
                  ELSE (IF d = MySql THEN acc[n] ELSE row)[e.value[2]]
  <2>1. /\ acc[n] \in RowType(t)
        /\ \A i \in 1 .. n : acc[n][list[i].column] = Evaluated(row, list[i].value)
        /\ \A m \in ToSet(Names(t)) :
             (\A i \in 1 .. n : list[i].column # m) => acc[n][m] = row[m]
    BY <1>4
  <2>2. n + 1 \in 1 .. N /\ (n + 1) - 1 = n /\ e \in Assignment(t)
    BY <1>2
  <2>3. acc[n + 1] = AssignOne(d, row, acc[n], e)
    BY <1>1, <2>2 DEF AssignedBy
  <2>4. acc[n + 1] \in RowType(t)
    BY <2>1, <2>2, <2>3, OneAssigned
  <2>5. \A i : i \in 1 .. (n + 1) <=> i \in 1 .. n \/ i = n + 1
    OBVIOUS
  <2>6. \A i \in 1 .. n : i \in DOMAIN list /\ i < n + 1 /\ i # n + 1
    BY <1>2
  <2>7. e.column \in ToSet(Names(t))
    BY <2>2, AssignableNamed DEF Assignment
  <2>8. \A i \in 1 .. n : list[i].column # e.column
    BY <1>2, <2>2, <2>6 DEF Twice
  <2>9. v = Evaluated(row, e.value)
    <3>1. CASE d = MySql /\ e.value[1] # "value"
      <4>1. e.value = <<"own", e.value[2]>> /\ e.value[2] \in ToSet(Names(t))
        BY <2>2, <3>1 DEF Assignment, Assigned
      <4>2. \A i \in 1 .. n : list[i].column # e.value[2]
        BY <1>2, <2>2, <2>6, <3>1, <4>1 DEF ReadsAssigned
      <4>3. acc[n][e.value[2]] = row[e.value[2]]
        BY <2>1, <4>1, <4>2
      <4> QED BY <3>1, <4>3 DEF Evaluated
    <3>2. CASE ~(d = MySql /\ e.value[1] # "value")
      BY <3>2 DEF Evaluated
    <3> QED BY <3>1, <3>2
  <2>10. acc[n + 1] = [acc[n] EXCEPT ![e.column] = v]
    BY <2>3 DEF AssignOne
  <2> HIDE DEF v, e
  <2>11. /\ acc[n + 1][e.column] = v
         /\ \A m \in ToSet(Names(t)) : m # e.column => acc[n + 1][m] = acc[n][m]
    BY <2>1, <2>7, <2>10 DEF RowType
  <2>12. ASSUME NEW i \in 1 .. n
         PROVE  acc[n + 1][list[i].column] = Evaluated(row, list[i].value)
    <3>1. list[i].column \in ToSet(Names(t))
      BY <1>2, <2>6, AssignableNamed DEF Assignment
    <3> QED BY <2>1, <2>8, <2>11, <3>1
  <2>13. ASSUME NEW m \in ToSet(Names(t)), \A i \in 1 .. (n + 1) : list[i].column # m
         PROVE  acc[n + 1][m] = row[m]
    <3>1. m # e.column /\ \A i \in 1 .. n : list[i].column # m
      BY <2>5, <2>13 DEF e
    <3> QED BY <2>1, <2>11, <3>1
  <2> QED BY <2>4, <2>5, <2>9, <2>11, <2>12, <2>13 DEF e
<1> HIDE DEF S
<1>5. N \in S
  BY <1>2, <1>3, <1>4, EveryNumber
<1>6. /\ acc[N] \in RowType(t)
      /\ \A i \in 1 .. N : acc[N][list[i].column] = Evaluated(row, list[i].value)
      /\ \A m \in ToSet(Names(t)) :
           (\A i \in 1 .. N : list[i].column # m) => acc[N][m] = row[m]
  BY <1>2, <1>5 DEF S
<1>7. acc[N] = Assign(d, row, list)
  BY <1>1 DEF AssignedBy
<1> QED BY <1>2, <1>6, <1>7 DEF ToSet, GivesEach
-----------------------------------------------------------------------------
(***************************************************************************)
(* What a server makes of the text, which it reads clause by clause.       *)
(***************************************************************************)
HeadOf(st) == IF st.kind = "update" THEN <<"SET", st.sets>> ELSE <<"DELETE", <<>>>>
Where(st) == <<"WHERE", st.wheres>>
Text(st, columnsBack) ==
  <<HeadOf(st)>> \o (IF st.wheres = <<>> THEN <<>> ELSE <<Where(st)>>)
    \o (IF columnsBack = None THEN <<>> ELSE <<<<"RETURNING", columnsBack>>>>)

\* The first two clauses of a text of one to three.
LEMMA Clauses ==
  ASSUME NEW h, NEW w, NEW r
  PROVE  /\ Len(<<h>> \o <<>> \o <<>>) = 1 /\ (<<h>> \o <<>> \o <<>>)[1] = h
         /\ Len(<<h>> \o <<>> \o <<r>>) = 2
         /\ (<<h>> \o <<>> \o <<r>>)[1] = h /\ (<<h>> \o <<>> \o <<r>>)[2] = r
         /\ Len(<<h>> \o <<w>> \o <<>>) = 2
         /\ (<<h>> \o <<w>> \o <<>>)[1] = h /\ (<<h>> \o <<w>> \o <<>>)[2] = w
         /\ Len(<<h>> \o <<w>> \o <<r>>) = 3
         /\ (<<h>> \o <<w>> \o <<r>>)[1] = h /\ (<<h>> \o <<w>> \o <<r>>)[2] = w
OBVIOUS

\* What becomes of a row: refused, kept where a filter fails, or written.
Outcome(d, st, row) ==
  IF Twice(HeadOf(st)[2]) THEN Refused
  ELSE IF \E c \in ToSet(st.wheres) : ~Holds(row, c) THEN Kept(row)
  ELSE IF HeadOf(st)[1] = "DELETE" THEN Gone
  ELSE Kept(Assign(d, row, HeadOf(st)[2]))

LEMMA RunOf ==
  ASSUME NEW d, NEW st, NEW row, NEW r
  PROVE  Run(d, row, Text(st, r)) = Outcome(d, st, row)
<1> DEFINE back == <<"RETURNING", r>>
<1>1. back[1] # "WHERE"
  OBVIOUS
<1> HIDE DEF back
<1>2. CASE st.wheres = <<>>
  <2>1. ToSet(st.wheres) = {}
    BY <1>2 DEF ToSet
  <2>2. Text(st, r) = <<HeadOf(st)>> \o <<>> \o (IF r = None THEN <<>> ELSE <<back>>)
    BY <1>2 DEF Text, back
  <2>3. /\ Text(st, r)[1] = HeadOf(st)
        /\ ~(Len(Text(st, r)) > 1) \/ Text(st, r)[2][1] # "WHERE"
    BY <1>1, <2>2, Clauses
  <2> QED BY <2>1, <2>3 DEF Run, Outcome, Twice
<1>3. CASE st.wheres # <<>>
  <2>1. Text(st, r) = <<HeadOf(st)>> \o <<Where(st)>> \o (IF r = None THEN <<>> ELSE <<back>>)
    BY <1>3 DEF Text, back
  <2>2. Text(st, r)[1] = HeadOf(st) /\ Len(Text(st, r)) > 1 /\ Text(st, r)[2] = Where(st)
    BY <2>1, Clauses
  <2>3. Text(st, r)[2][1] = "WHERE" /\ Text(st, r)[2][2] = st.wheres
    BY <2>2 DEF Where
  <2> QED BY <2>2, <2>3 DEF Run, Outcome, Twice
<1> QED BY <1>2, <1>3

LEMMA SqlIs == statement # None => ToSql = Text(statement, returning)
BY DEF ToSql, Text, HeadOf, Where

\* The row, with what was said of each column.
AsSaid(row) ==
  [n \in DOMAIN row |->
     IF n \notin AssignableNames \/ said[n] = None THEN row[n] ELSE Evaluated(row, said[n])]

LEMMA EndsAsAsked ==
  ASSUME IInv, statement # None, ~(dialect = MySql /\ ReadsWhatIsAssigned),
         NEW row \in Row(columns)
  PROVE  Outcome(dialect, statement, row) = Wanted(row)
<1>1. /\ statement \in Statement(columns) /\ asked = ToSet(statement.wheres)
      /\ columns \in Tables /\ StatementInHand
  BY DEF IInv, StatementInHand
<1>2. CASE statement.kind = "delete"
  <2>1. HeadOf(statement) = <<"DELETE", <<>>>>
    BY <1>2 DEF HeadOf
  <2>2. HeadOf(statement)[1] = "DELETE" /\ ~Twice(HeadOf(statement)[2])
    BY <2>1 DEF Twice
  <2> QED BY <1>1, <1>2, <2>2 DEF Outcome, Wanted
<1>3. CASE statement.kind = "update"
  <2> DEFINE list == statement.sets
  <2>1. /\ list \in Assignments(columns) /\ said \in Said(columns) /\ Matches(list, said)
        /\ HeadOf(statement) = <<"SET", list>>
    BY <1>1, <1>3 DEF StatementInHand, Statement, HeadOf
  <2>2. HeadOf(statement)[1] # "DELETE" /\ HeadOf(statement)[2] = list /\ ~Twice(list)
    BY <2>1 DEF Matches
  <2>3. row \in RowType(columns) /\ DOMAIN row = ToSet(Names(columns))
    BY RowIs DEF RowType
  <2>4. ~(dialect = MySql /\ ReadsAssigned(list))
    BY DEF ReadsWhatIsAssigned, ReadsAssigned
  <2> DEFINE after == Assign(dialect, row, list)
  <2>5. /\ after \in RowType(columns)
        /\ \A s \in ToSet(list) : after[s.column] = Evaluated(row, s.value)
        /\ \A m \in ToSet(Names(columns)) :
             (\A s \in ToSet(list) : s.column # m) => after[m] = row[m]
    <3>1. after = Assign(dialect, row, list)
      OBVIOUS
    <3>2. list \in Assignments(columns) /\ ~Twice(list) /\ row \in RowType(columns)
      BY <2>1, <2>2, <2>3
    <3> HIDE DEF list, after
    <3>3. GivesEach(columns, row, list, after)
      BY <2>4, <3>1, <3>2, AssignedAsSaid
    <3> QED BY <3>3 DEF GivesEach
  <2> HIDE DEF after
  <2>6. ASSUME NEW n \in DOMAIN row
        PROVE  after[n] = IF n \notin AssignableNames \/ said[n] = None THEN row[n]
                          ELSE Evaluated(row, said[n])
    <3>1. DOMAIN said = AssignableNames
      BY <2>1 DEF Said, AssignableNames
    <3>2. \A s \in ToSet(list) : s.column \in AssignableNames /\ said[s.column] # None
      BY <2>1, <3>1 DEF Matches, Set
    <3>3. CASE n \notin AssignableNames \/ said[n] = None
      BY <2>3, <2>5, <3>2, <3>3
    <3>4. CASE n \in AssignableNames /\ said[n] # None
      <4>1. Set(n, said[n]) \in ToSet(list)
        BY <2>1, <3>1, <3>4 DEF Matches
      <4>2. Set(n, said[n]).column = n /\ Set(n, said[n]).value = said[n]
        BY DEF Set
      <4> QED BY <2>5, <3>4, <4>1, <4>2
    <3> QED BY <3>3, <3>4
  <2>7. after = AsSaid(row)
    <3>1. after = [n \in DOMAIN row |-> after[n]]
      BY <2>3, <2>5 DEF RowType
    <3> QED BY <2>6, <3>1 DEF AsSaid
  <2>8. Wanted(row) = IF \E c \in asked : ~Holds(row, c) THEN Kept(row) ELSE Kept(AsSaid(row))
    BY <1>3 DEF Wanted, AsSaid, Evaluated
  <2>9. Outcome(dialect, statement, row) =
          IF \E c \in ToSet(statement.wheres) : ~Holds(row, c) THEN Kept(row) ELSE Kept(after)
    BY <2>2 DEF Outcome, after
  <2> QED BY <1>1, <2>7, <2>8, <2>9
<1> QED BY <1>1, <1>2, <1>3 DEF Statement

\* Every UPDATE and DELETE of any table leaves any row as asked: gone, or with
\* what was last said of each column, where every filter holds
\* (push_set, from_row, render_set_clause, render_delete).
THEOREM RowsEndAsAsked == Spec => []EveryRowEndsAsAsked
<1>1. IInv => EveryRowEndsAsAsked
  BY EndsAsAsked, RunOf, SqlIs DEF EveryRowEndsAsAsked
<1> QED BY <1>1, Invariance, PTL
-----------------------------------------------------------------------------
(***************************************************************************)
(* One more filter.                                                        *)
(***************************************************************************)
\* Of the steps, filter alone changes the filters of a statement.
LEMMA OnlyFilterFilters ==
  ASSUME IInv, Next, statement # None
  PROVE  \/ \E condition \in Conditions : Filter(condition)
         \/ statement'.wheres = statement.wheres
<1>1. CASE \E d \in Served, t \in Tables : Open(d, t)
  BY <1>1 DEF Open
<1>2. CASE Delete \/ Builder \/ FromRow \/ Returning \/ SetAll
  BY <1>2 DEF Delete, Builder, FromRow, Returning, SetAll
<1>3. CASE \E name \in AssignableNames :
             \/ SetNull(name)
             \/ \E arg \in Named(columns, name).values \cup {None} : SetField(name, arg)
  BY <1>3 DEF SetNull, SetField
<1>4. ASSUME NEW name \in AssignableNames, NEW value \in Expressions, SetTo(name, value)
      PROVE  statement'.wheres = statement.wheres
  <2>1. statement \in Statement(columns)
    BY DEF IInv, StatementInHand
  <2>2. statement' = [statement EXCEPT !.sets = PushSet(@, name, value)]
    BY <1>4 DEF SetTo
  <2> QED BY <2>1, <2>2 DEF Statement
<1> QED BY <1>1, <1>2, <1>3, <1>4 DEF Next

\* Of two statements that differ in filters, the one with more writes less.
LEMMA MoreFilters ==
  ASSUME NEW d, NEW st, NEW more, NEW row,
         more.kind = st.kind, more.sets = st.sets,
         ToSet(st.wheres) \subseteq ToSet(more.wheres),
         Outcome(d, more, row) # Kept(row)
  PROVE  Outcome(d, st, row) # Kept(row)
<1>1. HeadOf(more) = HeadOf(st)
  BY DEF HeadOf
<1>2. CASE Twice(HeadOf(st)[2])
  BY <1>1, <1>2 DEF Outcome
<1>3. CASE ~Twice(HeadOf(st)[2])
  <2>1. \A c \in ToSet(more.wheres) : Holds(row, c)
    BY <1>1, <1>3 DEF Outcome
  <2>2. \A c \in ToSet(st.wheres) : Holds(row, c)
    BY <2>1
  <2> QED BY <1>1, <1>3, <2>1, <2>2 DEF Outcome
<1> QED BY <1>2, <1>3

\* What a statement with one more filter writes, it writes without.
LEMMA Narrows ==
  ASSUME IInv, NEW condition \in Conditions, Filter(condition)
  PROVE  Written' \subseteq Written
<1>1. /\ statement # None
      /\ statement'.kind = statement.kind /\ statement'.sets = statement.sets
      /\ ToSet(statement'.wheres) = ToSet(statement.wheres) \cup {condition}
      /\ statement' \in Statement(columns)
      /\ dialect' = dialect /\ columns' = columns
  BY FilterAppends
<1>2. columns \in Tables
  BY <1>1 DEF IInv, StatementInHand
<1>3. statement' # None
  BY <1>1, <1>2, UpdatesAssumption
<1>4. ToSql = Text(statement, returning) /\ ToSql' = Text(statement', returning')
  BY <1>1, <1>3, SqlIs DEF ToSql, Text, HeadOf, Where
<1>5. Written = {row \in Row(columns) : Outcome(dialect, statement, row) # Kept(row)}
  BY <1>4, RunOf DEF Written
<1>6. Written' = {row \in Row(columns) : Outcome(dialect, statement', row) # Kept(row)}
  BY <1>1, <1>4, RunOf DEF Written
<1>7. ASSUME NEW row \in Row(columns), Outcome(dialect, statement', row) # Kept(row)
      PROVE  Outcome(dialect, statement, row) # Kept(row)
  BY <1>1, <1>7, MoreFilters
<1> QED BY <1>5, <1>6, <1>7

\* A filter added to an UPDATE or a DELETE, of any table, leaves out rows and
\* reaches no other, and no other call changes the filters (filter, filter_all).
THEOREM FiltersNarrow == Spec => FiltersOnlyNarrow
<1>1. IInv /\ [Next]_vars =>
        [statement # None /\ statement'.wheres # statement.wheres => Written' \subseteq Written]_vars
  <2> SUFFICES ASSUME IInv, Next, statement # None, statement'.wheres # statement.wheres
               PROVE  Written' \subseteq Written
    OBVIOUS
  <2>1. \E condition \in Conditions : Filter(condition)
    BY OnlyFilterFilters
  <2> QED BY <2>1, Narrows
<1> QED BY <1>1, Invariance, PTL DEF Spec, FiltersOnlyNarrow
=============================================================================
