----------------------------- MODULE Rows_proofs -----------------------------
(***************************************************************************)
(* Joins and Rows, for any schema, any contents, joins and lists.          *)
(*                                                                         *)
(* Joins: the scope is exact about patterns: a slot is MaybeNull if and    *)
(* only if some pattern leaves it out.  Rows follow patterns.  That a NULL *)
(* always has an Option to decode into is the two together.                *)
(*                                                                         *)
(* Rows: a list has one sequence of leaves behind both its walks, so the   *)
(* item at an index and the field at it are of one leaf; what the server   *)
(* evaluates for a leaf fits the leaf's field, by the scope's exactness    *)
(* for the Option and by the casts for the type.  Reading then only moves  *)
(* cells, and a struct finds its own whatever their order.                 *)
(***************************************************************************)
EXTENDS Rows, FoldTheorems, SequenceTheorems

\* What the steps need besides the properties: before FROM there are no joins
\* and after it some row is possible.
Shape ==
  /\ scope = <<>> => joins = <<>>
  /\ scope # <<>> => patterns # {}

\* The patterns bound the rows: what OptionOnlyWhereNeeded calls possible
\* includes everything the tables' contents show.
RowsFitPatterns ==
  \A r \in result : \E p \in patterns :
    \A i \in DOMAIN scope : p[i] = "empty" <=> r[i] = Absent

IInv == TypeOK /\ Shape /\ OptionOnlyWhereNeeded /\ RowsFitPatterns /\ CtesInScopeAreBound
-----------------------------------------------------------------------------
\* Putting a side in front of a row moves every other side one place on.
LEMMA Fronted ==
  ASSUME NEW S, NEW x \in S, NEW r \in Seq(S)
  PROVE  /\ <<x>> \o r \in Seq(S)
         /\ Len(<<x>> \o r) = Len(r) + 1
         /\ (<<x>> \o r)[1] = x
         /\ \A i \in DOMAIN r : (<<x>> \o r)[i + 1] = r[i]
<1>1. <<x>> \in Seq(S) /\ Len(<<x>>) = 1 /\ <<x>>[1] = x
  OBVIOUS
<1>2. Len(r) \in Nat /\ DOMAIN r = 1..Len(r)
  OBVIOUS
<1>3. <<x>> \o r \in Seq(S) /\ Len(<<x>> \o r) = Len(r) + 1
  BY <1>1, <1>2
<1>4. \A i \in 1..(Len(r) + 1) : (<<x>> \o r)[i] = IF i <= 1 THEN x ELSE r[i - 1]
  BY <1>1, <1>2
<1>5. (<<x>> \o r)[1] = x
  BY <1>2, <1>4
<1>6. ASSUME NEW i \in DOMAIN r
      PROVE  (<<x>> \o r)[i + 1] = r[i]
  <2>1. i + 1 \in 1..(Len(r) + 1) /\ ~(i + 1 <= 1) /\ (i + 1) - 1 = i
    BY <1>2
  <2> QED BY <2>1, <1>4
<1> QED BY <1>3, <1>5, <1>6

\* A row of a scope with one slot more is a first side and a rest.
LEMMA FirstOrLater ==
  ASSUME NEW n \in Nat, NEW i \in 1..(n + 1)
  PROVE  i = 1 \/ \E j \in 1..n : i = j + 1
<1>1. CASE i = 1
  BY <1>1
<1>2. CASE i # 1
  <2>1. i - 1 \in 1..n /\ i = (i - 1) + 1
    BY <1>2
  <2> QED BY <2>1
<1> QED BY <1>1, <1>2

\* MapNullable keeps the tables and leaves nothing NotNull.
LEMMA MapNullableFlips ==
  ASSUME TypeOK
  PROVE  /\ MapNullable(scope) \in Seq([table : Table, null : Nullability])
         /\ DOMAIN MapNullable(scope) = DOMAIN scope
         /\ \A i \in DOMAIN scope : /\ MapNullable(scope)[i].table = scope[i].table
                                    /\ MapNullable(scope)[i].null = MaybeNull
<1> DEFINE S == [table : Table, null : Nullability]
<1>1. scope \in Seq(S)
  BY DEF TypeOK
<1>2. Len(scope) \in Nat /\ DOMAIN scope = 1..Len(scope)
  BY <1>1, LenProperties
<1>3. \A i \in 1..Len(scope) : scope[i] \in S
  BY <1>1, ElementOfSeq
<1>4. \A i \in 1..Len(scope) :
        /\ [scope[i] EXCEPT !.null = MaybeNull] \in S
        /\ [scope[i] EXCEPT !.null = MaybeNull].table = scope[i].table
        /\ [scope[i] EXCEPT !.null = MaybeNull].null = MaybeNull
  BY <1>3 DEF Nullability
<1> HIDE DEF S
<1>5. MapNullable(scope) \in [1..Len(scope) -> S]
  BY <1>2, <1>4 DEF MapNullable
<1>6. MapNullable(scope) \in Seq(S)
  BY <1>2, <1>5, SeqDef
<1>7. DOMAIN MapNullable(scope) = DOMAIN scope
  BY DEF MapNullable
<1>8. \A i \in DOMAIN scope : MapNullable(scope)[i] = [scope[i] EXCEPT !.null = MaybeNull]
  BY DEF MapNullable
<1> QED BY <1>2, <1>4, <1>6, <1>7, <1>8 DEF S

\* The scope a join produces: the new slot, and the old ones a place further.
LEMMA JoinedScope ==
  ASSUME TypeOK, NEW kind \in Kind, NEW t \in Table
  PROVE  /\ Joined(kind, t) \in Seq([table : Table, null : Nullability])
         /\ Len(Joined(kind, t)) = Len(scope) + 1
         /\ Joined(kind, t)[1].table = t
         /\ Joined(kind, t)[1].null = (IF kind \in {"left", "full"} THEN MaybeNull ELSE NotNull)
         /\ \A i \in DOMAIN scope :
              /\ Joined(kind, t)[i + 1].table = scope[i].table
              /\ Joined(kind, t)[i + 1].null =
                   IF kind \in {"right", "full"} THEN MaybeNull ELSE scope[i].null
<1> DEFINE S == [table : Table, null : Nullability]
           head == Slot(t, IF kind \in {"left", "full"} THEN MaybeNull ELSE NotNull)
           tail == IF kind \in {"right", "full"} THEN MapNullable(scope) ELSE scope
<1>1. head \in S /\ head.table = t /\ head.null = (IF kind \in {"left", "full"} THEN MaybeNull ELSE NotNull)
  BY DEF Slot, Nullability
<1>2. scope \in Seq(S)
  BY DEF TypeOK
<1>3. tail \in Seq(S) /\ DOMAIN tail = DOMAIN scope
  BY <1>2, MapNullableFlips
<1>4. \A i \in DOMAIN scope :
        /\ tail[i].table = scope[i].table
        /\ tail[i].null = IF kind \in {"right", "full"} THEN MaybeNull ELSE scope[i].null
  BY MapNullableFlips
<1>5. Joined(kind, t) = <<head>> \o tail
  BY DEF Joined
<1> HIDE DEF head, tail, S
<1>6. /\ Joined(kind, t) \in Seq(S)
      /\ Len(Joined(kind, t)) = Len(tail) + 1
      /\ Joined(kind, t)[1] = head
      /\ \A i \in DOMAIN tail : Joined(kind, t)[i + 1] = tail[i]
  BY <1>1, <1>3, <1>5, Fronted
<1>7. Len(tail) = Len(scope)
  BY <1>2, <1>3, LenProperties
<1> QED BY <1>1, <1>3, <1>4, <1>6, <1>7 DEF S
-----------------------------------------------------------------------------
\* Every pattern of a join is a side for the new table in front of a pattern
\* of the scope before, or of no side filled in it; and which of these a kind
\* of join has.
LEMMA PatternsOfJoin ==
  ASSUME TypeOK, NEW kind \in Kind
  PROVE  /\ PairPatterns(kind) \subseteq Seq({"filled", "empty"})
         /\ \A q \in PairPatterns(kind) :
              /\ Len(q) = Len(scope) + 1
              /\ q[1] = "empty" => kind \in {"left", "full"}
              /\ \/ \E p \in patterns : \A i \in DOMAIN scope : q[i + 1] = p[i]
                 \/ kind \in {"right", "full"} /\ \A i \in DOMAIN scope : q[i + 1] = "empty"
         /\ \A p \in patterns : \E q \in PairPatterns(kind) :
              q[1] = "filled" /\ \A i \in DOMAIN scope : q[i + 1] = p[i]
         /\ kind \in {"left", "full"} =>
              \A p \in patterns : \E q \in PairPatterns(kind) :
                q[1] = "empty" /\ \A i \in DOMAIN scope : q[i + 1] = p[i]
         /\ kind \in {"right", "full"} =>
              \E q \in PairPatterns(kind) :
                q[1] = "filled" /\ \A i \in DOMAIN scope : q[i + 1] = "empty"
<1> DEFINE Side == {"filled", "empty"}
           none == [i \in DOMAIN scope |-> "empty"]
<1>1. Len(scope) \in Nat /\ DOMAIN scope = 1..Len(scope)
  BY DEF TypeOK
<1>2. none \in [1..Len(scope) -> Side] /\ \A i \in DOMAIN scope : none[i] = "empty"
  BY <1>1
<1>3. none \in Seq(Side) /\ DOMAIN none = DOMAIN scope
  BY <1>1, <1>2, SeqDef
<1>4. Len(none) = Len(scope)
  BY <1>1, <1>3, LenProperties
<1>5. "filled" \in Side /\ "empty" \in Side /\ "filled" # "empty"
  OBVIOUS
<1>6. PairPatterns(kind) =
        {<<"filled">> \o p : p \in patterns}
          \cup (IF kind \in {"left", "full"} THEN {<<"empty">> \o p : p \in patterns} ELSE {})
          \cup (IF kind \in {"right", "full"} THEN {<<"filled">> \o none} ELSE {})
  BY DEF PairPatterns
<1>7. \A p \in patterns : p \in Seq(Side) /\ Len(p) = Len(scope)
  BY DEF TypeOK
<1> HIDE DEF none, Side
<1>8. ASSUME NEW x \in Side, NEW p \in patterns \cup {none}
      PROVE  /\ <<x>> \o p \in Seq(Side)
             /\ Len(<<x>> \o p) = Len(scope) + 1
             /\ (<<x>> \o p)[1] = x
             /\ \A i \in DOMAIN scope : (<<x>> \o p)[i + 1] = p[i]
  <2>1. p \in Seq(Side) /\ Len(p) = Len(scope)
    BY <1>3, <1>4, <1>7
  <2>2. DOMAIN p = DOMAIN scope
    BY <2>1, <1>1, LenProperties
  <2> QED BY <2>1, <2>2, Fronted
<1>9. ASSUME NEW q \in PairPatterns(kind)
      PROVE  /\ q \in Seq(Side)
             /\ Len(q) = Len(scope) + 1
             /\ q[1] = "empty" => kind \in {"left", "full"}
             /\ \/ \E p \in patterns : \A i \in DOMAIN scope : q[i + 1] = p[i]
                \/ kind \in {"right", "full"} /\ \A i \in DOMAIN scope : q[i + 1] = "empty"
  <2>1. CASE \E p \in patterns : q = <<"filled">> \o p
    BY <2>1, <1>5, <1>8
  <2>2. CASE kind \in {"left", "full"} /\ \E p \in patterns : q = <<"empty">> \o p
    BY <2>2, <1>5, <1>8
  <2>3. CASE kind \in {"right", "full"} /\ q = <<"filled">> \o none
    BY <2>3, <1>2, <1>5, <1>8
  <2> QED BY <2>1, <2>2, <2>3, <1>6, <1>9
<1>10. ASSUME NEW p \in patterns
       PROVE  \E q \in PairPatterns(kind) :
                q[1] = "filled" /\ \A i \in DOMAIN scope : q[i + 1] = p[i]
  <2>1. <<"filled">> \o p \in PairPatterns(kind)
    BY <1>6
  <2>2. /\ (<<"filled">> \o p)[1] = "filled"
        /\ \A i \in DOMAIN scope : (<<"filled">> \o p)[i + 1] = p[i]
    BY <1>5, <1>8
  <2> QED BY <2>1, <2>2
<1>11. ASSUME kind \in {"left", "full"}, NEW p \in patterns
       PROVE  \E q \in PairPatterns(kind) :
                q[1] = "empty" /\ \A i \in DOMAIN scope : q[i + 1] = p[i]
  <2>1. <<"empty">> \o p \in PairPatterns(kind)
    BY <1>6, <1>11
  <2>2. /\ (<<"empty">> \o p)[1] = "empty"
        /\ \A i \in DOMAIN scope : (<<"empty">> \o p)[i + 1] = p[i]
    BY <1>5, <1>8
  <2> QED BY <2>1, <2>2
<1>12. ASSUME kind \in {"right", "full"}
       PROVE  \E q \in PairPatterns(kind) :
                q[1] = "filled" /\ \A i \in DOMAIN scope : q[i + 1] = "empty"
  <2>1. <<"filled">> \o none \in PairPatterns(kind)
    BY <1>6, <1>12
  <2>2. /\ (<<"filled">> \o none)[1] = "filled"
        /\ \A i \in DOMAIN scope : (<<"filled">> \o none)[i + 1] = "empty"
    BY <1>2, <1>5, <1>8
  <2> QED BY <2>1, <2>2
<1>13. PairPatterns(kind) \subseteq Seq(Side)
  BY <1>9
<1> QED BY <1>9, <1>10, <1>11, <1>12, <1>13 DEF Side

\* The same of the rows themselves.
LEMMA RowsOfJoin ==
  ASSUME JoinsAssumption, TypeOK, NEW kind \in Kind, NEW t \in Table,
         NEW match \in SUBSET (result \X stored[t])
  PROVE  /\ Pairs(kind, t, match) \subseteq Seq(RowId \cup {Absent})
         /\ \A r \in Pairs(kind, t, match) :
              /\ Len(r) = Len(scope) + 1
              /\ \/ /\ r[1] = Absent => kind \in {"left", "full"}
                    /\ \E old \in result : \A i \in DOMAIN scope : r[i + 1] = old[i]
                 \/ /\ r[1] # Absent /\ kind \in {"right", "full"}
                    /\ \A i \in DOMAIN scope : r[i + 1] = Absent
<1> DEFINE Side == RowId \cup {Absent}
           none == [i \in DOMAIN scope |-> Absent]
<1>1. Len(scope) \in Nat /\ DOMAIN scope = 1..Len(scope)
  BY DEF TypeOK
<1>2. none \in [1..Len(scope) -> Side] /\ \A i \in DOMAIN scope : none[i] = Absent
  BY <1>1
<1>3. none \in Seq(Side) /\ DOMAIN none = DOMAIN scope
  BY <1>1, <1>2, SeqDef
<1>4. Len(none) = Len(scope)
  BY <1>1, <1>3, LenProperties
<1>5. stored[t] \subseteq RowId /\ Absent \notin RowId
  BY DEF TypeOK, JoinsAssumption
<1>6. \A m \in match : m[1] \in result /\ m[2] \in stored[t]
  OBVIOUS
<1>7. Absent \in Side /\ RowId \subseteq Side
  OBVIOUS
<1>8. \A r \in result : r \in Seq(Side) /\ Len(r) = Len(scope)
  BY DEF TypeOK
<1>9. ASSUME NEW r \in Pairs(kind, t, match)
      PROVE  \/ \E m \in match : r = <<m[2]>> \o m[1]
             \/ kind \in {"left", "full"} /\ \E old \in result : r = <<Absent>> \o old
             \/ kind \in {"right", "full"} /\ \E x \in stored[t] : r = <<x>> \o none
  BY <1>9 DEF Pairs
<1> HIDE DEF none, Side
<1>10. ASSUME NEW x \in Side, NEW old \in result \cup {none}
       PROVE  /\ <<x>> \o old \in Seq(Side)
              /\ Len(<<x>> \o old) = Len(scope) + 1
              /\ (<<x>> \o old)[1] = x
              /\ \A i \in DOMAIN scope : (<<x>> \o old)[i + 1] = old[i]
  <2>1. old \in Seq(Side) /\ Len(old) = Len(scope)
    BY <1>3, <1>4, <1>8
  <2>2. DOMAIN old = DOMAIN scope
    BY <2>1, <1>1, LenProperties
  <2> QED BY <2>1, <2>2, Fronted
<1>11. ASSUME NEW r \in Pairs(kind, t, match)
       PROVE  /\ r \in Seq(Side)
              /\ Len(r) = Len(scope) + 1
              /\ \/ /\ r[1] = Absent => kind \in {"left", "full"}
                    /\ \E old \in result : \A i \in DOMAIN scope : r[i + 1] = old[i]
                 \/ /\ r[1] # Absent /\ kind \in {"right", "full"}
                    /\ \A i \in DOMAIN scope : r[i + 1] = Absent
  <2>1. CASE \E m \in match : r = <<m[2]>> \o m[1]
    <3>1. PICK m \in match : r = <<m[2]>> \o m[1]
      BY <2>1
    <3>2. m[2] \in Side /\ m[2] # Absent /\ m[1] \in result
      BY <1>5, <1>6, <1>7
    <3>3. /\ r \in Seq(Side) /\ Len(r) = Len(scope) + 1 /\ r[1] = m[2]
          /\ \A i \in DOMAIN scope : r[i + 1] = m[1][i]
      BY <3>1, <3>2, <1>10
    <3> QED BY <3>2, <3>3
  <2>2. CASE kind \in {"left", "full"} /\ \E old \in result : r = <<Absent>> \o old
    <3>1. PICK old \in result : r = <<Absent>> \o old
      BY <2>2
    <3> QED BY <3>1, <2>2, <1>7, <1>10
  <2>3. CASE kind \in {"right", "full"} /\ \E x \in stored[t] : r = <<x>> \o none
    <3>1. PICK x \in stored[t] : r = <<x>> \o none
      BY <2>3
    <3>2. x \in Side /\ x # Absent
      BY <1>5, <1>7
    <3> QED BY <3>1, <3>2, <2>3, <1>2, <1>10
  <2> QED BY <2>1, <2>2, <2>3, <1>9, <1>11
<1>12. Pairs(kind, t, match) \subseteq Seq(Side)
  BY <1>11
<1> QED BY <1>11, <1>12 DEF Side
-----------------------------------------------------------------------------
\* A source brings its own binding and no other.
LEMMA BindingGrows ==
  ASSUME TypeOK, CtesInScopeAreBound, NEW t \in Table, AttachBindingOf(t),
         {scope'[i].table : i \in DOMAIN scope'} = {t} \cup {scope[i].table : i \in DOMAIN scope}
  PROVE  CtesInScopeAreBound' /\ ctes' \in Seq(Cte)
<1> DEFINE Bound(s) == {s[k] : k \in DOMAIN s}
<1>1. ctes \in Seq(Cte)
  BY DEF TypeOK
<1>2. ctes' \in Seq(Cte) /\ Bound(ctes') = Bound(ctes) \cup ({t} \cap Cte)
  <2>1. CASE t \in Cte
    <3>1. ctes' = Append(ctes, t)
      BY <2>1 DEF AttachBindingOf
    <3>2. Len(ctes') = Len(ctes) + 1 /\ Len(ctes) \in Nat /\ ctes' \in Seq(Cte)
      BY <1>1, <2>1, <3>1
    <3>3. DOMAIN ctes' = DOMAIN ctes \cup {Len(ctes) + 1}
      BY <1>1, <3>2, LenProperties
    <3>4. ctes'[Len(ctes) + 1] = t /\ \A k \in DOMAIN ctes : ctes'[k] = ctes[k]
      BY <1>1, <2>1, <3>1
    <3> QED BY <2>1, <3>2, <3>3, <3>4
  <2>2. CASE t \notin Cte
    BY <1>1, <2>2 DEF AttachBindingOf
  <2> QED BY <2>1, <2>2
<1>3. Bound(ctes) = {scope[i].table : i \in DOMAIN scope} \cap Cte
  BY DEF CtesInScopeAreBound
<1>4. Bound(ctes') = {scope'[i].table : i \in DOMAIN scope'} \cap Cte
  BY <1>2, <1>3
<1> QED BY <1>2, <1>4 DEF CtesInScopeAreBound

\* A scope with no joins yet is the table FROM names.
LEMMA InitEstablishes == ASSUME Init PROVE IInv
<1>1. TypeOK
  BY DEF Init, TypeOK
<1>2. Shape /\ OptionOnlyWhereNeeded /\ RowsFitPatterns /\ CtesInScopeAreBound
  BY DEF Init, Shape, OptionOnlyWhereNeeded, RowsFitPatterns, CtesInScopeAreBound
<1> QED BY <1>1, <1>2 DEF IInv

LEMMA FromKeeps ==
  ASSUME JoinsAssumption, IInv, NEW t \in Table, From(t)
  PROVE  IInv'
<1>1. scope' = <<Slot(t, NotNull)>> /\ patterns' = {<<"filled">>} /\ joins' = <<>>
  BY DEF From, IInv, Shape
<1>2. scope'[1].null = NotNull /\ DOMAIN scope' = {1} /\ Len(scope') = 1 /\ Len(joins') = 0
  BY <1>1 DEF Slot
<1>3. \A x \in RowId \cup {Absent} :
        /\ <<x>> \in Seq(RowId \cup {Absent})
        /\ Len(<<x>>) = 1 /\ <<x>>[1] = x
  OBVIOUS
<1>4. \A r \in result' : \E x \in stored[t] : r = <<x>> /\ x \in RowId /\ x # Absent
  BY DEF From, IInv, TypeOK, JoinsAssumption
<1>9. CtesInScopeAreBound' /\ ctes' \in Seq(Cte)
  <2>1. {scope'[i].table : i \in DOMAIN scope'} = {t} /\ scope = <<>>
    BY <1>1, <1>2 DEF Slot, From
  <2>2. AttachBindingOf(t)
    BY DEF From
  <2> QED BY <2>1, <2>2, BindingGrows DEF IInv
<1>5. TypeOK'
  <2>1. Slot(t, NotNull) \in [table : Table, null : Nullability]
    BY DEF Slot, Nullability
  <2>2. scope' \in Seq([table : Table, null : Nullability])
    BY <2>1, <1>1
  <2>3. joins' \in Seq([kind : Kind, table : Table, on : SUBSET Table])
        /\ stored' \in [Table -> SUBSET RowId]
    BY DEF From, IInv, TypeOK
  <2>4. result' \subseteq Seq(RowId \cup {Absent}) /\ \A r \in result' : Len(r) = 1
    BY <1>3, <1>4
  <2>5. patterns' \subseteq Seq({"filled", "empty"}) /\ \A p \in patterns' : Len(p) = 1
    BY <1>1
  <2> QED BY <2>2, <2>3, <2>4, <2>5, <1>2, <1>9 DEF TypeOK
<1>6. Shape'
  BY <1>1, <1>2 DEF Shape
<1>7. OptionOnlyWhereNeeded'
  <2>1. \A p \in patterns' : p[1] = "filled"
    BY <1>1
  <2> QED BY <2>1, <1>2 DEF OptionOnlyWhereNeeded, DecodesAsOption, NotNull, MaybeNull
<1>8. RowsFitPatterns'
  <2>1. \A r \in result' : r[1] # Absent
    BY <1>3, <1>4
  <2>2. <<"filled">> \in patterns' /\ <<"filled">>[1] = "filled"
    BY <1>1
  <2> QED BY <2>1, <2>2, <1>2 DEF RowsFitPatterns
<1> QED BY <1>5, <1>6, <1>7, <1>8, <1>9 DEF IInv

\* The slots a join flips are those a pattern of it can leave out.
LEMMA JoinKeepsOption ==
  ASSUME TypeOK, Shape, OptionOnlyWhereNeeded, scope # <<>>,
         NEW kind \in Kind, NEW t \in Table,
         scope' = Joined(kind, t), patterns' = PairPatterns(kind)
  PROVE  OptionOnlyWhereNeeded'
<1>1. Len(scope) \in Nat /\ DOMAIN scope = 1..Len(scope) /\ patterns # {}
  BY DEF TypeOK, Shape
<1>2. Len(scope') = Len(scope) + 1 /\ DOMAIN scope' = 1..(Len(scope) + 1)
  BY <1>1, JoinedScope
<1>3. scope'[1].null = MaybeNull <=> \E q \in patterns' : q[1] = "empty"
  <2>1. scope'[1].null = MaybeNull <=> kind \in {"left", "full"}
    BY JoinedScope DEF NotNull, MaybeNull
  <2>2. ASSUME kind \in {"left", "full"}
        PROVE  \E q \in patterns' : q[1] = "empty"
    <3>1. PICK p \in patterns : TRUE
      BY <1>1
    <3> QED BY <3>1, <2>2, PatternsOfJoin
  <2>3. \A q \in patterns' : q[1] = "empty" => kind \in {"left", "full"}
    BY PatternsOfJoin
  <2> QED BY <2>1, <2>2, <2>3
<1>4. ASSUME NEW i \in DOMAIN scope
      PROVE  scope'[i + 1].null = MaybeNull <=> \E q \in patterns' : q[i + 1] = "empty"
  <2>1. scope[i].null = MaybeNull <=> \E p \in patterns : p[i] = "empty"
    BY DEF OptionOnlyWhereNeeded, DecodesAsOption
  <2>2. scope'[i + 1].null = IF kind \in {"right", "full"} THEN MaybeNull ELSE scope[i].null
    BY JoinedScope
  <2>3. CASE kind \in {"right", "full"}
    BY <2>2, <2>3, PatternsOfJoin
  <2>4. CASE kind \notin {"right", "full"}
    <3>1. ASSUME NEW q \in patterns', q[i + 1] = "empty"
          PROVE  \E p \in patterns : p[i] = "empty"
      BY <3>1, <2>4, PatternsOfJoin
    <3>2. ASSUME NEW p \in patterns, p[i] = "empty"
          PROVE  \E q \in patterns' : q[i + 1] = "empty"
      BY <3>2, PatternsOfJoin
    <3> QED BY <2>1, <2>2, <2>4, <3>1, <3>2
  <2> QED BY <2>3, <2>4
<1>5. ASSUME NEW i \in DOMAIN scope'
      PROVE  scope'[i].null = MaybeNull <=> \E q \in patterns' : q[i] = "empty"
  <2>1. i = 1 \/ \E j \in 1..Len(scope) : i = j + 1
    BY <1>1, <1>2, FirstOrLater
  <2> QED BY <2>1, <1>1, <1>3, <1>4
<1> QED BY <1>5 DEF OptionOnlyWhereNeeded, DecodesAsOption

\* A row of a join fits a pattern of it.
LEMMA JoinKeepsPatterns ==
  ASSUME JoinsAssumption, TypeOK, Shape, RowsFitPatterns, scope # <<>>,
         NEW kind \in Kind, NEW t \in Table, NEW match \in SUBSET (result \X stored[t]),
         scope' = Joined(kind, t), patterns' = PairPatterns(kind),
         result' = Pairs(kind, t, match)
  PROVE  RowsFitPatterns'
<1>1. Len(scope) \in Nat /\ DOMAIN scope = 1..Len(scope)
  BY DEF TypeOK
<1>2. DOMAIN scope' = 1..(Len(scope) + 1)
  BY <1>1, JoinedScope
<1>3. ASSUME NEW r \in result', NEW q \in patterns', q[1] = "empty" <=> r[1] = Absent,
             \A i \in DOMAIN scope : q[i + 1] = "empty" <=> r[i + 1] = Absent
      PROVE  \E p \in patterns' : \A i \in DOMAIN scope' : p[i] = "empty" <=> r[i] = Absent
  <2>1. ASSUME NEW i \in DOMAIN scope'
        PROVE  q[i] = "empty" <=> r[i] = Absent
    <3>1. i = 1 \/ \E j \in 1..Len(scope) : i = j + 1
      BY <1>1, <1>2, FirstOrLater
    <3> QED BY <3>1, <1>1, <1>3
  <2> QED BY <2>1
<1>4. ASSUME NEW r \in result'
      PROVE  \E q \in patterns' :
               /\ q[1] = "empty" <=> r[1] = Absent
               /\ \A i \in DOMAIN scope : q[i + 1] = "empty" <=> r[i + 1] = Absent
  <2>1. CASE /\ r[1] = Absent => kind \in {"left", "full"}
             /\ \E old \in result : \A i \in DOMAIN scope : r[i + 1] = old[i]
    <3>1. PICK old \in result : \A i \in DOMAIN scope : r[i + 1] = old[i]
      BY <2>1
    <3>2. PICK p \in patterns : \A i \in DOMAIN scope : p[i] = "empty" <=> old[i] = Absent
      BY DEF RowsFitPatterns
    <3>3. CASE r[1] = Absent
      <4>1. PICK q \in patterns' : q[1] = "empty" /\ \A i \in DOMAIN scope : q[i + 1] = p[i]
        BY <2>1, <3>3, PatternsOfJoin
      <4> QED BY <4>1, <3>1, <3>2, <3>3
    <3>4. CASE r[1] # Absent
      <4>1. PICK q \in patterns' : q[1] = "filled" /\ \A i \in DOMAIN scope : q[i + 1] = p[i]
        BY PatternsOfJoin
      <4> QED BY <4>1, <3>1, <3>2, <3>4
    <3> QED BY <3>3, <3>4
  <2>2. CASE /\ r[1] # Absent /\ kind \in {"right", "full"}
             /\ \A i \in DOMAIN scope : r[i + 1] = Absent
    <3>1. PICK q \in patterns' : q[1] = "filled" /\ \A i \in DOMAIN scope : q[i + 1] = "empty"
      BY <2>2, PatternsOfJoin
    <3> QED BY <3>1, <2>2
  <2> QED BY <2>1, <2>2, RowsOfJoin
<1>5. ASSUME NEW r \in result'
      PROVE  \E p \in patterns' : \A i \in DOMAIN scope' : p[i] = "empty" <=> r[i] = Absent
  BY <1>3, <1>4
<1> QED BY <1>5 DEF RowsFitPatterns

LEMMA JoinKeeps ==
  ASSUME JoinsAssumption, IInv, NEW t \in Table, NEW kind \in Kind, NEW on \in SUBSET Table,
         NEW match \in SUBSET (result \X stored[t]), Join(kind, t, on, match)
  PROVE  IInv'
<1>1. TypeOK /\ Shape /\ OptionOnlyWhereNeeded /\ RowsFitPatterns /\ CtesInScopeAreBound
  BY DEF IInv
<1>2. /\ scope # <<>>
      /\ scope' = Joined(kind, t)
      /\ joins' = Append(joins, [kind |-> kind, table |-> t, on |-> on])
      /\ result' = Pairs(kind, t, match)
      /\ patterns' = PairPatterns(kind)
      /\ stored' = stored
      /\ AttachBindingOf(t)
  BY DEF Join
<1>7. CtesInScopeAreBound' /\ ctes' \in Seq(Cte)
  <2>1. /\ DOMAIN scope = 1..Len(scope) /\ Len(scope) \in Nat
        /\ DOMAIN scope' = 1..(Len(scope) + 1)
    BY <1>1, <1>2, JoinedScope DEF TypeOK
  <2>2. scope'[1].table = t /\ \A i \in DOMAIN scope : scope'[i + 1].table = scope[i].table
    BY <1>1, <1>2, JoinedScope
  <2>3. \A i \in DOMAIN scope' : i = 1 \/ \E j \in DOMAIN scope : i = j + 1
    BY <2>1, FirstOrLater
  <2>4. 1 \in DOMAIN scope' /\ \A j \in DOMAIN scope : j + 1 \in DOMAIN scope'
    BY <2>1
  <2>5. {scope'[i].table : i \in DOMAIN scope'} = {t} \cup {scope[i].table : i \in DOMAIN scope}
    BY <2>2, <2>3, <2>4
  <2> QED BY <1>1, <1>2, <2>5, BindingGrows
<1>3. TypeOK'
  <2>1. scope' \in Seq([table : Table, null : Nullability]) /\ Len(scope') = Len(scope) + 1
    BY <1>1, <1>2, JoinedScope
  <2>2. joins' \in Seq([kind : Kind, table : Table, on : SUBSET Table])
        /\ Len(joins') = Len(joins) + 1
    BY <1>1, <1>2 DEF TypeOK
  <2>3. result' \subseteq Seq(RowId \cup {Absent}) /\ \A r \in result' : Len(r) = Len(scope')
    BY <1>1, <1>2, <2>1, RowsOfJoin
  <2>4. patterns' \subseteq Seq({"filled", "empty"}) /\ \A p \in patterns' : Len(p) = Len(scope')
    BY <1>1, <1>2, <2>1, PatternsOfJoin
  <2>5. stored' \in [Table -> SUBSET RowId]
    BY <1>1, <1>2 DEF TypeOK
  <2>6. Len(scope') = Len(joins') + 1
    BY <1>1, <1>2, <2>1, <2>2 DEF TypeOK
  <2> QED BY <2>1, <2>2, <2>3, <2>4, <2>5, <2>6, <1>7 DEF TypeOK
<1>4. Shape'
  <2>1. Len(scope') = Len(scope) + 1 /\ Len(scope) \in Nat
    BY <1>1, <1>2, JoinedScope DEF TypeOK
  <2>2. scope' # <<>>
    BY <2>1
  <2>3. patterns' # {}
    <3>1. PICK p \in patterns : TRUE
      BY <1>1, <1>2 DEF Shape
    <3> QED BY <3>1, <1>1, <1>2, PatternsOfJoin
  <2> QED BY <2>2, <2>3 DEF Shape
<1>5. OptionOnlyWhereNeeded'
  BY <1>1, <1>2, JoinKeepsOption
<1>6. RowsFitPatterns'
  BY <1>1, <1>2, JoinKeepsPatterns
<1> QED BY <1>3, <1>4, <1>5, <1>6, <1>7 DEF IInv

LEMMA StepKeeps == ASSUME JoinsAssumption, IInv, [Next]_vars PROVE IInv'
<1>1. ASSUME NEW t \in Table, From(t) PROVE IInv'
  BY <1>1, FromKeeps
<1>2. ASSUME NEW t \in Table, NEW kind \in Kind, NEW on \in SUBSET Table,
             NEW match \in SUBSET (result \X stored[t]), Join(kind, t, on, match)
      PROVE  IInv'
  BY <1>2, JoinKeeps
<1>3. CASE UNCHANGED vars
  <2>1. TypeOK'
    BY <1>3 DEF vars, IInv, TypeOK
  <2>2. Shape' /\ OptionOnlyWhereNeeded'
    BY <1>3 DEF vars, IInv, Shape, OptionOnlyWhereNeeded, DecodesAsOption
  <2>3. RowsFitPatterns' /\ CtesInScopeAreBound'
    BY <1>3 DEF vars, IInv, RowsFitPatterns, CtesInScopeAreBound
  <2> QED BY <2>1, <2>2, <2>3 DEF IInv
<1> QED BY <1>1, <1>2, <1>3 DEF Next

\* The scope is exact and the rows fit it in every reachable state.
THEOREM Invariance == Spec => []IInv
<1>1. Init => IInv
  BY InitEstablishes
<1>2. IInv /\ [Next]_vars => IInv'
  BY JoinsAssumption, StepKeeps
<1> QED BY <1>1, <1>2, PTL DEF Spec

\* Type correctness of the scope, the join list and the rows.
THEOREM TypeCorrect == Spec => []TypeOK
<1>1. IInv => TypeOK
  BY DEF IInv
<1> QED BY <1>1, Invariance, PTL

\* No column is an Option without a join that can leave its table out.
THEOREM OptionsAreNeeded == Spec => []OptionOnlyWhereNeeded
<1>1. IInv => OptionOnlyWhereNeeded
  BY DEF IInv
<1> QED BY <1>1, Invariance, PTL

\* A CTE in scope is one the statement binds.
THEOREM CtesBound == Spec => []CtesInScopeAreBound
<1>1. IInv => CtesInScopeAreBound
  BY DEF IInv
<1> QED BY <1>1, Invariance, PTL

\* Every row has the shape of one of the query's patterns.
THEOREM RowsFit == Spec => []RowsFitPatterns
<1>1. IInv => RowsFitPatterns
  BY DEF IInv
<1> QED BY <1>1, Invariance, PTL

\* A row that lacks a side fits a pattern that lacks it, and the scope knows
\* the pattern.
LEMMA NullsFit == IInv => NoNullWithoutOption
<1> SUFFICES ASSUME IInv, NEW r \in result, NEW i \in DOMAIN scope, r[i] = Absent,
                    NEW declared \in BOOLEAN
             PROVE  DecodesAsOption(i, declared)
  BY DEF NoNullWithoutOption
<1>1. PICK p \in patterns : p[i] = "empty"
  BY DEF IInv, RowsFitPatterns
<1> QED BY <1>1 DEF IInv, OptionOnlyWhereNeeded, DecodesAsOption

\* No NULL a join makes reaches a column that is not an Option.
THEOREM NullsHaveOptions == Spec => []NoNullWithoutOption
BY NullsFit, Invariance, PTL

\* A join never makes a nullable column of an earlier table present again.
THEOREM PresenceNeverReturns == Spec => NullabilityIsSticky
<1> DEFINE Grows == scope # <<>> /\ scope' # <<>> =>
                      /\ Len(scope') = Len(scope) + 1
                      /\ \A i \in DOMAIN scope :
                           /\ scope'[i + 1].table = scope[i].table
                           /\ scope[i].null = MaybeNull => scope'[i + 1].null = MaybeNull
<1>1. IInv /\ [Next]_vars => [Grows]_scope
  <2> SUFFICES ASSUME IInv, [Next]_vars, scope # <<>>, scope' # scope
               PROVE  Grows
    OBVIOUS
  <2>1. PICK t \in Table, kind \in Kind : scope' = Joined(kind, t)
    BY DEF Next, vars, From, Join
  <2> QED BY <2>1, JoinedScope DEF IInv
<1>2. Spec => [][Grows]_scope
  BY <1>1, Invariance, PTL DEF Spec
<1> QED BY <1>2 DEF NullabilityIsSticky
-----------------------------------------------------------------------------
(***************************************************************************)
(* Rows: what a selection list is made of.                                 *)
(***************************************************************************)
LEMMA ColumnsAre ==
  ASSUME NEW t \in Table
  PROVE  /\ Columns[t] \in Seq(ToSet(Columns[t])) /\ Len(Columns[t]) \in Nat
         /\ DOMAIN Columns[t] = 1 .. Len(Columns[t])
         /\ \A i \in DOMAIN Columns[t] : Columns[t][i].type \in Types /\ Columns[t][i].null \in BOOLEAN
<1>1. Columns[t] \in Seq(ToSet(Columns[t]))
  BY RowsAssumption DEF IsSequence
<1> QED BY <1>1, RowsAssumption

\* with! declares a field per column, and a name finds its own.
LEMMA DeclaredIs ==
  ASSUME NEW t \in Table, NEW i \in DOMAIN Columns[t]
  PROVE  /\ DOMAIN DeclaredRow(t) = DOMAIN Columns[t] /\ Len(DeclaredRow(t)) = Len(Columns[t])
         /\ DeclaredRow(t)[i] = Field(<<"column", t, Columns[t][i].name>>,
                                      Columns[t][i].type, Columns[t][i].null)
         /\ Declared(t, Columns[t][i].name) = DeclaredRow(t)[i]
         /\ DOMAIN Header(t) = DOMAIN Columns[t] /\ Header(t)[i] = Columns[t][i].name
<1>1. \A a, b, c : Last(<<a, b, c>>) = c
  BY DEF Last
<1>2. \A j \in DOMAIN Columns[t] :
        /\ DeclaredRow(t)[j] = Field(<<"column", t, Columns[t][j].name>>,
                                     Columns[t][j].type, Columns[t][j].null)
        /\ NameOf(DeclaredRow(t)[j].key) = Columns[t][j].name
  BY <1>1 DEF DeclaredRow, Field, NameOf
<1>3. DOMAIN DeclaredRow(t) = DOMAIN Columns[t] /\ Len(DeclaredRow(t)) = Len(Columns[t])
  <2>1. DOMAIN DeclaredRow(t) = 1 .. Len(Columns[t]) /\ Len(Columns[t]) \in Nat
    BY ColumnsAre DEF DeclaredRow
  <2> QED BY <2>1, ColumnsAre
<1>4. DeclaredRow(t)[i] \in ToSet(DeclaredRow(t))
  BY <1>3 DEF ToSet
<1>5. ASSUME NEW f \in ToSet(DeclaredRow(t)), NameOf(f.key) = Columns[t][i].name
      PROVE  f = DeclaredRow(t)[i]
  <2>1. PICK j \in DOMAIN Columns[t] : f = DeclaredRow(t)[j]
    BY <1>3 DEF ToSet
  <2>2. Columns[t][j].name = Columns[t][i].name
    BY <1>2, <1>5, <2>1
  <2>3. j = i
    BY <2>2, RowsAssumption
  <2> QED BY <2>1, <2>3
<1>6. Declared(t, Columns[t][i].name) = DeclaredRow(t)[i]
  BY <1>2, <1>4, <1>5 DEF Declared
<1>7. DOMAIN Header(t) = DOMAIN Columns[t] /\ Header(t)[i] = Columns[t][i].name
  BY <1>2, <1>3 DEF Header
<1> QED BY <1>2, <1>3, <1>6, <1>7

\* The leaves of a part in order.
LeafSeq(part) ==
  CASE part.part = "all"   -> AllColumns(part.table)
    [] part.part = "tuple" -> part.parts
    [] OTHER               -> <<part>>

LEMMA PartLeaves ==
  ASSUME NEW part \in Parts
  PROVE  LeafSeq(part) \in Seq(Leaf) /\ ToSet(LeafSeq(part)) = LeavesOf(part)
<1>1. IsSequence(LeafSeq(part))
  <2>1. CASE part.part = "all"
    <3>1. part.table \in Table
      BY <2>1, RowsAssumption
    <3> DEFINE all == AllColumns(part.table)
               n == Len(Columns[part.table])
    <3>2. DOMAIN all = 1 .. n /\ n \in Nat /\ all = [i \in 1 .. n |-> all[i]]
      BY <3>1, ColumnsAre DEF AllColumns
    <3> HIDE DEF all, n
    <3>3. IsSequence(all)
      BY <3>2 DEF IsSequence, ToSet
    <3>4. LeafSeq(part) = all
      BY <2>1 DEF LeafSeq, all
    <3> QED BY <3>3, <3>4
  <2>2. CASE part.part = "tuple"
    <3>1. IsSequence(part.parts)
      BY <2>2, RowsAssumption
    <3>2. LeafSeq(part) = part.parts
      BY <2>2 DEF LeafSeq
    <3> QED BY <3>1, <3>2
  <2>3. CASE part.part # "all" /\ part.part # "tuple"
    <3>1. LeafSeq(part) = <<part>>
      BY <2>3 DEF LeafSeq
    <3>2. IsSequence(<<part>>)
      BY DEF IsSequence, ToSet
    <3> QED BY <3>1, <3>2
  <2> QED BY <2>1, <2>2, <2>3
<1>2. ToSet(LeafSeq(part)) = LeavesOf(part)
  BY DEF LeafSeq, LeavesOf, ToSet
<1>3. LeavesOf(part) \subseteq Leaf
  BY DEF Leaf
<1> DEFINE ls == LeafSeq(part)
<1> HIDE DEF ls
<1>4. ls \in Seq(ToSet(ls)) /\ ToSet(ls) \subseteq Leaf
  BY <1>1, <1>2, <1>3 DEF IsSequence, ls
<1>5. ls \in Seq(Leaf)
  BY <1>4
<1> QED BY <1>2, <1>5 DEF ls

LEMMA LeavesAreLeaves ==
  ASSUME NEW l \in Leaf
  PROVE  IsLeaf(l) /\ l.part \in {"column", "aggregate", "count", "sql", "label"}
<1>1. PICK part \in Parts : l \in LeavesOf(part)
  BY DEF Leaf
<1>2. IsLeaf(l)
  <2>1. CASE part.part = "all"
    <3>1. part.table \in Table
      BY <2>1, RowsAssumption
    <3>2. PICK i \in DOMAIN Columns[part.table] : l = ColumnPart(part.table, Columns[part.table][i].name)
      BY <1>1, <2>1 DEF LeavesOf, AllColumns, ToSet
    <3>3. l.part = "column" /\ l.table = part.table /\ l.name = Columns[part.table][i].name
      BY <3>2 DEF ColumnPart
    <3> QED BY <3>1, <3>3 DEF IsLeaf, IsSelectable
  <2>2. CASE part.part = "tuple"
    BY <1>1, <2>2, RowsAssumption DEF LeavesOf, ToSet
  <2>3. CASE part.part # "all" /\ part.part # "tuple"
    BY <1>1, <2>3, RowsAssumption DEF LeavesOf
  <2> QED BY <2>1, <2>2, <2>3
<1> QED BY <1>2 DEF IsLeaf, IsSelectable

LEMMA ExpressionsAre ==
  ASSUME NEW l \in Leaf
  PROVE  IsSelectable(Expression(l)) /\ Expression(l).part \in {"column", "aggregate", "count", "sql"}
<1>1. IsSelectable(Expression(l))
  BY LeavesAreLeaves DEF IsLeaf, Expression
<1> QED BY <1>1 DEF IsSelectable

\* A column an expression reads is one its table declares.
LEMMA ReadsDeclared ==
  ASSUME NEW l \in Leaf, Expression(l).part \in {"column", "aggregate"}
  PROVE  LET e == Expression(l) IN
         /\ e.table \in Table
         /\ \E i \in DOMAIN Columns[e.table] : Columns[e.table][i].name = e.name
         /\ Declared(e.table, e.name).type \in Types
         /\ Declared(e.table, e.name).null \in BOOLEAN
         /\ e.part = "aggregate" =>
              /\ e.op \in Operator
              /\ e.op \in {"sum", "avg"} => Declared(e.table, e.name).type \in Numeric
<1> DEFINE e == Expression(l)
<1>1. IsSelectable(e)
  BY ExpressionsAre
<1>2. e.part = "column" \/ e.part = "aggregate"
  OBVIOUS
<1> HIDE DEF e
<1>3. PICK i \in DOMAIN Columns[e.table] :
        /\ e.table \in Table /\ Columns[e.table][i].name = e.name
        /\ e.part = "aggregate" => e.op \in Operator
        /\ e.part = "aggregate" /\ e.op \in {"sum", "avg"} => Columns[e.table][i].type \in Numeric
  BY <1>1, <1>2 DEF IsSelectable
<1>4. Declared(e.table, e.name) = DeclaredRow(e.table)[i]
      /\ DeclaredRow(e.table)[i] = Field(<<"column", e.table, Columns[e.table][i].name>>,
                                         Columns[e.table][i].type, Columns[e.table][i].null)
  BY <1>3, DeclaredIs
<1>5. /\ Declared(e.table, e.name).type = Columns[e.table][i].type
      /\ Declared(e.table, e.name).null = Columns[e.table][i].null
  BY <1>4 DEF Field
<1> QED BY <1>3, <1>5, ColumnsAre DEF e

FieldOf(leaf) == Field(KeyOf(leaf), ValueType(leaf).type, ValueType(leaf).null)

LEMMA FieldTyped ==
  ASSUME NEW l \in Leaf
  PROVE  FieldOf(l) \in RowField
<1> DEFINE e == Expression(l)
           c == Declared(e.table, e.name)
           at == CHOOSE p \in DOMAIN scope : scope[p].table = e.table
<1>1. KeyOf(l) \in Key
  BY DEF Key
<1>2. ValueType(l).type \in Types /\ ValueType(l).null \in BOOLEAN
  <2>1. CASE e.part = "column"
    <3>1. c.type \in Types
      BY <2>1, ReadsDeclared
    <3>2. DecodesAsOption(at, c.null) \in BOOLEAN
      BY DEF DecodesAsOption
    <3>3. ValueType(l) = [type |-> c.type, null |-> DecodesAsOption(at, c.null)]
      BY <2>1 DEF ValueType
    <3> HIDE DEF c, at
    <3> QED BY <3>1, <3>2, <3>3
  <2>2. CASE e.part = "aggregate"
    <3>1. c.type \in Types /\ e.op \in Operator
      BY <2>2, ReadsDeclared
    <3>2. ValueType(l) = [type |-> AggregateType(e.op, c.type), null |-> e.op # "count_of"]
      BY <2>2 DEF ValueType
    <3> HIDE DEF c, e
    <3>3. AggregateType(e.op, c.type) \in Types
      BY <3>1 DEF AggregateType, Operator, Types, Numeric
    <3> QED BY <3>2, <3>3
  <2>3. CASE e.part = "count"
    BY <2>3 DEF ValueType, Types, Numeric
  <2>4. CASE e.part = "sql"
    <3>1. e.type \in Types /\ e.null \in BOOLEAN
      BY <2>4, ExpressionsAre DEF IsSelectable
    <3> QED BY <2>4, <3>1 DEF ValueType
  <2> QED BY <2>1, <2>2, <2>3, <2>4, ExpressionsAre
<1> QED BY <1>1, <1>2 DEF FieldOf, Field, RowField
-----------------------------------------------------------------------------
(***************************************************************************)
(* What the folds of a selection list make of it, step by step.            *)
(***************************************************************************)
LEMMA RowConsTyped ==
  ASSUME NEW l \in Leaf, NEW tail \in Seq(RowField)
  PROVE  RowCons(l, tail) \in Seq(RowField) /\ RowCons(l, tail) = <<FieldOf(l)>> \o tail
<1>1. FieldOf(l) \in RowField
  BY FieldTyped
<1>2. RowCons(l, tail) = <<FieldOf(l)>> \o tail
  BY DEF RowCons, FieldOf
<1> HIDE DEF FieldOf
<1>3. <<FieldOf(l)>> \in Seq(RowField)
  BY <1>1
<1> QED BY <1>2, <1>3

LEMMA PushItemTyped ==
  ASSUME NEW l \in Leaf, NEW out \in Seq({Expression(k) : k \in Leaf})
  PROVE  PushItem(out, l) \in Seq({Expression(k) : k \in Leaf})
BY DEF PushItem

\* A chain of fields, from its end.
RowConsBy(ls, tail, acc) ==
  /\ acc[Len(ls) + 1] = tail /\ acc[1] = FoldRight(RowCons, ls, tail)
  /\ \A n \in 1 .. Len(ls) : acc[n] = RowCons(ls[n], acc[n + 1])

LEMMA RowConsSteps ==
  ASSUME NEW ls \in Seq(Leaf), NEW tail \in Seq(RowField)
  PROVE  \E acc : RowConsBy(ls, tail, acc)
<1> DEFINE N == Len(ls)
           T == Seq(RowField)
           step == [x \in (1 .. N) \X T |-> RowCons(ls[x[1]], x[2])]
<1>1. N \in Nat /\ DOMAIN ls = 1 .. N
  OBVIOUS
<1>2. ASSUME NEW i \in 1 .. N, NEW out \in T PROVE RowCons(ls[i], out) \in T
  <2>1. ls[i] \in Leaf
    BY <1>1
  <2> QED BY <2>1, RowConsTyped
<1>3. tail \in T
  OBVIOUS
<1> HIDE DEF N, T
<1>4. FoldsRight(N, T, tail, step)
  <2>1. step \in [(1 .. N) \X T -> T]
    BY <1>2
  <2> HIDE DEF step
  <2> QED BY <1>1, <1>3, <2>1, FoldRightExists
<1>5. PICK it \in [SUBSET (1 .. N) -> T] : FoldedRight(it, N, tail, step)
  BY <1>4 DEF FoldsRight
<1>6. ASSUME NEW s \in SUBSET DOMAIN ls
      PROVE  it[s] = IF s = {} THEN tail ELSE RowCons(ls[Min(s)], it[s \ {Min(s)}])
  <2>1. CASE s = {}
    BY <1>1, <1>5, <2>1 DEF FoldedRight
  <2>2. CASE s # {}
    <3>1. Min(s) \in 1 .. N /\ s \ {Min(s)} \in SUBSET (1 .. N)
      BY <1>1, <2>2, Smallest
    <3>2. it[s] = step[<<Min(s), it[s \ {Min(s)}]>>]
      BY <1>1, <1>5, <2>2 DEF FoldedRight
    <3>3. it[s \ {Min(s)}] \in T
      BY <1>5, <3>1
    <3>4. <<Min(s), it[s \ {Min(s)}]>> \in (1 .. N) \X T
      BY <3>1, <3>3
    <3> QED BY <2>2, <3>2, <3>4
  <2> QED BY <2>1, <2>2
<1> HIDE DEF step
<1> DEFINE iter == CHOOSE iter : iter = [s \in SUBSET DOMAIN ls |->
           IF s = {} THEN tail ELSE RowCons(ls[Min(s)], iter[s \ {Min(s)}])]
<1>7. it = [s \in SUBSET DOMAIN ls |->
           IF s = {} THEN tail ELSE RowCons(ls[Min(s)], it[s \ {Min(s)}])]
  <2>1. it = [s \in SUBSET DOMAIN ls |-> it[s]]
    BY <1>1, <1>5
  <2> QED BY <1>6, <2>1
<1>8. iter = [s \in SUBSET DOMAIN ls |->
           IF s = {} THEN tail ELSE RowCons(ls[Min(s)], iter[s \ {Min(s)}])]
  BY <1>7
<1>9. FoldRight(RowCons, ls, tail) = iter[DOMAIN ls]
  BY Zenon DEF FoldRight, MapThenFoldSet
<1> HIDE DEF iter
<1> DEFINE acc == [n \in 1 .. (N + 1) |-> iter[n .. N]]
<1>10. acc[N + 1] = tail /\ acc[1] = FoldRight(RowCons, ls, tail)
  <2>1. {} \in SUBSET DOMAIN ls /\ (N + 1) .. N = {} /\ N + 1 \in 1 .. (N + 1) /\ 1 \in 1 .. (N + 1)
    BY <1>1
  <2>2. iter[{}] = tail
    BY <1>8, <2>1
  <2> QED BY <1>1, <1>9, <2>1, <2>2
<1>11. ASSUME NEW n \in 1 .. N
       PROVE  acc[n] = RowCons(ls[n], acc[n + 1])
  <2>1. n \in 1 .. (N + 1) /\ n + 1 \in 1 .. (N + 1)
    BY <1>1
  <2>2. /\ n .. N # {} /\ n .. N \in SUBSET DOMAIN ls
        /\ Min(n .. N) = n /\ (n .. N) \ {n} = (n + 1) .. N
    BY <1>1, Remainders
  <2>3. iter[n .. N] = RowCons(ls[n], iter[(n + 1) .. N])
    BY <1>8, <2>2
  <2> QED BY <2>1, <2>3
<1> QED BY <1>10, <1>11 DEF RowConsBy, N
\* The items of a part, from the first.
PushItemBy(ls, items, acc) ==
  /\ acc[0] = items /\ acc[Len(ls)] = FoldLeft(PushItem, items, ls)
  /\ \A n \in 1 .. Len(ls) : acc[n] = PushItem(acc[n - 1], ls[n])

LEMMA PushItemSteps ==
  ASSUME NEW ls \in Seq(Leaf), NEW items \in Seq({Expression(k) : k \in Leaf})
  PROVE  \E acc : PushItemBy(ls, items, acc)
<1> DEFINE N == Len(ls)
           T == Seq({Expression(k) : k \in Leaf})
           step == [x \in (1 .. N) \X T |-> PushItem(x[2], ls[x[1]])]
<1>1. N \in Nat /\ DOMAIN ls = 1 .. N
  OBVIOUS
<1>2. ASSUME NEW i \in 1 .. N, NEW out \in T PROVE PushItem(out, ls[i]) \in T
  BY PushItemTyped
<1>3. items \in T
  OBVIOUS
<1> HIDE DEF N, T
<1>4. Folds(N, T, items, step)
  <2>1. step \in [(1 .. N) \X T -> T]
    BY <1>2
  <2> HIDE DEF step
  <2> QED BY <1>1, <1>3, <2>1, FoldExists
<1>5. PICK it \in [SUBSET (1 .. N) -> T] : Folded(it, N, items, step)
  BY <1>4 DEF Folds
<1>6. ASSUME NEW s \in SUBSET DOMAIN ls
      PROVE  it[s] = IF s = {} THEN items ELSE PushItem(it[s \ {Max(s)}], ls[Max(s)])
  <2>1. CASE s = {}
    BY <1>1, <1>5, <2>1 DEF Folded
  <2>2. CASE s # {}
    <3>1. Max(s) \in 1 .. N /\ s \ {Max(s)} \in SUBSET (1 .. N)
      BY <1>1, <2>2, Greatest
    <3>2. it[s] = step[<<Max(s), it[s \ {Max(s)}]>>]
      BY <1>1, <1>5, <2>2 DEF Folded
    <3>3. it[s \ {Max(s)}] \in T
      BY <1>5, <3>1
    <3>4. <<Max(s), it[s \ {Max(s)}]>> \in (1 .. N) \X T
      BY <3>1, <3>3
    <3> QED BY <2>2, <3>2, <3>4
  <2> QED BY <2>1, <2>2
<1> HIDE DEF step
<1> DEFINE iter == CHOOSE iter : iter = [s \in SUBSET DOMAIN ls |->
           IF s = {} THEN items ELSE PushItem(iter[s \ {Max(s)}], ls[Max(s)])]
<1>7. it = [s \in SUBSET DOMAIN ls |->
           IF s = {} THEN items ELSE PushItem(it[s \ {Max(s)}], ls[Max(s)])]
  <2>1. it = [s \in SUBSET DOMAIN ls |-> it[s]]
    BY <1>1, <1>5
  <2> QED BY <1>6, <2>1
<1>8. iter = [s \in SUBSET DOMAIN ls |->
           IF s = {} THEN items ELSE PushItem(iter[s \ {Max(s)}], ls[Max(s)])]
  BY <1>7
<1>9. FoldLeft(PushItem, items, ls) = iter[DOMAIN ls]
  BY Zenon DEF FoldLeft, MapThenFoldSet
<1> HIDE DEF iter
<1> DEFINE acc == [n \in 0 .. N |-> iter[1 .. n]]
<1>10. acc[0] = items /\ acc[N] = FoldLeft(PushItem, items, ls)
  <2>1. {} \in SUBSET DOMAIN ls /\ 1 .. 0 = {} /\ 0 \in 0 .. N /\ N \in 0 .. N
    BY <1>1
  <2>2. iter[{}] = items
    BY <1>8, <2>1
  <2> QED BY <1>1, <1>9, <2>1, <2>2
<1>11. ASSUME NEW n \in 1 .. N
       PROVE  acc[n] = PushItem(acc[n - 1], ls[n])
  <2>1. n \in Nat /\ n # 0 /\ n \in 0 .. N /\ n - 1 \in 0 .. N
    BY <1>1
  <2>2. 1 .. n # {} /\ Max(1 .. n) = n /\ (1 .. n) \ {n} = 1 .. (n - 1)
    BY <2>1, Intervals
  <2>3. 1 .. n \in SUBSET DOMAIN ls
    BY <1>1
  <2>4. iter[1 .. n] = PushItem(iter[1 .. (n - 1)], ls[n])
    BY <1>8, <2>2, <2>3
  <2> QED BY <2>1, <2>4
<1> QED BY <1>10, <1>11 DEF PushItemBy, N
FieldsOf(ls) == [i \in DOMAIN ls |-> FieldOf(ls[i])]
ItemsOf(ls) == [i \in DOMAIN ls |-> Expression(ls[i])]

LEMMA FieldsOfTyped ==
  ASSUME NEW ls \in Seq(Leaf)
  PROVE  /\ FieldsOf(ls) \in Seq(RowField) /\ Len(FieldsOf(ls)) = Len(ls)
         /\ ItemsOf(ls) \in Seq({Expression(k) : k \in Leaf}) /\ Len(ItemsOf(ls)) = Len(ls)
<1>1. DOMAIN ls = 1 .. Len(ls) /\ Len(ls) \in Nat /\ \A i \in DOMAIN ls : ls[i] \in Leaf
  OBVIOUS
<1>2. \A i \in DOMAIN ls : FieldOf(ls[i]) \in RowField /\ Expression(ls[i]) \in {Expression(k) : k \in Leaf}
  BY <1>1, FieldTyped
<1> QED BY <1>1, <1>2 DEF FieldsOf, ItemsOf

\* What it takes to be a concatenation.
LEMMA ConcatIs ==
  ASSUME NEW T, NEW fa \in Seq(T), NEW fb \in Seq(T), NEW fc \in Seq(T),
         NEW m \in Nat, NEW n \in Nat, Len(fa) = m, Len(fb) = n, Len(fc) = m + n,
         \A i \in 1 .. m : fc[i] = fa[i],
         \A i \in 1 .. n : fc[m + i] = fb[i]
  PROVE  fc = fa \o fb
<1>1. fa \o fb \in Seq(T) /\ Len(fa \o fb) = m + n
  OBVIOUS
<1>2. ASSUME NEW i \in 1 .. (m + n) PROVE fc[i] = (fa \o fb)[i]
  <2>1. CASE i \in 1 .. m
    BY <2>1
  <2>2. CASE i \notin 1 .. m
    <3>1. i - m \in 1 .. n /\ i = m + (i - m)
      BY <2>2
    <3>2. (fa \o fb)[m + (i - m)] = fb[i - m]
      BY <3>1, SMTT(30)
    <3> QED BY <3>1, <3>2
  <2> QED BY <2>1, <2>2
<1> QED BY <1>1, <1>2, SeqEqual

\* One list after another.
LEMMA OneAfterAnother ==
  ASSUME NEW a \in Seq(Leaf), NEW b \in Seq(Leaf)
  PROVE  /\ a \o b \in Seq(Leaf) /\ ToSet(a \o b) = ToSet(a) \cup ToSet(b)
         /\ FieldsOf(a \o b) = FieldsOf(a) \o FieldsOf(b)
         /\ ItemsOf(a \o b) = ItemsOf(a) \o ItemsOf(b)
<1> DEFINE c == a \o b
           m == Len(a)
           n == Len(b)
<1>1. /\ c \in Seq(Leaf) /\ m \in Nat /\ n \in Nat /\ Len(c) = m + n
      /\ DOMAIN a = 1 .. m /\ DOMAIN b = 1 .. n /\ DOMAIN c = 1 .. (m + n)
      /\ \A i \in 1 .. m : c[i] = a[i]
      /\ \A i \in 1 .. n : c[m + i] = b[i]
  OBVIOUS
<1> HIDE DEF c, m, n
<1>2. \A i \in 1 .. (m + n) : i \in 1 .. m \/ \E j \in 1 .. n : i = m + j
  <2> SUFFICES ASSUME NEW i \in 1 .. (m + n), i \notin 1 .. m
               PROVE  \E j \in 1 .. n : i = m + j
    OBVIOUS
  <2>1. i - m \in 1 .. n /\ i = m + (i - m)
    BY <1>1
  <2> QED BY <2>1
<1>3. ToSet(c) = ToSet(a) \cup ToSet(b)
  <2>1. ASSUME NEW i \in DOMAIN c PROVE c[i] \in ToSet(a) \cup ToSet(b)
    <3>1. CASE i \in 1 .. m
      BY <1>1, <3>1 DEF ToSet
    <3>2. CASE i \notin 1 .. m
      <4>1. PICK j \in 1 .. n : i = m + j
        BY <1>1, <1>2, <3>2
      <4>2. c[i] = b[j] /\ j \in DOMAIN b
        BY <1>1, <4>1
      <4> QED BY <4>2 DEF ToSet
    <3> QED BY <3>1, <3>2
  <2>2. \A i \in DOMAIN a : i \in DOMAIN c /\ a[i] = c[i]
    BY <1>1
  <2>3. \A i \in DOMAIN b : m + i \in DOMAIN c /\ b[i] = c[m + i]
    BY <1>1
  <2> QED BY <2>1, <2>2, <2>3 DEF ToSet
<1>4. FieldsOf(c) = FieldsOf(a) \o FieldsOf(b)
  <2>1. /\ FieldsOf(a) \in Seq(RowField) /\ Len(FieldsOf(a)) = m
        /\ FieldsOf(b) \in Seq(RowField) /\ Len(FieldsOf(b)) = n
        /\ FieldsOf(c) \in Seq(RowField) /\ Len(FieldsOf(c)) = m + n
    BY <1>1, FieldsOfTyped DEF m, n
  <2>2. /\ \A i \in 1 .. m : FieldsOf(c)[i] = FieldsOf(a)[i]
        /\ \A i \in 1 .. n : FieldsOf(c)[m + i] = FieldsOf(b)[i]
    BY <1>1 DEF FieldsOf
  <2> QED BY <1>1, <2>1, <2>2, ConcatIs, ZenonT(40)
<1>5. ItemsOf(c) = ItemsOf(a) \o ItemsOf(b)
  <2> DEFINE T == {Expression(k) : k \in Leaf}
  <2>1. /\ ItemsOf(a) \in Seq(T) /\ Len(ItemsOf(a)) = m
        /\ ItemsOf(b) \in Seq(T) /\ Len(ItemsOf(b)) = n
        /\ ItemsOf(c) \in Seq(T) /\ Len(ItemsOf(c)) = m + n
    BY <1>1, FieldsOfTyped DEF m, n
  <2>2. /\ \A i \in 1 .. m : ItemsOf(c)[i] = ItemsOf(a)[i]
        /\ \A i \in 1 .. n : ItemsOf(c)[m + i] = ItemsOf(b)[i]
    BY <1>1 DEF ItemsOf
  <2> HIDE DEF T
  <2> QED BY <1>1, <2>1, <2>2, ConcatIs, ZenonT(40)
<1> QED BY <1>1, <1>3, <1>4, <1>5 DEF c
-----------------------------------------------------------------------------
Expressions == {Expression(k) : k \in Leaf}

LEMMA OneLeaf ==
  ASSUME NEW l \in Leaf
  PROVE  /\ <<l>> \in Seq(Leaf) /\ ToSet(<<l>>) = {l}
         /\ FieldsOf(<<l>>) = <<FieldOf(l)>> /\ ItemsOf(<<l>>) = <<Expression(l)>>
<1>1. <<l>> \in Seq(Leaf) /\ DOMAIN <<l>> = {1} /\ <<l>>[1] = l
  OBVIOUS
<1>2. ToSet(<<l>>) = {l}
  BY <1>1 DEF ToSet
<1>3. FieldsOf(<<l>>) = <<FieldOf(l)>>
  BY <1>1 DEF FieldsOf
<1>4. ItemsOf(<<l>>) = <<Expression(l)>>
  BY <1>1 DEF ItemsOf
<1> QED BY <1>1, <1>2, <1>3, <1>4

LEMMA NoLeaf ==
  <<>> \in Seq(Leaf) /\ ToSet(<<>>) = {} /\ FieldsOf(<<>>) = <<>> /\ ItemsOf(<<>>) = <<>>
BY DEF ToSet, FieldsOf, ItemsOf

\* All and a tuple are the chain of their leaves, and their items.
LEMMA ChainOf ==
  ASSUME NEW ls \in Seq(Leaf), NEW tail \in Seq(RowField)
  PROVE  FoldRight(RowCons, ls, tail) = FieldsOf(ls) \o tail
<1>1. PICK acc : RowConsBy(ls, tail, acc)
  BY RowConsSteps
<1> DEFINE N == Len(ls)
           Rest(m) == SubSeq(ls, m, N)
           S == {m \in 1 .. (N + 1) : acc[m] = FieldsOf(Rest(m)) \o tail}
<1>2. N \in Nat /\ \A i \in 1 .. N : ls[i] \in Leaf
  OBVIOUS
<1>3. \A m \in 1 .. (N + 1) : Rest(m) \in Seq(Leaf)
  BY <1>2, SubSeqProperties
<1>4. N + 1 \in S
  <2>1. Rest(N + 1) = <<>>
    BY <1>2, SubSeqEmpty
  <2>2. acc[N + 1] = tail
    BY <1>1 DEF RowConsBy
  <2>3. <<>> \o tail = tail
    OBVIOUS
  <2>4. N + 1 \in 1 .. (N + 1)
    BY <1>2
  <2> HIDE DEF Rest, N
  <2> QED BY <2>1, <2>2, <2>3, <2>4, NoLeaf
<1>5. ASSUME NEW m \in 1 .. N, m + 1 \in S PROVE m \in S
  <2> DEFINE l == ls[m]
             r == Rest(m + 1)
  <2>1. l \in Leaf /\ r \in Seq(Leaf) /\ m + 1 \in 1 .. (N + 1)
    BY <1>2, <1>3
  <2>2. Rest(m) = <<l>> \o r
    BY <1>2, SubSeqRecursiveFirst
  <2>3. acc[m] = RowCons(l, FieldsOf(r) \o tail)
    BY <1>1, <1>5 DEF RowConsBy
  <2> HIDE DEF l, r, Rest
  <2>4. FieldsOf(r) \in Seq(RowField) /\ FieldsOf(r) \o tail \in Seq(RowField)
    <3>1. FieldsOf(r) \in Seq(RowField)
      BY <2>1, FieldsOfTyped
    <3> QED BY <3>1, ConcatProperties
  <2>5. acc[m] = <<FieldOf(l)>> \o (FieldsOf(r) \o tail)
    BY <2>1, <2>3, <2>4, RowConsTyped
  <2>6. FieldsOf(Rest(m)) = <<FieldOf(l)>> \o FieldsOf(r)
    <3>1. <<l>> \in Seq(Leaf) /\ FieldsOf(<<l>>) = <<FieldOf(l)>>
      BY <2>1, OneLeaf
    <3>2. FieldsOf(<<l>> \o r) = FieldsOf(<<l>>) \o FieldsOf(r)
      BY <2>1, <3>1, OneAfterAnother
    <3> QED BY <2>2, <3>1, <3>2
  <2>7. <<FieldOf(l)>> \in Seq(RowField)
    BY <2>1, FieldTyped
  <2>8. (<<FieldOf(l)>> \o FieldsOf(r)) \o tail = <<FieldOf(l)>> \o (FieldsOf(r) \o tail)
    BY <2>4, <2>7, ConcatAssociative
  <2>9. m \in 1 .. (N + 1)
    BY <1>2
  <2> HIDE DEF N
  <2> QED BY <2>5, <2>6, <2>8, <2>9
<1> HIDE DEF S
<1>6. 1 \in S
  <2>1. 1 .. (N + 1) \subseteq S
    BY <1>2, <1>4, <1>5, Downwards
  <2>2. 1 \in 1 .. (N + 1)
    BY <1>2
  <2> QED BY <2>1, <2>2
<1>7. Rest(1) = ls
  BY SubSeqFull
<1> QED BY <1>1, <1>6, <1>7 DEF S, RowConsBy

LEMMA PushedOf ==
  ASSUME NEW ls \in Seq(Leaf), NEW items \in Seq(Expressions)
  PROVE  FoldLeft(PushItem, items, ls) = items \o ItemsOf(ls)
<1>1. PICK acc : PushItemBy(ls, items, acc)
  BY PushItemSteps DEF Expressions
<1> DEFINE N == Len(ls)
           First(n) == SubSeq(ls, 1, n)
           S == {n \in 0 .. N : acc[n] = items \o ItemsOf(First(n))}
<1>2. N \in Nat /\ \A i \in 1 .. N : ls[i] \in Leaf
  OBVIOUS
<1>3. \A n \in 0 .. N : First(n) \in Seq(Leaf)
  BY <1>2, SubSeqProperties
<1>4. 0 \in S
  <2>1. First(0) = <<>>
    BY SubSeqEmpty
  <2>2. acc[0] = items
    BY <1>1 DEF PushItemBy
  <2>3. items \o <<>> = items
    OBVIOUS
  <2>4. 0 \in 0 .. N
    BY <1>2
  <2> HIDE DEF First, N
  <2> QED BY <2>1, <2>2, <2>3, <2>4, NoLeaf
<1>5. ASSUME NEW n \in 1 .. N, n - 1 \in S PROVE n \in S
  <2> DEFINE l == ls[n]
             r == First(n - 1)
  <2>1. l \in Leaf /\ r \in Seq(Leaf) /\ n - 1 \in 0 .. N /\ n \in 0 .. N
    BY <1>2, <1>3
  <2>2. First(n) = r \o <<l>>
    BY <1>2, SubSeqRecursiveSecond
  <2>3. acc[n] = PushItem(items \o ItemsOf(r), l)
    BY <1>1, <1>5 DEF PushItemBy
  <2> HIDE DEF l, r, First
  <2>4. ItemsOf(r) \in Seq(Expressions) /\ items \o ItemsOf(r) \in Seq(Expressions)
    BY <2>1, FieldsOfTyped DEF Expressions
  <2>5. Expression(l) \in Expressions /\ <<Expression(l)>> \in Seq(Expressions)
    BY <2>1 DEF Expressions
  <2>6. acc[n] = (items \o ItemsOf(r)) \o <<Expression(l)>>
    BY <2>3, <2>4, <2>5, AppendIsConcat DEF PushItem
  <2>7. ItemsOf(First(n)) = ItemsOf(r) \o <<Expression(l)>>
    BY <2>1, <2>2, OneLeaf, OneAfterAnother, ZenonT(40)
  <2>8. (items \o ItemsOf(r)) \o <<Expression(l)>> = items \o (ItemsOf(r) \o <<Expression(l)>>)
    BY <2>4, <2>5, ConcatAssociative
  <2> QED BY <2>1, <2>6, <2>7, <2>8
<1> HIDE DEF S
<1>6. N \in S
  <2>1. 0 .. N \subseteq S
    BY <1>2, <1>4, <1>5, Upwards
  <2>2. N \in 0 .. N
    BY <1>2
  <2> QED BY <2>1, <2>2
<1>7. First(N) = ls
  BY SubSeqFull
<1> QED BY <1>1, <1>6, <1>7 DEF S, PushItemBy

LEMMA PartFieldsAre ==
  ASSUME NEW part \in Parts, NEW tail \in Seq(RowField)
  PROVE  /\ PartFields(part, tail) = FieldsOf(LeafSeq(part)) \o tail
         /\ PartFields(part, tail) \in Seq(RowField)
<1>1. LeafSeq(part) \in Seq(Leaf)
  BY PartLeaves
<1>2. PartFields(part, tail) = FieldsOf(LeafSeq(part)) \o tail
  <2>1. CASE part.part \in {"all", "tuple"}
    <3>1. PartFields(part, tail) = FoldRight(RowCons, LeafSeq(part), tail)
      BY <2>1, Zenon DEF PartFields, LeafSeq
    <3> QED BY <1>1, <3>1, ChainOf
  <2>2. CASE part.part \notin {"all", "tuple"}
    <3>1. LeafSeq(part) = <<part>> /\ PartFields(part, tail) = RowCons(part, tail)
      BY <2>2 DEF PartFields, LeafSeq
    <3>2. part \in Leaf
      BY <2>2 DEF Leaf, LeavesOf
    <3> QED BY <3>1, <3>2, OneLeaf, RowConsTyped
  <2> QED BY <2>1, <2>2
<1>3. FieldsOf(LeafSeq(part)) \in Seq(RowField)
  BY <1>1, FieldsOfTyped
<1> QED BY <1>2, <1>3, ConcatProperties

LEMMA PushItemsAre ==
  ASSUME NEW part \in Parts, NEW items \in Seq(Expressions)
  PROVE  /\ PushItems(items, part) = items \o ItemsOf(LeafSeq(part))
         /\ PushItems(items, part) \in Seq(Expressions)
<1>1. LeafSeq(part) \in Seq(Leaf)
  BY PartLeaves
<1>2. PushItems(items, part) = items \o ItemsOf(LeafSeq(part))
  <2>1. CASE part.part \in {"all", "tuple"}
    <3>1. PushItems(items, part) = FoldLeft(PushItem, items, LeafSeq(part))
      BY <2>1, Zenon DEF PushItems, LeafSeq
    <3> QED BY <1>1, <3>1, PushedOf
  <2>2. CASE part.part \notin {"all", "tuple"}
    <3>1. LeafSeq(part) = <<part>> /\ PushItems(items, part) = PushItem(items, part)
      BY <2>2 DEF PushItems, LeafSeq
    <3>2. part \in Leaf
      BY <2>2 DEF Leaf, LeavesOf
    <3>3. Expression(part) \in Expressions
      BY <3>2 DEF Expressions
    <3>4. Append(items, Expression(part)) = items \o <<Expression(part)>>
      BY <3>3, AppendIsConcat
    <3> QED BY <3>1, <3>2, <3>4, OneLeaf DEF PushItem
  <2> QED BY <2>1, <2>2
<1>3. ItemsOf(LeafSeq(part)) \in Seq(Expressions)
  BY <1>1, FieldsOfTyped DEF Expressions
<1> QED BY <1>2, <1>3, ConcatProperties

\* The type of a list, from its end.
FieldsBy(list, acc) ==
  /\ acc[Len(list) + 1] = <<>> /\ acc[1] = Fields(list)
  /\ \A n \in 1 .. Len(list) : acc[n] = PartFields(list[n], acc[n + 1])

LEMMA FieldsSteps ==
  ASSUME NEW list \in Seq(Parts)
  PROVE  \E acc : FieldsBy(list, acc)
<1> DEFINE N == Len(list)
           T == Seq(RowField)
           step == [x \in (1 .. N) \X T |-> PartFields(list[x[1]], x[2])]
<1>1. N \in Nat /\ DOMAIN list = 1 .. N
  OBVIOUS
<1>2. ASSUME NEW i \in 1 .. N, NEW out \in T PROVE PartFields(list[i], out) \in T
  <2>1. list[i] \in Parts
    BY <1>1
  <2> QED BY <2>1, PartFieldsAre
<1>3. <<>> \in T
  OBVIOUS
<1> HIDE DEF N, T
<1>4. FoldsRight(N, T, <<>>, step)
  <2>1. step \in [(1 .. N) \X T -> T]
    BY <1>2
  <2> HIDE DEF step
  <2> QED BY <1>1, <1>3, <2>1, FoldRightExists
<1>5. PICK it \in [SUBSET (1 .. N) -> T] : FoldedRight(it, N, <<>>, step)
  BY <1>4 DEF FoldsRight
<1>6. ASSUME NEW s \in SUBSET DOMAIN list
      PROVE  it[s] = IF s = {} THEN <<>> ELSE PartFields(list[Min(s)], it[s \ {Min(s)}])
  <2>1. CASE s = {}
    BY <1>1, <1>5, <2>1 DEF FoldedRight
  <2>2. CASE s # {}
    <3>1. Min(s) \in 1 .. N /\ s \ {Min(s)} \in SUBSET (1 .. N)
      BY <1>1, <2>2, Smallest
    <3>2. it[s] = step[<<Min(s), it[s \ {Min(s)}]>>]
      BY <1>1, <1>5, <2>2 DEF FoldedRight
    <3>3. it[s \ {Min(s)}] \in T
      BY <1>5, <3>1
    <3>4. <<Min(s), it[s \ {Min(s)}]>> \in (1 .. N) \X T
      BY <3>1, <3>3
    <3> QED BY <2>2, <3>2, <3>4
  <2> QED BY <2>1, <2>2
<1> HIDE DEF step
<1> DEFINE iter == CHOOSE iter : iter = [s \in SUBSET DOMAIN list |->
           IF s = {} THEN <<>> ELSE PartFields(list[Min(s)], iter[s \ {Min(s)}])]
<1>7. it = [s \in SUBSET DOMAIN list |->
           IF s = {} THEN <<>> ELSE PartFields(list[Min(s)], it[s \ {Min(s)}])]
  <2>1. it = [s \in SUBSET DOMAIN list |-> it[s]]
    BY <1>1, <1>5
  <2> QED BY <1>6, <2>1
<1>8. iter = [s \in SUBSET DOMAIN list |->
           IF s = {} THEN <<>> ELSE PartFields(list[Min(s)], iter[s \ {Min(s)}])]
  BY <1>7
<1>9. Fields(list) = iter[DOMAIN list]
  BY Zenon DEF FoldRight, MapThenFoldSet, Fields
<1> HIDE DEF iter
<1> DEFINE acc == [n \in 1 .. (N + 1) |-> iter[n .. N]]
<1>10. acc[N + 1] = <<>> /\ acc[1] = Fields(list)
  <2>1. {} \in SUBSET DOMAIN list /\ (N + 1) .. N = {} /\ N + 1 \in 1 .. (N + 1) /\ 1 \in 1 .. (N + 1)
    BY <1>1
  <2>2. iter[{}] = <<>>
    BY <1>8, <2>1
  <2> QED BY <1>1, <1>9, <2>1, <2>2
<1>11. ASSUME NEW n \in 1 .. N
       PROVE  acc[n] = PartFields(list[n], acc[n + 1])
  <2>1. n \in 1 .. (N + 1) /\ n + 1 \in 1 .. (N + 1)
    BY <1>1
  <2>2. /\ n .. N # {} /\ n .. N \in SUBSET DOMAIN list
        /\ Min(n .. N) = n /\ (n .. N) \ {n} = (n + 1) .. N
    BY <1>1, Remainders
  <2>3. iter[n .. N] = PartFields(list[n], iter[(n + 1) .. N])
    BY <1>8, <2>2
  <2> QED BY <2>1, <2>3
<1> QED BY <1>10, <1>11 DEF FieldsBy, N
\* The items of a list, from the first.
ItemsBy(list, acc) ==
  /\ acc[0] = <<>> /\ acc[Len(list)] = Items(list)
  /\ \A n \in 1 .. Len(list) : acc[n] = PushItems(acc[n - 1], list[n])

LEMMA ItemsSteps ==
  ASSUME NEW list \in Seq(Parts)
  PROVE  \E acc : ItemsBy(list, acc)
<1> DEFINE N == Len(list)
           T == Seq(Expressions)
           step == [x \in (1 .. N) \X T |-> PushItems(x[2], list[x[1]])]
<1>1. N \in Nat /\ DOMAIN list = 1 .. N
  OBVIOUS
<1>2. ASSUME NEW i \in 1 .. N, NEW out \in T PROVE PushItems(out, list[i]) \in T
  <2>1. list[i] \in Parts
    BY <1>1
  <2> QED BY <2>1, PushItemsAre
<1>3. <<>> \in T
  OBVIOUS
<1> HIDE DEF N, T
<1>4. Folds(N, T, <<>>, step)
  <2>1. step \in [(1 .. N) \X T -> T]
    BY <1>2
  <2> HIDE DEF step
  <2> QED BY <1>1, <1>3, <2>1, FoldExists
<1>5. PICK it \in [SUBSET (1 .. N) -> T] : Folded(it, N, <<>>, step)
  BY <1>4 DEF Folds
<1>6. ASSUME NEW s \in SUBSET DOMAIN list
      PROVE  it[s] = IF s = {} THEN <<>> ELSE PushItems(it[s \ {Max(s)}], list[Max(s)])
  <2>1. CASE s = {}
    BY <1>1, <1>5, <2>1 DEF Folded
  <2>2. CASE s # {}
    <3>1. Max(s) \in 1 .. N /\ s \ {Max(s)} \in SUBSET (1 .. N)
      BY <1>1, <2>2, Greatest
    <3>2. it[s] = step[<<Max(s), it[s \ {Max(s)}]>>]
      BY <1>1, <1>5, <2>2 DEF Folded
    <3>3. it[s \ {Max(s)}] \in T
      BY <1>5, <3>1
    <3>4. <<Max(s), it[s \ {Max(s)}]>> \in (1 .. N) \X T
      BY <3>1, <3>3
    <3> QED BY <2>2, <3>2, <3>4
  <2> QED BY <2>1, <2>2
<1> HIDE DEF step
<1> DEFINE iter == CHOOSE iter : iter = [s \in SUBSET DOMAIN list |->
           IF s = {} THEN <<>> ELSE PushItems(iter[s \ {Max(s)}], list[Max(s)])]
<1>7. it = [s \in SUBSET DOMAIN list |->
           IF s = {} THEN <<>> ELSE PushItems(it[s \ {Max(s)}], list[Max(s)])]
  <2>1. it = [s \in SUBSET DOMAIN list |-> it[s]]
    BY <1>1, <1>5
  <2> QED BY <1>6, <2>1
<1>8. iter = [s \in SUBSET DOMAIN list |->
           IF s = {} THEN <<>> ELSE PushItems(iter[s \ {Max(s)}], list[Max(s)])]
  BY <1>7
<1>9. Items(list) = iter[DOMAIN list]
  BY Zenon DEF FoldLeft, MapThenFoldSet, Items
<1> HIDE DEF iter
<1> DEFINE acc == [n \in 0 .. N |-> iter[1 .. n]]
<1>10. acc[0] = <<>> /\ acc[N] = Items(list)
  <2>1. {} \in SUBSET DOMAIN list /\ 1 .. 0 = {} /\ 0 \in 0 .. N /\ N \in 0 .. N
    BY <1>1
  <2>2. iter[{}] = <<>>
    BY <1>8, <2>1
  <2> QED BY <1>1, <1>9, <2>1, <2>2
<1>11. ASSUME NEW n \in 1 .. N
       PROVE  acc[n] = PushItems(acc[n - 1], list[n])
  <2>1. n \in Nat /\ n # 0 /\ n \in 0 .. N /\ n - 1 \in 0 .. N
    BY <1>1
  <2>2. 1 .. n # {} /\ Max(1 .. n) = n /\ (1 .. n) \ {n} = 1 .. (n - 1)
    BY <2>1, Intervals
  <2>3. 1 .. n \in SUBSET DOMAIN list
    BY <1>1
  <2>4. iter[1 .. n] = PushItems(iter[1 .. (n - 1)], list[n])
    BY <1>8, <2>2, <2>3
  <2> QED BY <2>1, <2>4
<1> QED BY <1>10, <1>11 DEF ItemsBy, N
-----------------------------------------------------------------------------
\* The items the server is sent and the type the row is decoded into are those
\* of one list of leaves.
LEMMA ListsInStep ==
  ASSUME NEW list \in Seq(Parts)
  PROVE  \E leaves \in Seq(Leaf) :
           /\ Fields(list) = FieldsOf(leaves)
           /\ Items(list) = ItemsOf(leaves)
           /\ ToSet(leaves) = Leaves(list)
<1>1. PICK chain : FieldsBy(list, chain)
  BY FieldsSteps
<1>2. PICK out : ItemsBy(list, out)
  BY ItemsSteps
<1> DEFINE N == Len(list)
           Before(n) == UNION {LeavesOf(list[i]) : i \in 1 .. n}
           InStep(n, leaves) == /\ Fields(list) = FieldsOf(leaves) \o chain[n + 1]
                                /\ out[n] = ItemsOf(leaves)
                                /\ ToSet(leaves) = Before(n)
           S == {n \in 0 .. N : \E leaves \in Seq(Leaf) : InStep(n, leaves)}
           R == {m \in 1 .. (N + 1) : chain[m] \in Seq(RowField)}
<1>3. N \in Nat /\ DOMAIN list = 1 .. N /\ \A i \in 1 .. N : list[i] \in Parts
  OBVIOUS
<1>4. 1 .. (N + 1) \subseteq R
  <2>1. N + 1 \in R
    <3>1. chain[N + 1] = <<>> /\ N + 1 \in 1 .. (N + 1)
      BY <1>1, <1>3 DEF FieldsBy
    <3>2. <<>> \in Seq(RowField)
      OBVIOUS
    <3> DEFINE top == N + 1
    <3> HIDE DEF top
    <3> QED BY <3>1, <3>2 DEF top
  <2>2. ASSUME NEW m \in 1 .. N, m + 1 \in R PROVE m \in R
    <3>1. chain[m] = PartFields(list[m], chain[m + 1])
      BY <1>1 DEF FieldsBy
    <3>2. chain[m + 1] \in Seq(RowField) /\ list[m] \in Parts /\ m \in 1 .. (N + 1)
      BY <1>3, <2>2
    <3> QED BY <3>1, <3>2, PartFieldsAre
  <2> HIDE DEF R
  <2> QED BY <1>3, <2>1, <2>2, Downwards
<1>5. 0 \in S
  <2>1. Before(0) = {}
    OBVIOUS
  <2>2. chain[1] = Fields(list) /\ out[0] = <<>> /\ 1 \in 1 .. (N + 1) /\ 0 \in 0 .. N
    BY <1>1, <1>2, <1>3 DEF FieldsBy, ItemsBy
  <2>3. <<>> \o chain[1] = chain[1]
    BY <1>4, <2>2
  <2>4. InStep(0, <<>>)
    <3> HIDE DEF Before, N
    <3>1. Fields(list) = FieldsOf(<<>>) \o chain[0 + 1]
      <4>1. 0 + 1 = 1
        OBVIOUS
      <4>2. FieldsOf(<<>>) \o chain[1] = Fields(list)
        BY <2>2, <2>3, NoLeaf, Zenon
      <4> QED BY <4>1, <4>2
    <3>2. out[0] = ItemsOf(<<>>) /\ ToSet(<<>>) = Before(0)
      BY <2>1, <2>2, NoLeaf
    <3> QED BY <3>1, <3>2
  <2> HIDE DEF InStep, N
  <2> QED BY <2>2, <2>4, NoLeaf
<1>6. ASSUME NEW n \in 1 .. N, n - 1 \in S PROVE n \in S
  <2>1. PICK leaves \in Seq(Leaf) : InStep(n - 1, leaves)
    BY <1>6
  <2> DEFINE part == list[n]
             ls == LeafSeq(part)
             more == leaves \o ls
  <2>2. /\ part \in Parts /\ n \in 0 .. N /\ (n - 1) + 1 = n /\ n + 1 \in 1 .. (N + 1)
        /\ ls \in Seq(Leaf) /\ ToSet(ls) = LeavesOf(part)
    BY <1>3, PartLeaves
  <2>3. chain[n] = PartFields(part, chain[n + 1]) /\ out[n] = PushItems(out[n - 1], part)
    BY <1>1, <1>2 DEF FieldsBy, ItemsBy
  <2>4. /\ Fields(list) = FieldsOf(leaves) \o chain[n] /\ out[n - 1] = ItemsOf(leaves)
        /\ ToSet(leaves) = Before(n - 1)
    BY <2>1, <2>2
  <2>5. chain[n + 1] \in Seq(RowField)
    BY <1>4, <2>2
  <2>6. Before(n) = Before(n - 1) \cup LeavesOf(part)
    <3>1. \A i \in 1 .. n : i \in 1 .. (n - 1) \/ i = n
      OBVIOUS
    <3>2. 1 .. (n - 1) \subseteq 1 .. n /\ n \in 1 .. n
      OBVIOUS
    <3> QED BY <3>1, <3>2
  <2> HIDE DEF part, ls, more, Before, InStep, N, R
  <2>7. FieldsOf(leaves) \in Seq(RowField) /\ FieldsOf(ls) \in Seq(RowField)
        /\ ItemsOf(leaves) \in Seq(Expressions)
    BY <2>2, FieldsOfTyped DEF Expressions
  <2>8. chain[n] = FieldsOf(ls) \o chain[n + 1]
    BY <2>2, <2>3, <2>5, PartFieldsAre DEF ls
  <2>9. out[n] = ItemsOf(leaves) \o ItemsOf(ls)
    BY <2>2, <2>3, <2>4, <2>7, PushItemsAre DEF ls
  <2>10. /\ more \in Seq(Leaf) /\ ToSet(more) = ToSet(leaves) \cup ToSet(ls)
         /\ FieldsOf(more) = FieldsOf(leaves) \o FieldsOf(ls)
         /\ ItemsOf(more) = ItemsOf(leaves) \o ItemsOf(ls)
    BY <2>2, OneAfterAnother DEF more
  <2>11. FieldsOf(leaves) \o (FieldsOf(ls) \o chain[n + 1]) = FieldsOf(more) \o chain[n + 1]
    <3>1. (FieldsOf(leaves) \o FieldsOf(ls)) \o chain[n + 1] =
             FieldsOf(leaves) \o (FieldsOf(ls) \o chain[n + 1])
      <4> DEFINE c == chain[n + 1]
      <4>1. c \in Seq(RowField)
        BY <2>5
      <4> HIDE DEF c
      <4>2. (FieldsOf(leaves) \o FieldsOf(ls)) \o c = FieldsOf(leaves) \o (FieldsOf(ls) \o c)
        BY <2>7, <4>1, ConcatAssociative
      <4> QED BY <4>2 DEF c
    <3> QED BY <2>10, <3>1, Zenon
  <2>12. InStep(n, more)
    BY <2>2, <2>4, <2>6, <2>8, <2>9, <2>10, <2>11 DEF InStep
  <2> QED BY <2>2, <2>10, <2>12
<1> HIDE DEF S
<1>7. N \in S
  <2>1. 0 .. N \subseteq S
    BY <1>3, <1>5, <1>6, Upwards
  <2>2. N \in 0 .. N
    BY <1>3
  <2> QED BY <2>1, <2>2
<1>8. PICK leaves \in Seq(Leaf) : InStep(N, leaves)
  BY <1>7 DEF S
<1>9. chain[N + 1] = <<>> /\ out[N] = Items(list)
  BY <1>1, <1>2 DEF FieldsBy, ItemsBy
<1>10. Before(N) = Leaves(list)
  BY <1>3 DEF Leaves, ToSet
<1>11. FieldsOf(leaves) \o <<>> = FieldsOf(leaves)
  BY FieldsOfTyped, ConcatEmptySeq
<1> QED BY <1>8, <1>9, <1>10, <1>11
-----------------------------------------------------------------------------
(***************************************************************************)
(* Decoding.                                                               *)
(***************************************************************************)
Reading == [at : Nat, row : Seq(RowCell), ok : BOOLEAN]

LEMMA DecodeLeafTyped ==
  ASSUME NEW sent \in Seq(Sent \cup {Null}), NEW acc \in Reading, NEW f \in RowField
  PROVE  /\ DecodeLeaf(sent, acc, f) \in Reading
         /\ acc.ok /\ acc.at \in DOMAIN sent /\ Fits(f, sent[acc.at]) =>
              /\ DecodeLeaf(sent, acc, f).ok
              /\ DecodeLeaf(sent, acc, f).at = acc.at + 1
              /\ DecodeLeaf(sent, acc, f).row = Append(acc.row, Decoded(f, sent[acc.at]))
<1>1. acc = [at |-> acc.at, row |-> acc.row, ok |-> acc.ok]
      /\ acc.at \in Nat /\ acc.row \in Seq(RowCell) /\ acc.ok \in BOOLEAN
  BY DEF Reading
<1>2. CASE acc.ok /\ acc.at \in DOMAIN sent /\ Fits(f, sent[acc.at])
  <2> DEFINE cell == Decoded(f, sent[acc.at])
  <2>1. sent[acc.at] \in Sent \cup {Null}
    BY <1>2
  <2>2. cell \in RowCell
    BY <2>1 DEF Decoded, RowCell, RowField
  <2>3. DecodeLeaf(sent, acc, f) = [at |-> acc.at + 1, row |-> Append(acc.row, cell), ok |-> TRUE]
    BY <1>2 DEF DecodeLeaf
  <2> HIDE DEF cell
  <2>4. Append(acc.row, cell) \in Seq(RowCell)
    BY <1>1, <2>2
  <2> QED BY <1>1, <2>3, <2>4 DEF cell, Reading
<1>3. CASE ~(acc.ok /\ acc.at \in DOMAIN sent /\ Fits(f, sent[acc.at]))
  BY <1>1, <1>3 DEF DecodeLeaf, Reading
<1> QED BY <1>2, <1>3

\* A row, read from its first value.
DecodeRowBy(fields, sent, acc) ==
  /\ acc[0] = [at |-> 1, row |-> <<>>, ok |-> TRUE] /\ acc[Len(fields)] = DecodeRow(fields, sent)
  /\ \A n \in 1 .. Len(fields) : acc[n] = DecodeLeaf(sent, acc[n - 1], fields[n])

LEMMA DecodeRowSteps ==
  ASSUME NEW fields \in Seq(RowField), NEW sent \in Seq(Sent \cup {Null})
  PROVE  \E acc : DecodeRowBy(fields, sent, acc)
<1> DEFINE N == Len(fields)
           T == Reading
           step == [x \in (1 .. N) \X T |-> DecodeLeaf(sent, x[2], fields[x[1]])]
<1>1. N \in Nat /\ DOMAIN fields = 1 .. N
  OBVIOUS
<1>2. ASSUME NEW i \in 1 .. N, NEW out \in T PROVE DecodeLeaf(sent, out, fields[i]) \in T
  <2>1. fields[i] \in RowField
    BY <1>1
  <2> QED BY <2>1, DecodeLeafTyped
<1>3. [at |-> 1, row |-> <<>>, ok |-> TRUE] \in T
  BY DEF Reading
<1> HIDE DEF N, T
<1>4. Folds(N, T, [at |-> 1, row |-> <<>>, ok |-> TRUE], step)
  <2>1. step \in [(1 .. N) \X T -> T]
    BY <1>2
  <2> HIDE DEF step
  <2> QED BY <1>1, <1>3, <2>1, FoldExists
<1>5. PICK it \in [SUBSET (1 .. N) -> T] : Folded(it, N, [at |-> 1, row |-> <<>>, ok |-> TRUE], step)
  BY <1>4 DEF Folds
<1>6. ASSUME NEW s \in SUBSET DOMAIN fields
      PROVE  it[s] = IF s = {} THEN [at |-> 1, row |-> <<>>, ok |-> TRUE] ELSE DecodeLeaf(sent, it[s \ {Max(s)}], fields[Max(s)])
  <2>1. CASE s = {}
    BY <1>1, <1>5, <2>1 DEF Folded
  <2>2. CASE s # {}
    <3>1. Max(s) \in 1 .. N /\ s \ {Max(s)} \in SUBSET (1 .. N)
      BY <1>1, <2>2, Greatest
    <3>2. it[s] = step[<<Max(s), it[s \ {Max(s)}]>>]
      BY <1>1, <1>5, <2>2 DEF Folded
    <3>3. it[s \ {Max(s)}] \in T
      BY <1>5, <3>1
    <3>4. <<Max(s), it[s \ {Max(s)}]>> \in (1 .. N) \X T
      BY <3>1, <3>3
    <3> QED BY <2>2, <3>2, <3>4
  <2> QED BY <2>1, <2>2
<1> HIDE DEF step
<1> DEFINE iter == CHOOSE iter : iter = [s \in SUBSET DOMAIN fields |->
           IF s = {} THEN [at |-> 1, row |-> <<>>, ok |-> TRUE] ELSE DecodeLeaf(sent, iter[s \ {Max(s)}], fields[Max(s)])]
<1>7. it = [s \in SUBSET DOMAIN fields |->
           IF s = {} THEN [at |-> 1, row |-> <<>>, ok |-> TRUE] ELSE DecodeLeaf(sent, it[s \ {Max(s)}], fields[Max(s)])]
  <2>1. it = [s \in SUBSET DOMAIN fields |-> it[s]]
    BY <1>1, <1>5
  <2> QED BY <1>6, <2>1
<1>8. iter = [s \in SUBSET DOMAIN fields |->
           IF s = {} THEN [at |-> 1, row |-> <<>>, ok |-> TRUE] ELSE DecodeLeaf(sent, iter[s \ {Max(s)}], fields[Max(s)])]
  BY <1>7
<1>9. DecodeRow(fields, sent) = iter[DOMAIN fields]
  BY Zenon DEF FoldLeft, MapThenFoldSet, DecodeRow
<1> HIDE DEF iter
<1> DEFINE acc == [n \in 0 .. N |-> iter[1 .. n]]
<1>10. acc[0] = [at |-> 1, row |-> <<>>, ok |-> TRUE] /\ acc[N] = DecodeRow(fields, sent)
  <2>1. {} \in SUBSET DOMAIN fields /\ 1 .. 0 = {} /\ 0 \in 0 .. N /\ N \in 0 .. N
    BY <1>1
  <2>2. iter[{}] = [at |-> 1, row |-> <<>>, ok |-> TRUE]
    BY <1>8, <2>1
  <2> QED BY <1>1, <1>9, <2>1, <2>2
<1>11. ASSUME NEW n \in 1 .. N
       PROVE  acc[n] = DecodeLeaf(sent, acc[n - 1], fields[n])
  <2>1. n \in Nat /\ n # 0 /\ n \in 0 .. N /\ n - 1 \in 0 .. N
    BY <1>1
  <2>2. 1 .. n # {} /\ Max(1 .. n) = n /\ (1 .. n) \ {n} = 1 .. (n - 1)
    BY <2>1, Intervals
  <2>3. 1 .. n \in SUBSET DOMAIN fields
    BY <1>1
  <2>4. iter[1 .. n] = DecodeLeaf(sent, iter[1 .. (n - 1)], fields[n])
    BY <1>8, <2>2, <2>3
  <2> QED BY <2>1, <2>4
<1> QED BY <1>10, <1>11 DEF DecodeRowBy, N

\* Where every value fits, every value is decoded, each into its own field.
LEMMA RowIsRead ==
  ASSUME NEW fields \in Seq(RowField), NEW sent \in Seq(Sent \cup {Null}),
         Len(sent) = Len(fields), \A i \in DOMAIN fields : Fits(fields[i], sent[i])
  PROVE  LET read == DecodeRow(fields, sent) IN
         /\ read.ok /\ read.row \in Seq(RowCell) /\ Len(read.row) = Len(fields)
         /\ \A i \in DOMAIN fields : read.row[i] = Decoded(fields[i], sent[i])
<1>1. PICK acc : DecodeRowBy(fields, sent, acc)
  BY DecodeRowSteps
<1> DEFINE N == Len(fields)
           Read(n, a) == /\ a \in Reading /\ a.ok /\ a.at = n + 1
                         /\ Len(a.row) = n
                         /\ \A i \in 1 .. n : a.row[i] = Decoded(fields[i], sent[i])
           S == {n \in 0 .. N : Read(n, acc[n])}
<1>2. N \in Nat /\ DOMAIN fields = 1 .. N /\ DOMAIN sent = 1 .. N
      /\ \A i \in 1 .. N : fields[i] \in RowField
  OBVIOUS
<1>3. 0 \in S
  <2>1. acc[0] = [at |-> 1, row |-> <<>>, ok |-> TRUE]
    BY <1>1 DEF DecodeRowBy
  <2> DEFINE a == acc[0]
  <2>2. a \in Reading /\ a.ok /\ a.at = 1 /\ a.row = <<>> /\ 0 \in 0 .. N
    BY <1>2, <2>1 DEF Reading
  <2> HIDE DEF a, N
  <2>3. Read(0, a)
    BY <2>2
  <2> QED BY <2>2, <2>3 DEF a
<1>4. ASSUME NEW n \in 1 .. N, n - 1 \in S PROVE n \in S
  <2> DEFINE a == acc[n - 1]
             b == acc[n]
             f == fields[n]
             cell == Decoded(f, sent[n])
  <2>1. Read(n - 1, a)
    BY <1>4
  <2>2. b = DecodeLeaf(sent, a, f)
    BY <1>1 DEF DecodeRowBy
  <2>3. f \in RowField /\ n \in DOMAIN sent /\ Fits(f, sent[n]) /\ n \in 0 .. N
    BY <1>2
  <2>4. a \in Reading /\ a.ok /\ a.at = n /\ Len(a.row) = n - 1 /\ a.row \in Seq(RowCell)
    BY <2>1 DEF Reading
  <2>5. cell \in RowCell
    <3>1. sent[n] \in Sent \cup {Null}
      BY <2>3
    <3> QED BY <2>3, <3>1 DEF Decoded, RowCell, RowField
  <2> HIDE DEF a, f
  <2>6. b \in Reading /\ b.ok /\ b.at = n + 1 /\ b.row = Append(a.row, cell)
    <3>1. a.at \in DOMAIN sent /\ Fits(f, sent[a.at])
      BY <2>3, <2>4
    <3>2. cell = Decoded(f, sent[a.at])
      BY <2>4
    <3> HIDE DEF b, cell
    <3> QED BY <2>2, <2>3, <2>4, <3>1, <3>2, DecodeLeafTyped
  <2> HIDE DEF b, cell
  <2>7. Len(b.row) = n /\ b.row[n] = cell /\ \A i \in 1 .. (n - 1) : b.row[i] = a.row[i]
    BY <2>4, <2>5, <2>6
  <2>8. ASSUME NEW i \in 1 .. n PROVE b.row[i] = Decoded(fields[i], sent[i])
    <3>1. CASE i = n
      BY <2>7, <3>1 DEF cell, f
    <3>2. CASE i # n
      <4>1. i \in 1 .. (n - 1)
        BY <3>2
      <4> QED BY <2>1, <2>7, <4>1
    <3> QED BY <3>1, <3>2
  <2>9. Read(n, b)
    BY <2>6, <2>7, <2>8
  <2> QED BY <2>3, <2>9 DEF b
<1> HIDE DEF S
<1>5. N \in S
  <2>1. 0 .. N \subseteq S
    BY <1>2, <1>3, <1>4, Upwards
  <2>2. N \in 0 .. N
    BY <1>2
  <2> QED BY <2>1, <2>2
<1>6. acc[N] = DecodeRow(fields, sent)
  BY <1>1 DEF DecodeRowBy
<1>7. Read(N, DecodeRow(fields, sent))
  BY <1>5, <1>6 DEF S
<1> QED BY <1>2, <1>7 DEF Reading
-----------------------------------------------------------------------------
(***************************************************************************)
(* What the server sends fits what the list is decoded as.                 *)
(***************************************************************************)
\* The bodies bound to the CTEs in scope have the rows with! declares.
BodiesFit ==
  /\ bodies \in [Cte -> Bodies \cup {<<>>}]
  /\ \A i \in DOMAIN scope : scope[i].table \in Cte =>
       SameShape(bodies[scope[i].table], DeclaredRow(scope[i].table))

\* A body's column is found by its declared name, and is the one so named.
LEMMA BodyIs ==
  ASSUME BodiesFit, NEW t \in Cte, SameShape(bodies[t], DeclaredRow(t)),
         NEW i \in DOMAIN Columns[t]
  PROVE  LET f == BodyField(t, Columns[t][i].name) IN
         /\ NameOf(f.key) = Columns[t][i].name
         /\ f.type = Columns[t][i].type /\ f.null = Columns[t][i].null
<1> DEFINE name == Columns[t][i].name
           f == BodyField(t, name)
           b == bodies[t]
<1>1. t \in Table
  BY JoinsAssumption
<1>2. \A j \in DOMAIN Columns[t] : Header(t)[j] = Columns[t][j].name
      /\ DOMAIN Header(t) = DOMAIN Columns[t]
  BY <1>1, DeclaredIs
<1>3. (CHOOSE j \in DOMAIN Header(t) : Header(t)[j] = name) = i
  <2>1. \A j \in DOMAIN Header(t) : Header(t)[j] = name => j = i
    BY <1>1, <1>2, RowsAssumption
  <2>2. i \in DOMAIN Header(t) /\ Header(t)[i] = name
    BY <1>2
  <2> QED BY <2>1, <2>2
<1>4. f = b[i]
  BY <1>3 DEF BodyField
<1>5. i \in DOMAIN b
  <2>1. b \in Seq(ToSet(b))
    <3>1. b \in Bodies \cup {<<>>}
      BY DEF BodiesFit
    <3>2. IsSequence(b)
      <4>1. IsSequence(<<>>)
        BY DEF IsSequence
      <4> QED BY <3>1, <4>1, RowsAssumption
    <3> QED BY <3>2 DEF IsSequence
  <2>2. Len(b) = Len(Columns[t]) /\ DOMAIN Columns[t] = 1 .. Len(Columns[t])
    BY <1>1, ColumnsAre, DeclaredIs DEF SameShape
  <2> HIDE DEF b
  <2> QED BY <2>1, <2>2
<1>6. DeclaredRow(t)[i] = Field(<<"column", t, name>>, Columns[t][i].type, Columns[t][i].null)
  BY <1>1, DeclaredIs
<1>7. NameOf(DeclaredRow(t)[i].key) = name
  <2>1. DeclaredRow(t)[i].key = <<"column", t, name>>
    BY <1>6 DEF Field
  <2>2. \A x, y, z : Last(<<x, y, z>>) = z
    BY DEF Last
  <2> QED BY <2>1, <2>2 DEF NameOf
<1>8. /\ NameOf(b[i].key) = NameOf(DeclaredRow(t)[i].key)
      /\ b[i].type = DeclaredRow(t)[i].type /\ b[i].null = DeclaredRow(t)[i].null
  BY <1>5 DEF SameShape, SameNameAs
<1> HIDE DEF b, f
<1>9. b[i].type = Columns[t][i].type /\ b[i].null = Columns[t][i].null
  BY <1>6, <1>8 DEF Field
<1> QED BY <1>4, <1>7, <1>8, <1>9 DEF f

\* A row the server may send of the tables joined so far.
SentOf(r, nulls) ==
  /\ IInv /\ BodiesFit /\ r \in result
  /\ \A c \in nulls : StoredMayBeNull(c[1], c[2])

\* What a column is stored as, through a WITH or not.
LEMMA StoredAsDeclared ==
  ASSUME BodiesFit, NEW t \in Table, Found(scope, t), NEW i \in DOMAIN Columns[t]
  PROVE  LET name == Columns[t][i].name IN
         /\ Stored(t, name) = [of |-> <<"column", t, name>>, type |-> Declared(t, name).type]
         /\ StoredMayBeNull(t, name) = Declared(t, name).null
<1> DEFINE name == Columns[t][i].name
<1>1. Declared(t, name).type = Columns[t][i].type /\ Declared(t, name).null = Columns[t][i].null
  <2>1. Declared(t, name) = Field(<<"column", t, name>>, Columns[t][i].type, Columns[t][i].null)
    BY DeclaredIs
  <2> QED BY <2>1 DEF Field
<1>2. CASE t \in Cte
  <2>1. SameShape(bodies[t], DeclaredRow(t))
    BY <1>2 DEF Found, Positions, BodiesFit
  <2>2. /\ NameOf(BodyField(t, name).key) = name
        /\ BodyField(t, name).type = Columns[t][i].type
        /\ BodyField(t, name).null = Columns[t][i].null
    BY <1>2, <2>1, BodyIs
  <2> QED BY <1>1, <1>2, <2>2 DEF Stored, StoredMayBeNull
<1>3. CASE t \notin Cte
  BY <1>3 DEF Stored, StoredMayBeNull
<1> QED BY <1>2, <1>3

\* A column's value, or NULL where its field is an Option.
LEMMA ColumnFits ==
  ASSUME NEW r, NEW nulls, SentOf(r, nulls), NEW l \in Leaf, InScope(l),
         Expression(l).part \in {"column", "aggregate"}
  PROVE  LET e == Expression(l)
             c == Declared(e.table, e.name)
             at == CHOOSE p \in DOMAIN scope : scope[p].table = e.table
             v == ColumnValue(e.table, e.name, r, nulls)
         IN \/ v = Null /\ DecodesAsOption(at, c.null)
            \/ v = [of |-> <<"column", e.table, e.name>>, type |-> c.type]
<1> DEFINE e == Expression(l)
           c == Declared(e.table, e.name)
           at == CHOOSE p \in DOMAIN scope : scope[p].table = e.table
           v == ColumnValue(e.table, e.name, r, nulls)
<1>1. /\ e.table \in Table /\ c.null \in BOOLEAN
      /\ \E i \in DOMAIN Columns[e.table] : Columns[e.table][i].name = e.name
  BY ReadsDeclared
<1>2. Found(scope, e.table)
  BY DEF InScope
<1> HIDE DEF e
<1>3. PICK i \in DOMAIN Columns[e.table] : Columns[e.table][i].name = e.name
  BY <1>1
<1>4. /\ Stored(e.table, e.name) = [of |-> <<"column", e.table, e.name>>, type |-> c.type]
      /\ StoredMayBeNull(e.table, e.name) = c.null
  BY <1>1, <1>2, <1>3, StoredAsDeclared DEF SentOf
<1>5. at \in DOMAIN scope /\ scope[at].table = e.table
  BY <1>2 DEF Found, Positions
<1>6. v = IF r[at] = Absent \/ <<e.table, e.name>> \in nulls THEN Null ELSE Stored(e.table, e.name)
  BY DEF ColumnValue
<1>7. CASE r[at] = Absent
  <2>1. DecodesAsOption(at, c.null)
    BY <1>1, <1>5, <1>7, NullsFit DEF SentOf, NoNullWithoutOption
  <2> QED BY <1>6, <1>7, <2>1 DEF e
<1>8. CASE <<e.table, e.name>> \in nulls
  <2>1. StoredMayBeNull(e.table, e.name)
    BY <1>8 DEF SentOf
  <2>2. DecodesAsOption(at, c.null)
    BY <1>4, <2>1 DEF DecodesAsOption
  <2> QED BY <1>6, <1>8, <2>2 DEF e
<1>9. CASE r[at] # Absent /\ <<e.table, e.name>> \notin nulls
  BY <1>4, <1>6, <1>9 DEF e
<1> QED BY <1>7, <1>8, <1>9

\* Every value sent fits its field, and a column's is of the column it names.
LEMMA ValueFits ==
  ASSUME NEW r, NEW nulls, SentOf(r, nulls), NEW l \in Leaf, InScope(l)
  PROVE  LET v == Evaluate(Expression(l), r, nulls) IN
         /\ v \in Sent \cup {Null}
         /\ Fits(FieldOf(l), v)
         /\ KeyOf(l)[1] = "column" => v = Null \/ v.of = KeyOf(l)
<1> DEFINE e == Expression(l)
           c == Declared(e.table, e.name)
           at == CHOOSE p \in DOMAIN scope : scope[p].table = e.table
           cv == ColumnValue(e.table, e.name, r, nulls)
           v == Evaluate(e, r, nulls)
           f == FieldOf(l)
<1>1. KeyOf(e) \in {KeyOf(Expression(k)) : k \in Leaf}
  OBVIOUS
<1>2. f.type = ValueType(l).type /\ f.null = ValueType(l).null
  BY DEF FieldOf, Field
<1>3. \A of, type : of \in {KeyOf(Expression(k)) : k \in Leaf} /\ type \in Types =>
        /\ [of |-> of, type |-> type] \in Sent /\ [of |-> of, type |-> type] # Null
  BY NullAssumption DEF Sent
<1>4. CASE e.part = "column"
  <2>1. KeyOf(e) = <<"column", e.table, e.name>> /\ v = cv
    BY <1>4 DEF KeyOf, Evaluate
  <2>2. f.type = c.type /\ f.null = DecodesAsOption(at, c.null)
    <3>1. ValueType(l) = [type |-> c.type, null |-> DecodesAsOption(at, c.null)]
      BY <1>4 DEF ValueType
    <3> HIDE DEF c, at, f
    <3> QED BY <1>2, <3>1
  <2>3. \/ cv = Null /\ DecodesAsOption(at, c.null)
        \/ cv = [of |-> <<"column", e.table, e.name>>, type |-> c.type]
    BY <1>4, ColumnFits
  <2>4. c.type \in Types
    BY <1>4, ReadsDeclared
  <2>5. KeyOf(l)[1] = "column" => KeyOf(l) = KeyOf(e)
    BY <1>4, LeavesAreLeaves DEF KeyOf, Expression
  <2> HIDE DEF e, c, at, cv, v, f
  <2>6. CASE cv = Null /\ DecodesAsOption(at, c.null)
    BY <2>1, <2>2, <2>6 DEF Fits, e, v, f
  <2>7. CASE cv = [of |-> <<"column", e.table, e.name>>, type |-> c.type]
    <3>1. cv \in Sent /\ cv # Null /\ cv.of = KeyOf(e) /\ cv.type = c.type
      BY <1>1, <1>3, <2>1, <2>4, <2>7
    <3>2. Fits(f, v)
      BY <2>1, <2>2, <3>1 DEF Fits
    <3> QED BY <2>1, <2>5, <3>1, <3>2 DEF e, v, f
  <2> QED BY <2>3, <2>6, <2>7
<1>5. CASE e.part = "aggregate"
  <2> DEFINE cast == CastOf(e.op, c.type)
             type == IF cast = "none" THEN ServerType(e.op, c.type) ELSE cast
             agg == AggregateType(e.op, c.type)
  <2>1. c.type \in Types /\ e.op \in Operator /\ (e.op \in {"sum", "avg"} => c.type \in Numeric)
    BY <1>5, ReadsDeclared
  <2>2. f.type = agg /\ f.null = (e.op # "count_of")
    <3>1. ValueType(l) = [type |-> agg, null |-> e.op # "count_of"]
      BY <1>5 DEF ValueType
    <3> HIDE DEF agg, f
    <3> QED BY <1>2, <3>1
  <2>3. v = IF e.op # "count_of" /\ cv = Null THEN Null ELSE [of |-> KeyOf(e), type |-> type]
    BY <1>5 DEF Evaluate
  <2>4. KeyOf(l)[1] # "column"
    BY <1>5, <2>1, LeavesAreLeaves DEF KeyOf, Expression, Operator
  <2>5. type = agg /\ agg \in Types
    <3> DEFINE t == c.type
               op == e.op
    <3>1. t \in Types /\ op \in Operator /\ (op \in {"sum", "avg"} => t \in Numeric)
      BY <2>1
    <3> HIDE DEF c, e, t, op
    <3>2. CASE op = "sum"
      BY <3>1, <3>2 DEF op, t, CastOf, ServerType, AggregateType, Types, Numeric
    <3>3. CASE op = "avg"
      BY <3>1, <3>3 DEF op, t, CastOf, ServerType, AggregateType, Types, Numeric
    <3>4. CASE op \in {"min", "max", "count_of"}
      BY <3>1, <3>4 DEF op, t, CastOf, ServerType, AggregateType, Types, Numeric
    <3> QED BY <3>1, <3>2, <3>3, <3>4 DEF Operator
  <2> HIDE DEF c, e, v, f, cast, type, agg, cv
  <2>6. CASE v = Null /\ e.op # "count_of"
    BY <2>2, <2>4, <2>6 DEF Fits, e, v, f
  <2>7. CASE v = [of |-> KeyOf(e), type |-> type]
    <3>1. v \in Sent /\ v # Null /\ v.type = agg
      BY <1>1, <1>3, <2>5, <2>7 DEF e
    <3>2. Fits(f, v)
      BY <2>2, <3>1 DEF Fits
    <3> QED BY <2>4, <3>1, <3>2 DEF e, v, f
  <2> QED BY <2>3, <2>6, <2>7
<1>6. CASE e.part \in {"count", "sql"}
  <2> DEFINE type == IF e.part = "count" THEN "BigInt" ELSE e.type
  <2>1. v = [of |-> KeyOf(e), type |-> type]
    BY <1>6 DEF Evaluate, KeyOf
  <2>2. type \in Types
    BY <1>6, ExpressionsAre DEF IsSelectable, Types, Numeric
  <2>3. f.type = type
    BY <1>2, <1>6 DEF ValueType
  <2>4. KeyOf(l)[1] # "column"
    BY <1>6, LeavesAreLeaves DEF KeyOf, Expression, Anon
  <2> HIDE DEF e, type, v, f
  <2>5. v \in Sent /\ v # Null /\ v.type = type
    BY <1>1, <1>3, <2>1, <2>2 DEF e
  <2>6. Fits(f, v)
    BY <2>3, <2>5 DEF Fits
  <2> QED BY <2>4, <2>5, <2>6 DEF e, v, f
<1> QED BY <1>4, <1>5, <1>6, ExpressionsAre
-----------------------------------------------------------------------------
(***************************************************************************)
(* Reading a row.                                                          *)
(***************************************************************************)
Told == [key : Key, value : Sent \cup {Null}]

LEMMA CellsTyped ==
  ASSUME NEW r \in Seq(RowCell)
  PROVE  /\ Cells(r) \subseteq Told
         /\ \A i \in DOMAIN r : /\ [key |-> r[i].key, value |-> r[i].value] \in Told
                                /\ [key |-> r[i].key, value |-> r[i].value] \in Cells(r)
<1>1. \A i \in DOMAIN r : r[i] \in RowCell
  OBVIOUS
<1>2. \A i \in DOMAIN r : [key |-> r[i].key, value |-> r[i].value] \in Told
  BY <1>1 DEF RowCell, Told
<1> QED BY <1>2 DEF Cells

\* A row without one of its cells: where the others are.
Past(i, j) == IF j < i THEN j ELSE j + 1

LEMMA Plucked ==
  ASSUME NEW r \in Seq(RowCell), NEW i \in DOMAIN r
  PROVE  /\ Pluck(r, i) \in Seq(RowCell) /\ Len(Pluck(r, i)) = Len(r) - 1
         /\ \A j \in 1 .. (Len(r) - 1) : Past(i, j) \in DOMAIN r /\ Pluck(r, i)[j] = r[Past(i, j)]
         /\ Cells(Pluck(r, i)) \subseteq Cells(r)
<1> DEFINE n == Len(r)
           a == SubSeq(r, 1, i - 1)
           b == SubSeq(r, i + 1, n)
<1>1. n \in Nat /\ i \in 1 .. n /\ DOMAIN r = 1 .. n /\ \A j \in 1 .. n : r[j] \in RowCell
  OBVIOUS
<1>2. /\ a \in Seq(RowCell) /\ Len(a) = i - 1
      /\ \A j \in 1 .. (i - 1) : a[j] = r[j]
  <2>1. \A j \in 1 .. (i - 1) : r[j] \in RowCell
    BY <1>1
  <2>2. /\ a \in Seq(RowCell) /\ Len(a) = IF 1 <= i - 1 THEN (i - 1) - 1 + 1 ELSE 0
        /\ \A j \in 1 .. (i - 1) - 1 + 1 : a[j] = r[1 + j - 1]
    BY <1>1, <2>1, SubSeqProperties
  <2> HIDE DEF a
  <2> QED BY <1>1, <2>2
<1>3. /\ b \in Seq(RowCell) /\ Len(b) = n - i
      /\ \A j \in 1 .. (n - i) : b[j] = r[i + j]
  <2>1. \A j \in (i + 1) .. n : r[j] \in RowCell
    BY <1>1
  <2>2. /\ b \in Seq(RowCell) /\ Len(b) = IF i + 1 <= n THEN n - (i + 1) + 1 ELSE 0
        /\ \A j \in 1 .. n - (i + 1) + 1 : b[j] = r[(i + 1) + j - 1]
    BY <1>1, <2>1, SubSeqProperties
  <2> HIDE DEF b, n
  <2>3. n - (i + 1) + 1 = n - i /\ \A j \in 1 .. (n - i) : (i + 1) + j - 1 = i + j
    BY <1>1
  <2> QED BY <1>1, <2>2, <2>3
<1> HIDE DEF a, b, n
<1>4. Pluck(r, i) = a \o b
  BY DEF Pluck, RemoveAt, a, b, n
<1>5. a \o b \in Seq(RowCell) /\ Len(a \o b) = n - 1
  <2>1. a \o b \in Seq(RowCell) /\ Len(a \o b) = Len(a) + Len(b)
    BY <1>2, <1>3, ConcatProperties
  <2>2. (i - 1) + (n - i) = n - 1
    BY <1>1
  <2> QED BY <1>2, <1>3, <2>1, <2>2
<1>6. ASSUME NEW j \in 1 .. (n - 1)
      PROVE  Past(i, j) \in DOMAIN r /\ (a \o b)[j] = r[Past(i, j)]
  <2>1. CASE j < i
    <3>1. j \in 1 .. (i - 1) /\ (a \o b)[j] = a[j]
      BY <1>1, <1>2, <1>3, <2>1
    <3> QED BY <1>1, <1>2, <2>1, <3>1 DEF Past
  <2>2. CASE ~(j < i)
    <3>1. j - (i - 1) \in 1 .. (n - i) /\ i + (j - (i - 1)) = j + 1 /\ j + 1 \in 1 .. n
      BY <1>1, <2>2
    <3>2. (a \o b)[j] = b[j - (i - 1)]
      BY <1>1, <1>2, <1>3, <3>1
    <3> QED BY <1>1, <1>3, <2>2, <3>1, <3>2 DEF Past
  <2> QED BY <2>1, <2>2
<1>7. DOMAIN Pluck(r, i) = 1 .. (n - 1)
  BY <1>1, <1>4, <1>5
<1>8. Cells(Pluck(r, i)) \subseteq Cells(r)
  <2> SUFFICES ASSUME NEW j \in DOMAIN Pluck(r, i)
               PROVE  [key |-> Pluck(r, i)[j].key, value |-> Pluck(r, i)[j].value] \in Cells(r)
    BY DEF Cells
  <2>1. Past(i, j) \in DOMAIN r /\ Pluck(r, i)[j] = r[Past(i, j)]
    BY <1>4, <1>6, <1>7
  <2> QED BY <2>1 DEF Cells
<1> QED BY <1>4, <1>5, <1>6, <1>8 DEF n

\* A step of from_row takes one cell of the row, and nothing from elsewhere.
Filling == [row : Seq(RowCell), ok : BOOLEAN, filled : Seq(Told)]

LEMMA FillFieldTyped ==
  ASSUME NEW acc \in Filling, NEW f
  PROVE  /\ FillField(acc, f) \in Filling
         /\ Cells(FillField(acc, f).row) \subseteq Cells(acc.row)
         /\ ToSet(FillField(acc, f).filled) \subseteq ToSet(acc.filled) \cup Cells(acc.row)
<1> DEFINE places == Matching(acc.row, f)
           i == CHOOSE p \in places : TRUE
           told == [key |-> acc.row[i].key, value |-> acc.row[i].value]
<1>1. /\ acc.row \in Seq(RowCell) /\ acc.ok \in BOOLEAN /\ acc.filled \in Seq(Told)
      /\ acc = [row |-> acc.row, ok |-> acc.ok, filled |-> acc.filled]
  BY DEF Filling
<1>2. CASE acc.ok /\ One(places)
  <2>1. i \in DOMAIN acc.row
    <3>1. places \subseteq DOMAIN acc.row
      BY DEF Matching, Candidates, Holding
    <3> QED BY <1>2, <3>1 DEF One
  <2>2. FillField(acc, f) = [row |-> Pluck(acc.row, i), ok |-> TRUE,
                             filled |-> Append(acc.filled, told)]
    BY <1>2 DEF FillField
  <2> HIDE DEF i
  <2>3. told \in Told /\ told \in Cells(acc.row)
    BY <1>1, <2>1, CellsTyped
  <2>4. Pluck(acc.row, i) \in Seq(RowCell) /\ Cells(Pluck(acc.row, i)) \subseteq Cells(acc.row)
    BY <1>1, <2>1, Plucked
  <2> HIDE DEF told
  <2> DEFINE more == Append(acc.filled, told)
  <2>5. /\ more \in Seq(Told) /\ Len(more) = Len(acc.filled) + 1 /\ more[Len(acc.filled) + 1] = told
        /\ \A j \in 1 .. Len(acc.filled) : more[j] = acc.filled[j]
    BY <1>1, <2>3, AppendProperties
  <2> HIDE DEF more
  <2>6. ToSet(more) \subseteq ToSet(acc.filled) \cup {told}
    <3>1. /\ DOMAIN more = 1 .. (Len(acc.filled) + 1) /\ DOMAIN acc.filled = 1 .. Len(acc.filled)
          /\ Len(acc.filled) \in Nat
      BY <1>1, <2>5
    <3>2. \A j \in DOMAIN more : j \in DOMAIN acc.filled \/ j = Len(acc.filled) + 1
      BY <3>1
    <3> QED BY <2>5, <3>1, <3>2 DEF ToSet
  <2>7. FillField(acc, f) = [row |-> Pluck(acc.row, i), ok |-> TRUE, filled |-> more]
    BY <2>2 DEF more
  <2> QED BY <2>3, <2>4, <2>5, <2>6, <2>7 DEF Filling
<1>3. CASE ~(acc.ok /\ One(places))
  <2>1. FillField(acc, f) = [row |-> acc.row, ok |-> FALSE, filled |-> acc.filled]
    BY <1>3 DEF FillField
  <2> QED BY <1>1, <2>1 DEF Filling
<1> QED BY <1>2, <1>3

\* The fields of a struct, filled from the first.
FromRowBy(r, struct, acc) ==
  /\ acc[0] = [row |-> r, filled |-> <<>>, ok |-> TRUE] /\ acc[Len(struct)] = FromRow(r, struct)
  /\ \A n \in 1 .. Len(struct) : acc[n] = FillField(acc[n - 1], struct[n])

LEMMA FromRowSteps ==
  ASSUME NEW r \in Seq(RowCell), NEW struct \in Structs
  PROVE  \E acc : FromRowBy(r, struct, acc)
<1> DEFINE N == Len(struct)
           T == Filling
           step == [x \in (1 .. N) \X T |-> FillField(x[2], struct[x[1]])]
<1>1. N \in Nat /\ DOMAIN struct = 1 .. N
  BY RowsAssumption DEF IsSequence
<1>2. ASSUME NEW i \in 1 .. N, NEW out \in T PROVE FillField(out, struct[i]) \in T
  BY FillFieldTyped
<1>3. [row |-> r, filled |-> <<>>, ok |-> TRUE] \in T
  BY DEF Filling
<1> HIDE DEF N, T
<1>4. Folds(N, T, [row |-> r, filled |-> <<>>, ok |-> TRUE], step)
  <2>1. step \in [(1 .. N) \X T -> T]
    BY <1>2
  <2> HIDE DEF step
  <2> QED BY <1>1, <1>3, <2>1, FoldExists
<1>5. PICK it \in [SUBSET (1 .. N) -> T] : Folded(it, N, [row |-> r, filled |-> <<>>, ok |-> TRUE], step)
  BY <1>4 DEF Folds
<1>6. ASSUME NEW s \in SUBSET DOMAIN struct
      PROVE  it[s] = IF s = {} THEN [row |-> r, filled |-> <<>>, ok |-> TRUE] ELSE FillField(it[s \ {Max(s)}], struct[Max(s)])
  <2>1. CASE s = {}
    BY <1>1, <1>5, <2>1 DEF Folded
  <2>2. CASE s # {}
    <3>1. Max(s) \in 1 .. N /\ s \ {Max(s)} \in SUBSET (1 .. N)
      BY <1>1, <2>2, Greatest
    <3>2. it[s] = step[<<Max(s), it[s \ {Max(s)}]>>]
      BY <1>1, <1>5, <2>2 DEF Folded
    <3>3. it[s \ {Max(s)}] \in T
      BY <1>5, <3>1
    <3>4. <<Max(s), it[s \ {Max(s)}]>> \in (1 .. N) \X T
      BY <3>1, <3>3
    <3> QED BY <2>2, <3>2, <3>4
  <2> QED BY <2>1, <2>2
<1> HIDE DEF step
<1> DEFINE iter == CHOOSE iter : iter = [s \in SUBSET DOMAIN struct |->
           IF s = {} THEN [row |-> r, filled |-> <<>>, ok |-> TRUE] ELSE FillField(iter[s \ {Max(s)}], struct[Max(s)])]
<1>7. it = [s \in SUBSET DOMAIN struct |->
           IF s = {} THEN [row |-> r, filled |-> <<>>, ok |-> TRUE] ELSE FillField(it[s \ {Max(s)}], struct[Max(s)])]
  <2>1. it = [s \in SUBSET DOMAIN struct |-> it[s]]
    BY <1>1, <1>5
  <2> QED BY <1>6, <2>1
<1>8. iter = [s \in SUBSET DOMAIN struct |->
           IF s = {} THEN [row |-> r, filled |-> <<>>, ok |-> TRUE] ELSE FillField(iter[s \ {Max(s)}], struct[Max(s)])]
  BY <1>7
<1>9. FromRow(r, struct) = iter[DOMAIN struct]
  BY Zenon DEF FoldLeft, MapThenFoldSet, FromRow
<1> HIDE DEF iter
<1> DEFINE acc == [n \in 0 .. N |-> iter[1 .. n]]
<1>10. acc[0] = [row |-> r, filled |-> <<>>, ok |-> TRUE] /\ acc[N] = FromRow(r, struct)
  <2>1. {} \in SUBSET DOMAIN struct /\ 1 .. 0 = {} /\ 0 \in 0 .. N /\ N \in 0 .. N
    BY <1>1
  <2>2. iter[{}] = [row |-> r, filled |-> <<>>, ok |-> TRUE]
    BY <1>8, <2>1
  <2> QED BY <1>1, <1>9, <2>1, <2>2
<1>11. ASSUME NEW n \in 1 .. N
       PROVE  acc[n] = FillField(acc[n - 1], struct[n])
  <2>1. n \in Nat /\ n # 0 /\ n \in 0 .. N /\ n - 1 \in 0 .. N
    BY <1>1
  <2>2. 1 .. n # {} /\ Max(1 .. n) = n /\ (1 .. n) \ {n} = 1 .. (n - 1)
    BY <2>1, Intervals
  <2>3. 1 .. n \in SUBSET DOMAIN struct
    BY <1>1
  <2>4. iter[1 .. n] = FillField(iter[1 .. (n - 1)], struct[n])
    BY <1>8, <2>2, <2>3
  <2> QED BY <2>1, <2>4
<1> QED BY <1>10, <1>11 DEF FromRowBy, N

\* What a struct is filled with are cells of the row.
LEMMA FilledFromTheRow ==
  ASSUME NEW r \in Seq(RowCell), NEW struct \in Structs
  PROVE  ToSet(FromRow(r, struct).filled) \subseteq Cells(r)
<1>1. PICK acc : FromRowBy(r, struct, acc)
  BY FromRowSteps
<1> DEFINE N == Len(struct)
           OfTheRow(a) == /\ a \in Filling /\ Cells(a.row) \subseteq Cells(r)
                          /\ ToSet(a.filled) \subseteq Cells(r)
           S == {n \in 0 .. N : OfTheRow(acc[n])}
<1>2. N \in Nat
  BY RowsAssumption DEF IsSequence
<1>3. 0 \in S
  <2>1. acc[0] = [row |-> r, filled |-> <<>>, ok |-> TRUE]
    BY <1>1 DEF FromRowBy
  <2>2. OfTheRow(acc[0])
    BY <2>1 DEF Filling, ToSet
  <2> QED BY <1>2, <2>2
<1>4. ASSUME NEW n \in 1 .. N, n - 1 \in S PROVE n \in S
  <2>1. acc[n] = FillField(acc[n - 1], struct[n])
    BY <1>1 DEF FromRowBy
  <2> DEFINE a == acc[n - 1]
             b == acc[n]
  <2>2. OfTheRow(a) /\ b = FillField(a, struct[n]) /\ n \in 0 .. N
    BY <1>2, <1>4, <2>1
  <2> HIDE DEF a, b
  <2>3. OfTheRow(b)
    BY <2>2, FillFieldTyped
  <2> QED BY <2>2, <2>3 DEF b
<1> HIDE DEF S
<1>5. N \in S
  <2>1. 0 .. N \subseteq S
    BY <1>2, <1>3, <1>4, Upwards
  <2>2. N \in 0 .. N
    BY <1>2
  <2> QED BY <2>1, <2>2
<1> QED BY <1>1, <1>5 DEF S, FromRowBy

LEMMA PrependTyped ==
  ASSUME NEW head \in RowCell, NEW tuple \in Seq(Told)
  PROVE  LET told == [key |-> head.key, value |-> head.value] IN
         /\ Prepend(head, tuple) \in Seq(Told)
         /\ ToSet(Prepend(head, tuple)) = {told} \cup ToSet(tuple)
<1> DEFINE told == [key |-> head.key, value |-> head.value]
           more == <<told>> \o tuple
<1>1. told \in Told
  BY DEF RowCell, Told
<1>2. Prepend(head, tuple) = more
  BY DEF Prepend
<1> HIDE DEF told
<1>3. /\ more \in Seq(Told) /\ Len(more) = Len(tuple) + 1
      /\ more[1] = told /\ \A i \in DOMAIN tuple : more[i + 1] = tuple[i]
  BY <1>1, Fronted
<1> HIDE DEF more
<1>4. /\ DOMAIN more = 1 .. (Len(tuple) + 1) /\ Len(tuple) \in Nat /\ DOMAIN tuple = 1 .. Len(tuple)
  BY <1>3
<1>5. \A i \in DOMAIN more : i = 1 \/ \E j \in DOMAIN tuple : i = j + 1
  BY <1>4, FirstOrLater
<1>6. 1 \in DOMAIN more /\ \A j \in DOMAIN tuple : j + 1 \in DOMAIN more
  BY <1>4
<1>7. ToSet(more) = {told} \cup ToSet(tuple)
  BY <1>3, <1>5, <1>6 DEF ToSet
<1> QED BY <1>2, <1>3, <1>7 DEF told

\* A tuple, from its end.
IntoValuesBy(r, acc) ==
  /\ acc[Len(r) + 1] = <<>> /\ acc[1] = IntoValues(r)
  /\ \A n \in 1 .. Len(r) : acc[n] = Prepend(r[n], acc[n + 1])

LEMMA IntoValuesSteps ==
  ASSUME NEW r \in Seq(RowCell)
  PROVE  \E acc : IntoValuesBy(r, acc)
<1> DEFINE N == Len(r)
           T == Seq(Told)
           step == [x \in (1 .. N) \X T |-> Prepend(r[x[1]], x[2])]
<1>1. N \in Nat /\ DOMAIN r = 1 .. N
  OBVIOUS
<1>2. ASSUME NEW i \in 1 .. N, NEW out \in T PROVE Prepend(r[i], out) \in T
  <2>1. r[i] \in RowCell
    BY <1>1
  <2> QED BY <2>1, PrependTyped
<1>3. <<>> \in T
  OBVIOUS
<1> HIDE DEF N, T
<1>4. FoldsRight(N, T, <<>>, step)
  <2>1. step \in [(1 .. N) \X T -> T]
    BY <1>2
  <2> HIDE DEF step
  <2> QED BY <1>1, <1>3, <2>1, FoldRightExists
<1>5. PICK it \in [SUBSET (1 .. N) -> T] : FoldedRight(it, N, <<>>, step)
  BY <1>4 DEF FoldsRight
<1>6. ASSUME NEW s \in SUBSET DOMAIN r
      PROVE  it[s] = IF s = {} THEN <<>> ELSE Prepend(r[Min(s)], it[s \ {Min(s)}])
  <2>1. CASE s = {}
    BY <1>1, <1>5, <2>1 DEF FoldedRight
  <2>2. CASE s # {}
    <3>1. Min(s) \in 1 .. N /\ s \ {Min(s)} \in SUBSET (1 .. N)
      BY <1>1, <2>2, Smallest
    <3>2. it[s] = step[<<Min(s), it[s \ {Min(s)}]>>]
      BY <1>1, <1>5, <2>2 DEF FoldedRight
    <3>3. it[s \ {Min(s)}] \in T
      BY <1>5, <3>1
    <3>4. <<Min(s), it[s \ {Min(s)}]>> \in (1 .. N) \X T
      BY <3>1, <3>3
    <3> QED BY <2>2, <3>2, <3>4
  <2> QED BY <2>1, <2>2
<1> HIDE DEF step
<1> DEFINE iter == CHOOSE iter : iter = [s \in SUBSET DOMAIN r |->
           IF s = {} THEN <<>> ELSE Prepend(r[Min(s)], iter[s \ {Min(s)}])]
<1>7. it = [s \in SUBSET DOMAIN r |->
           IF s = {} THEN <<>> ELSE Prepend(r[Min(s)], it[s \ {Min(s)}])]
  <2>1. it = [s \in SUBSET DOMAIN r |-> it[s]]
    BY <1>1, <1>5
  <2> QED BY <1>6, <2>1
<1>8. iter = [s \in SUBSET DOMAIN r |->
           IF s = {} THEN <<>> ELSE Prepend(r[Min(s)], iter[s \ {Min(s)}])]
  BY <1>7
<1>9. IntoValues(r) = iter[DOMAIN r]
  BY Zenon DEF FoldRight, MapThenFoldSet, IntoValues
<1> HIDE DEF iter
<1> DEFINE acc == [n \in 1 .. (N + 1) |-> iter[n .. N]]
<1>10. acc[N + 1] = <<>> /\ acc[1] = IntoValues(r)
  <2>1. {} \in SUBSET DOMAIN r /\ (N + 1) .. N = {} /\ N + 1 \in 1 .. (N + 1) /\ 1 \in 1 .. (N + 1)
    BY <1>1
  <2>2. iter[{}] = <<>>
    BY <1>8, <2>1
  <2> QED BY <1>1, <1>9, <2>1, <2>2
<1>11. ASSUME NEW n \in 1 .. N
       PROVE  acc[n] = Prepend(r[n], acc[n + 1])
  <2>1. n \in 1 .. (N + 1) /\ n + 1 \in 1 .. (N + 1)
    BY <1>1
  <2>2. /\ n .. N # {} /\ n .. N \in SUBSET DOMAIN r
        /\ Min(n .. N) = n /\ (n .. N) \ {n} = (n + 1) .. N
    BY <1>1, Remainders
  <2>3. iter[n .. N] = Prepend(r[n], iter[(n + 1) .. N])
    BY <1>8, <2>2
  <2> QED BY <2>1, <2>3
<1> QED BY <1>10, <1>11 DEF IntoValuesBy, N

LEMMA TupleOfTheRow ==
  ASSUME NEW r \in Seq(RowCell)
  PROVE  ToSet(IntoValues(r)) \subseteq Cells(r)
<1>1. PICK acc : IntoValuesBy(r, acc)
  BY IntoValuesSteps
<1> DEFINE N == Len(r)
           S == {m \in 1 .. (N + 1) : acc[m] \in Seq(Told) /\ ToSet(acc[m]) \subseteq Cells(r)}
<1>2. N \in Nat /\ DOMAIN r = 1 .. N /\ \A m \in 1 .. N : r[m] \in RowCell
  OBVIOUS
<1>3. N + 1 \in S
  <2>1. acc[N + 1] = <<>>
    BY <1>1 DEF IntoValuesBy
  <2>2. N + 1 \in 1 .. (N + 1)
    BY <1>2
  <2>3. <<>> \in Seq(Told) /\ ToSet(<<>>) = {}
    BY DEF ToSet
  <2> DEFINE top == N + 1
  <2> HIDE DEF top
  <2> QED BY <2>1, <2>2, <2>3 DEF top
<1>4. ASSUME NEW m \in 1 .. N, m + 1 \in S PROVE m \in S
  <2>1. acc[m] = Prepend(r[m], acc[m + 1])
    BY <1>1 DEF IntoValuesBy
  <2> DEFINE a == acc[m + 1]
             b == acc[m]
  <2>2. a \in Seq(Told) /\ ToSet(a) \subseteq Cells(r) /\ b = Prepend(r[m], a) /\ m \in 1 .. (N + 1)
    BY <1>2, <1>4, <2>1
  <2>3. r[m] \in RowCell /\ [key |-> r[m].key, value |-> r[m].value] \in Cells(r)
    BY <1>2 DEF Cells
  <2> HIDE DEF a, b
  <2>4. b \in Seq(Told) /\ ToSet(b) \subseteq Cells(r)
    BY <2>2, <2>3, PrependTyped
  <2> QED BY <2>2, <2>4 DEF b
<1> HIDE DEF S
<1>5. 1 \in S
  <2>1. 1 .. (N + 1) \subseteq S
    BY <1>2, <1>3, <1>4, Downwards
  <2>2. 1 \in 1 .. (N + 1)
    BY <1>2
  <2> QED BY <2>1, <2>2
<1> QED BY <1>1, <1>5 DEF S, IntoValuesBy
-----------------------------------------------------------------------------
(***************************************************************************)
(* Every reachable row.                                                    *)
(***************************************************************************)
\* What was asked for under a column's key is that column's value.
MeantByName == \A c \in meant : c.key[1] = "column" => c.value = Null \/ c.value.of = c.key

\* The row, and what was asked for, are of the list's leaves; before a row is
\* read there is nothing to have read from it, and reading one never fails.
RowIsTyped ==
  /\ row \in Seq(RowCell)
  /\ meant \subseteq Told
  /\ end \in {"building", "row", "struct", "tuple"}
  /\ end = "building" => row = <<>> /\ taken = {} /\ filled = <<>>

RowsIInv ==
  IInv /\ BodiesFit /\ RowIsTyped /\ FieldsHoldWhatTheirKeysName /\ MeantByName

LEMMA RowsInitEstablishes == ASSUME RowsInit PROVE RowsIInv
<1>1. IInv
  BY InitEstablishes DEF RowsInit
<1>2. BodiesFit
  BY DEF RowsInit, Init, BodiesFit
<1>3. RowIsTyped /\ MeantByName
  BY DEF RowsInit, RowIsTyped, MeantByName
<1>4. FieldsHoldWhatTheirKeysName
  BY DEF RowsInit, FieldsHoldWhatTheirKeysName, Cells, ToSet
<1> QED BY <1>1, <1>2, <1>3, <1>4 DEF RowsIInv

\* The query's own state as it was.
LEMMA QueryStays ==
  ASSUME IInv, BodiesFit, UNCHANGED <<vars, bodies>>
  PROVE  IInv' /\ BodiesFit'
<1>1. TypeOK'
  BY DEF vars, IInv, TypeOK
<1>2. Shape' /\ OptionOnlyWhereNeeded'
  BY DEF vars, IInv, Shape, OptionOnlyWhereNeeded, DecodesAsOption
<1>3. RowsFitPatterns' /\ CtesInScopeAreBound'
  BY DEF vars, IInv, RowsFitPatterns, CtesInScopeAreBound
<1>4. BodiesFit'
  BY DEF vars, BodiesFit
<1> QED BY <1>1, <1>2, <1>3, <1>4 DEF IInv

\* ... and the next query's.
LEMMA QueryCloses ==
  ASSUME IInv, CloseQuery
  PROVE  IInv' /\ BodiesFit'
<1>1. /\ scope' = <<>> /\ ctes' = <<>> /\ joins' = <<>> /\ result' = {} /\ patterns' = {}
      /\ bodies' = [t \in Cte |-> <<>>] /\ stored' = stored
  BY DEF CloseQuery
<1>2. TypeOK'
  BY <1>1 DEF IInv, TypeOK
<1>3. Shape' /\ OptionOnlyWhereNeeded' /\ RowsFitPatterns' /\ CtesInScopeAreBound'
  BY <1>1 DEF Shape, OptionOnlyWhereNeeded, RowsFitPatterns, CtesInScopeAreBound
<1>4. BodiesFit'
  BY <1>1 DEF BodiesFit
<1> QED BY <1>2, <1>3, <1>4 DEF IInv

\* A source comes in front with the body with! asked for, and the others keep
\* theirs.
LEMMA SourceKeeps ==
  ASSUME JoinsAssumption, RowsIInv, NEW t \in Table, NEW body \in Bodies \cup {<<>>}, Source(t, body)
  PROVE  RowsIInv'
<1>1. IInv /\ BodiesFit /\ RowIsTyped
  BY DEF RowsIInv
<1>2. IInv'
  BY <1>1, FromKeeps, JoinKeeps DEF Source
<1>3. \A i \in DOMAIN scope' : scope'[i].table = t \/ \E j \in DOMAIN scope : scope'[i].table = scope[j].table
  <2>1. CASE From(t)
    <3>1. scope' = <<Slot(t, NotNull)>>
      BY <2>1 DEF From
    <3> QED BY <3>1 DEF Slot
  <2>2. ASSUME NEW kind \in Kind, scope' = Joined(kind, t)
        PROVE  \A i \in DOMAIN scope' :
                 scope'[i].table = t \/ \E j \in DOMAIN scope : scope'[i].table = scope[j].table
    <3>1. DOMAIN scope = 1 .. Len(scope) /\ Len(scope) \in Nat
      BY <1>1 DEF IInv, TypeOK
    <3>2. DOMAIN scope' = 1 .. (Len(scope) + 1)
      BY <1>1, <2>2, JoinedScope DEF IInv
    <3>3. scope'[1].table = t /\ \A j \in DOMAIN scope : scope'[j + 1].table = scope[j].table
      BY <1>1, <2>2, JoinedScope DEF IInv
    <3>4. \A i \in DOMAIN scope' : i = 1 \/ \E j \in DOMAIN scope : i = j + 1
      BY <3>1, <3>2, FirstOrLater
    <3> QED BY <3>3, <3>4
  <2> QED BY <2>1, <2>2 DEF Source, Join
<1>4. BodiesFit'
  <2>1. CASE t \in Cte
    <3>1. SameShape(body, DeclaredRow(t)) /\ bodies' = [bodies EXCEPT ![t] = body]
      BY <2>1 DEF Source, With
    <3>2. bodies' \in [Cte -> Bodies \cup {<<>>}]
      BY <1>1, <3>1 DEF BodiesFit
    <3>3. bodies'[t] = body /\ \A c \in Cte \ {t} : bodies'[c] = bodies[c]
      BY <1>1, <2>1, <3>1 DEF BodiesFit
    <3>4. ASSUME NEW i \in DOMAIN scope', scope'[i].table \in Cte
          PROVE  SameShape(bodies'[scope'[i].table], DeclaredRow(scope'[i].table))
      <4>1. CASE scope'[i].table = t
        BY <3>1, <3>3, <4>1
      <4>2. CASE scope'[i].table # t
        <5>1. PICK j \in DOMAIN scope : scope'[i].table = scope[j].table
          BY <1>3, <4>2
        <5>2. bodies'[scope'[i].table] = bodies[scope[j].table]
          BY <3>3, <3>4, <4>2, <5>1
        <5>3. SameShape(bodies[scope[j].table], DeclaredRow(scope[j].table))
          BY <1>1, <3>4, <5>1 DEF BodiesFit
        <5> QED BY <5>1, <5>2, <5>3
      <4> QED BY <4>1, <4>2
    <3> QED BY <3>2, <3>4 DEF BodiesFit
  <2>2. CASE t \notin Cte
    <3>1. bodies' = bodies
      BY <2>2 DEF Source
    <3>2. ASSUME NEW i \in DOMAIN scope', scope'[i].table \in Cte
          PROVE  SameShape(bodies[scope'[i].table], DeclaredRow(scope'[i].table))
      <4>1. PICK j \in DOMAIN scope : scope'[i].table = scope[j].table
        BY <1>3, <2>2, <3>2
      <4> QED BY <1>1, <3>2, <4>1 DEF BodiesFit
    <3> QED BY <1>1, <3>1, <3>2 DEF BodiesFit
  <2> QED BY <2>1, <2>2
<1>5. row' = row /\ meant' = meant /\ taken' = taken /\ filled' = filled /\ end' = end
  BY DEF Source, rowVars
<1>6. RowIsTyped' /\ FieldsHoldWhatTheirKeysName' /\ MeantByName'
  BY <1>5 DEF RowsIInv, RowIsTyped, FieldsHoldWhatTheirKeysName, MeantByName
<1> QED BY <1>2, <1>4, <1>6 DEF RowsIInv

\* A list's row decodes, and holds under each key what the list asked for.
Asked(list, r, nulls) ==
  {[key |-> KeyOf(leaf), value |-> Evaluate(Expression(leaf), r, nulls)] : leaf \in Leaves(list)}
Answer(list, r, nulls) == [i \in DOMAIN Items(list) |-> Evaluate(Items(list)[i], r, nulls)]

LEMMA Loaded ==
  ASSUME NEW list \in Seq(Parts), NEW r, NEW nulls, SentOf(r, nulls),
         \A leaf \in Leaves(list) : InScope(leaf)
  PROVE  LET read == DecodeRow(Fields(list), Answer(list, r, nulls)) IN
         /\ read.ok /\ read.row \in Seq(RowCell)
         /\ Cells(read.row) \subseteq Asked(list, r, nulls)
         /\ Asked(list, r, nulls) \subseteq Told
         /\ \A c \in Asked(list, r, nulls) :
              c.key[1] = "column" => c.value = Null \/ c.value.of = c.key
<1>1. PICK leaves \in Seq(Leaf) :
        /\ Fields(list) = FieldsOf(leaves) /\ Items(list) = ItemsOf(leaves)
        /\ ToSet(leaves) = Leaves(list)
  BY ListsInStep
<1>2. \A l \in Leaves(list) : l \in Leaf /\ InScope(l)
  BY <1>1 DEF ToSet
<1>3. \A l \in Leaves(list) :
        LET v == Evaluate(Expression(l), r, nulls) IN
        /\ v \in Sent \cup {Null} /\ Fits(FieldOf(l), v)
        /\ KeyOf(l)[1] = "column" => v = Null \/ v.of = KeyOf(l)
  BY <1>2, ValueFits
<1>4. Asked(list, r, nulls) \subseteq Told
  BY <1>2, <1>3 DEF Asked, Told, Key
<1>5. \A c \in Asked(list, r, nulls) :
        c.key[1] = "column" => c.value = Null \/ c.value.of = c.key
  BY <1>3 DEF Asked
<1> DEFINE fields == FieldsOf(leaves)
           sent == Answer(list, r, nulls)
           n == Len(leaves)
<1>6. n \in Nat /\ DOMAIN leaves = 1 .. n /\ \A i \in 1 .. n : leaves[i] \in Leaves(list)
  BY <1>1 DEF ToSet
<1>7. /\ fields \in Seq(RowField) /\ Len(fields) = n /\ DOMAIN fields = 1 .. n
      /\ \A i \in 1 .. n : fields[i] = FieldOf(leaves[i])
  BY <1>6, FieldsOfTyped DEF FieldsOf
<1>8. \A i \in 1 .. n : sent[i] = Evaluate(Expression(leaves[i]), r, nulls)
      /\ DOMAIN sent = 1 .. n
  BY <1>1, <1>6 DEF Answer, ItemsOf
<1>9. sent \in Seq(Sent \cup {Null}) /\ Len(sent) = n
  <2>1. sent = [i \in 1 .. n |-> Evaluate(Expression(leaves[i]), r, nulls)]
    BY <1>1, <1>6 DEF Answer, ItemsOf
  <2>2. \A i \in 1 .. n : Evaluate(Expression(leaves[i]), r, nulls) \in Sent \cup {Null}
    BY <1>3, <1>6
  <2> HIDE DEF sent, n
  <2> QED BY <1>6, <2>1, <2>2
<1> HIDE DEF fields, sent, n
<1>10. \A i \in DOMAIN fields : Fits(fields[i], sent[i])
  BY <1>3, <1>6, <1>7, <1>8
<1> DEFINE read == DecodeRow(fields, sent)
<1>11. /\ read.ok /\ read.row \in Seq(RowCell) /\ Len(read.row) = n
       /\ \A i \in DOMAIN fields : read.row[i] = Decoded(fields[i], sent[i])
  BY <1>7, <1>9, <1>10, RowIsRead
<1> HIDE DEF read
<1>12. Cells(read.row) \subseteq Asked(list, r, nulls)
  <2> SUFFICES ASSUME NEW i \in DOMAIN read.row
               PROVE  [key |-> read.row[i].key, value |-> read.row[i].value] \in Asked(list, r, nulls)
    BY DEF Cells
  <2>1. i \in 1 .. n
    BY <1>11
  <2>2. read.row[i] = Decoded(FieldOf(leaves[i]), Evaluate(Expression(leaves[i]), r, nulls))
    BY <1>7, <1>8, <1>11, <2>1
  <2>3. /\ read.row[i].key = KeyOf(leaves[i])
        /\ read.row[i].value = Evaluate(Expression(leaves[i]), r, nulls)
    BY <2>2 DEF Decoded, FieldOf, Field
  <2> QED BY <1>6, <2>1, <2>3 DEF Asked
<1> QED BY <1>1, <1>4, <1>5, <1>11, <1>12 DEF read, fields, sent

LEMMA LoadKeeps ==
  ASSUME JoinsAssumption, RowsIInv, NEW list \in Lists, NEW r \in result, NEW nulls, Load(list, r, nulls)
  PROVE  RowsIInv' /\ end' = "row"
<1>1. list \in Seq(Parts)
  BY DEF Lists
<1>2. IInv /\ BodiesFit /\ RowIsTyped
  BY DEF RowsIInv
<1>3. SentOf(r, nulls)
  BY <1>2 DEF SentOf, Load
<1> DEFINE read == DecodeRow(Fields(list), Answer(list, r, nulls))
<1>4. \A leaf \in Leaves(list) : InScope(leaf)
  BY DEF Load
<1>5. /\ read.ok /\ read.row \in Seq(RowCell)
      /\ Cells(read.row) \subseteq Asked(list, r, nulls) /\ Asked(list, r, nulls) \subseteq Told
      /\ \A c \in Asked(list, r, nulls) :
           c.key[1] = "column" => c.value = Null \/ c.value.of = c.key
  BY <1>1, <1>3, <1>4, Loaded
<1>6. /\ meant' = Asked(list, r, nulls)
      /\ end' = IF read.ok THEN "row" ELSE "error"
      /\ row' = IF read.ok THEN read.row ELSE <<>>
      /\ taken' = taken /\ filled' = filled /\ end = "building" /\ CloseQuery
  BY DEF Load, Asked, Answer
<1> HIDE DEF read
<1>7. IInv' /\ BodiesFit'
  BY <1>2, <1>6, QueryCloses
<1>8. taken' = {} /\ filled' = <<>> /\ end' = "row" /\ row' = read.row
  BY <1>2, <1>5, <1>6 DEF RowIsTyped
<1>9. RowIsTyped' /\ MeantByName'
  BY <1>5, <1>6, <1>8 DEF RowIsTyped, MeantByName
<1>10. FieldsHoldWhatTheirKeysName'
  <2>1. ToSet(filled') = {}
    BY <1>8 DEF ToSet
  <2> QED BY <1>5, <1>6, <1>8, <2>1 DEF FieldsHoldWhatTheirKeysName
<1> QED BY <1>7, <1>8, <1>9, <1>10 DEF RowsIInv

LEMMA TakeKeeps ==
  ASSUME RowsIInv, NEW key, Take(key)
  PROVE  RowsIInv'
<1>1. IInv /\ BodiesFit /\ RowIsTyped
  BY DEF RowsIInv
<1> DEFINE i == CHOOSE p \in Holding(row, key) : TRUE
<1>2. i \in DOMAIN row /\ row[i].key = key
  <2>1. PICK p : Holding(row, key) = {p}
    BY DEF Take, One
  <2>2. i \in Holding(row, key)
    BY <2>1
  <2> QED BY <2>2 DEF Holding
<1>3. /\ taken' = taken \cup {[key |-> key, value |-> row[i].value]}
      /\ row' = Pluck(row, i) /\ end = "row" /\ end' = end
      /\ filled' = filled /\ meant' = meant /\ UNCHANGED <<vars, bodies>>
  BY DEF Take
<1> HIDE DEF i
<1>4. IInv' /\ BodiesFit'
  BY <1>1, <1>3, QueryStays
<1>5. row' \in Seq(RowCell) /\ Cells(row') \subseteq Cells(row)
  BY <1>1, <1>2, <1>3, Plucked DEF RowIsTyped
<1>6. [key |-> key, value |-> row[i].value] \in Cells(row)
  BY <1>2 DEF Cells
<1>7. RowIsTyped' /\ MeantByName'
  BY <1>1, <1>3, <1>5 DEF RowsIInv, RowIsTyped, MeantByName
<1>8. FieldsHoldWhatTheirKeysName'
  BY <1>3, <1>5, <1>6 DEF RowsIInv, FieldsHoldWhatTheirKeysName
<1> QED BY <1>4, <1>7, <1>8 DEF RowsIInv

\* A struct or a tuple is filled from the row's own cells.
LEMMA FillingKeeps ==
  ASSUME RowsIInv, UNCHANGED <<vars, bodies, row, meant, taken>>,
         ToSet(filled') \subseteq Cells(row), end' \in {"struct", "tuple"}
  PROVE  RowsIInv'
<1>1. IInv' /\ BodiesFit'
  BY QueryStays DEF RowsIInv
<1>2. RowIsTyped' /\ MeantByName'
  BY DEF RowsIInv, RowIsTyped, MeantByName
<1>3. FieldsHoldWhatTheirKeysName'
  BY DEF RowsIInv, FieldsHoldWhatTheirKeysName
<1> QED BY <1>1, <1>2, <1>3 DEF RowsIInv

LEMMA RowsStepKeeps ==
  ASSUME JoinsAssumption, RowsIInv, [RowsNext]_allVars
  PROVE  RowsIInv'
<1>1. ASSUME NEW t \in Table, NEW body \in Bodies \cup {<<>>}, Source(t, body) PROVE RowsIInv'
  BY <1>1, SourceKeeps
<1>2. ASSUME NEW list \in Lists, NEW r \in result, NEW nulls, Load(list, r, nulls) PROVE RowsIInv'
  BY <1>2, LoadKeeps
<1>3. ASSUME NEW key, Take(key) PROVE RowsIInv'
  BY <1>3, TakeKeeps
<1>4. ASSUME NEW struct \in Structs, IntoStruct(struct) PROVE RowsIInv'
  <2>1. ToSet(filled') \subseteq Cells(row)
    BY <1>4, FilledFromTheRow DEF IntoStruct, RowsIInv, RowIsTyped
  <2> QED BY <1>4, <2>1, FillingKeeps DEF IntoStruct
<1>5. CASE IntoTuple
  <2>1. ToSet(filled') \subseteq Cells(row)
    BY <1>5, TupleOfTheRow DEF IntoTuple, RowsIInv, RowIsTyped
  <2> QED BY <1>5, <2>1, FillingKeeps DEF IntoTuple
<1>6. CASE UNCHANGED allVars
  <2>1. UNCHANGED <<vars, bodies>> /\ UNCHANGED rowVars
    BY <1>6 DEF allVars
  <2>2. IInv' /\ BodiesFit'
    BY <2>1, QueryStays DEF RowsIInv
  <2>3. RowIsTyped' /\ MeantByName' /\ FieldsHoldWhatTheirKeysName'
    BY <2>1 DEF rowVars, RowsIInv, RowIsTyped, MeantByName, FieldsHoldWhatTheirKeysName
  <2> QED BY <2>2, <2>3 DEF RowsIInv
<1> QED BY <1>1, <1>2, <1>3, <1>4, <1>5, <1>6 DEF RowsNext

\* The two walks over a list agree in every reachable state.
THEOREM RowsInvariance == RowsSpec => []RowsIInv
<1>1. RowsInit => RowsIInv
  BY RowsInitEstablishes
<1>2. RowsIInv /\ [RowsNext]_allVars => RowsIInv'
  BY JoinsAssumption, RowsStepKeeps
<1> QED BY <1>1, <1>2, PTL DEF RowsSpec

\* Whatever a list asks of whatever tables, the row read back decodes.
THEOREM RowsDecode == RowsSpec => []EveryRowDecodes
<1>1. RowsIInv => EveryRowDecodes
  BY DEF RowsIInv, RowIsTyped, EveryRowDecodes
<1> QED BY <1>1, RowsInvariance, PTL

\* By key, into a struct or into a tuple: a field holds what its key names.
THEOREM FieldsHold == RowsSpec => []FieldsHoldWhatTheirKeysName
<1>1. RowsIInv => FieldsHoldWhatTheirKeysName
  BY DEF RowsIInv
<1> QED BY <1>1, RowsInvariance, PTL

\* A column's key finds that column, through any WITH body of its shape.
THEOREM ColumnsFound == RowsSpec => []ColumnsAreFoundByTheirNames
<1>1. RowsIInv => ColumnsAreFoundByTheirNames
  BY DEF RowsIInv, FieldsHoldWhatTheirKeysName, MeantByName, ColumnsAreFoundByTheirNames
<1> QED BY <1>1, RowsInvariance, PTL

\* What Joins promises it keeps where a query is selected, run and begun again.
THEOREM RowsKeepTheScope ==
  RowsSpec => [](TypeOK /\ NoNullWithoutOption /\ OptionOnlyWhereNeeded /\ CtesInScopeAreBound)
<1>1. RowsIInv => TypeOK /\ NoNullWithoutOption /\ OptionOnlyWhereNeeded /\ CtesInScopeAreBound
  BY NullsFit DEF RowsIInv, IInv
<1> QED BY <1>1, RowsInvariance, PTL
-----------------------------------------------------------------------------
(***************************************************************************)
(* The order a row's fields come in.                                       *)
(***************************************************************************)
\* h says which cell of b each cell of a is, and leaves none of b out.
Follows(h, a, b) ==
  /\ h \in [DOMAIN a -> DOMAIN b]
  /\ \A m \in DOMAIN b : \E j \in DOMAIN a : h[j] = m
  /\ \A j \in DOMAIN a : a[j] = b[h[j]]

SameCells(a, b) == \E h : Follows(h, a, b)

\* What one field of a struct finds in a row, it finds wherever it is.
LEMMA FoundElsewhere ==
  ASSUME NEW a, NEW b, NEW h, Follows(h, a, b), NEW f, NEW i, Matching(a, f) = {i}
  PROVE  /\ i \in DOMAIN a /\ Matching(b, f) = {h[i]}
         /\ \A j \in DOMAIN a : h[j] = h[i] => j = i
<1>1. /\ \A j \in DOMAIN a : h[j] \in DOMAIN b /\ a[j] = b[h[j]]
      /\ \A m \in DOMAIN b : \E j \in DOMAIN a : h[j] = m
  BY DEF Follows
<1>2. CASE f.by = "name"
  <2>1. Matching(a, f) = {j \in DOMAIN a : SameNameAs(f.key, a[j].key) /\ Decodes(f, a[j])}
        /\ Matching(b, f) = {m \in DOMAIN b : SameNameAs(f.key, b[m].key) /\ Decodes(f, b[m])}
    BY <1>2 DEF Matching, Candidates
  <2> QED BY <1>1, <2>1
<1>3. CASE f.by # "name"
  <2>1. /\ Matching(a, f) = {j \in Holding(a, f.key) : One(Holding(a, f.key)) /\ Decodes(f, a[j])}
        /\ Matching(b, f) = {m \in Holding(b, f.key) : One(Holding(b, f.key)) /\ Decodes(f, b[m])}
    BY <1>3 DEF Matching
  <2>2. i \in Holding(a, f.key) /\ One(Holding(a, f.key)) /\ Decodes(f, a[i])
    BY <2>1
  <2>3. Holding(a, f.key) = {i}
    BY <2>2 DEF One
  <2>4. /\ i \in DOMAIN a /\ Holding(b, f.key) = {h[i]}
        /\ \A j \in DOMAIN a : h[j] = h[i] => j = i
    BY <1>1, <2>3 DEF Holding
  <2>5. One(Holding(b, f.key)) /\ Decodes(f, b[h[i]])
    BY <1>1, <2>2, <2>4 DEF One
  <2> QED BY <2>1, <2>4, <2>5
<1> QED BY <1>2, <1>3

\* The inverse of Past: where a cell is, once the one at k is gone.
Down(k, m) == IF m < k THEN m ELSE m - 1

LEMMA PastAndDown ==
  ASSUME NEW n \in Nat, NEW k \in 1 .. n
  PROVE  /\ \A m \in 1 .. n : m # k => Down(k, m) \in 1 .. (n - 1) /\ Past(k, Down(k, m)) = m
         /\ \A m \in 1 .. (n - 1) : /\ Past(k, m) \in 1 .. n /\ Past(k, m) # k
                                    /\ Down(k, Past(k, m)) = m
BY DEF Past, Down

\* Without the same cell of both, two rows still have the same cells.
LEMMA PluckedAlike ==
  ASSUME NEW a \in Seq(RowCell), NEW b \in Seq(RowCell), NEW h, Follows(h, a, b),
         NEW i \in DOMAIN a, \A j \in DOMAIN a : h[j] = h[i] => j = i
  PROVE  SameCells(Pluck(a, i), Pluck(b, h[i]))
<1> DEFINE n == Len(a)
           l == Len(b)
           k == h[i]
           c == Pluck(a, i)
           d == Pluck(b, k)
           g == [j \in 1 .. (n - 1) |-> Down(k, h[Past(i, j)])]
<1>1. /\ n \in Nat /\ DOMAIN a = 1 .. n /\ i \in 1 .. n
      /\ l \in Nat /\ DOMAIN b = 1 .. l
  OBVIOUS
<1>2. /\ \A j \in 1 .. n : h[j] \in 1 .. l /\ a[j] = b[h[j]]
      /\ \A m \in 1 .. l : \E j \in 1 .. n : h[j] = m
      /\ \A j \in 1 .. n : h[j] = k => j = i
  BY <1>1 DEF Follows
<1>3. k \in 1 .. l
  BY <1>1, <1>2
<1>4. /\ DOMAIN c = 1 .. (n - 1) /\ \A j \in 1 .. (n - 1) : c[j] = a[Past(i, j)]
  <2>1. c \in Seq(RowCell) /\ Len(c) = n - 1 /\ \A j \in 1 .. (n - 1) : c[j] = a[Past(i, j)]
    BY Plucked
  <2> HIDE DEF c, n
  <2> QED BY <2>1
<1>5. /\ DOMAIN d = 1 .. (l - 1) /\ \A m \in 1 .. (l - 1) : d[m] = b[Past(k, m)]
  <2>1. k \in DOMAIN b
    BY <1>1, <1>3
  <2> HIDE DEF k
  <2>2. d \in Seq(RowCell) /\ Len(d) = l - 1 /\ \A m \in 1 .. (l - 1) : d[m] = b[Past(k, m)]
    BY <2>1, Plucked
  <2> HIDE DEF d, l
  <2> QED BY <2>2
<1> HIDE DEF n, l, k, c, d
<1>6. ASSUME NEW j \in 1 .. (n - 1)
      PROVE  g[j] \in 1 .. (l - 1) /\ c[j] = d[g[j]]
  <2> DEFINE j0 == Past(i, j)
  <2>1. j0 \in 1 .. n /\ j0 # i
    BY <1>1, PastAndDown
  <2> HIDE DEF j0
  <2>2. h[j0] \in 1 .. l /\ h[j0] # k
    BY <1>2, <2>1
  <2>3. Down(k, h[j0]) \in 1 .. (l - 1) /\ Past(k, Down(k, h[j0])) = h[j0]
    BY <1>1, <1>3, <2>2, PastAndDown
  <2>4. g[j] = Down(k, h[j0])
    BY DEF j0
  <2> HIDE DEF g
  <2>5. d[g[j]] = b[h[j0]] /\ c[j] = a[j0]
    BY <1>4, <1>5, <2>3, <2>4 DEF j0
  <2> QED BY <1>2, <2>1, <2>3, <2>4, <2>5
<1>7. ASSUME NEW m \in 1 .. (l - 1)
      PROVE  \E j \in 1 .. (n - 1) : g[j] = m
  <2>1. Past(k, m) \in 1 .. l /\ Past(k, m) # k /\ Down(k, Past(k, m)) = m
    BY <1>1, <1>3, PastAndDown
  <2>2. PICK j0 \in 1 .. n : h[j0] = Past(k, m)
    BY <1>2, <2>1
  <2>3. j0 # i
    BY <2>1, <2>2 DEF k
  <2>4. Down(i, j0) \in 1 .. (n - 1) /\ Past(i, Down(i, j0)) = j0
    BY <1>1, <2>3, PastAndDown
  <2>5. g[Down(i, j0)] = m
    BY <2>1, <2>2, <2>4
  <2> QED BY <2>4, <2>5
<1>8. g \in [DOMAIN c -> DOMAIN d]
  <2>1. DOMAIN g = DOMAIN c /\ g = [j \in DOMAIN c |-> g[j]]
    BY <1>4
  <2> HIDE DEF g
  <2> QED BY <1>4, <1>5, <1>6, <2>1
<1> HIDE DEF g
<1>9. Follows(g, c, d)
  BY <1>4, <1>5, <1>6, <1>7, <1>8 DEF Follows
<1> QED BY <1>9 DEF SameCells, c, d, k

\* Two rows of the same cells on the way to a struct: as long as the first is
\* not refused, nor is the second, and both have filled the same.
FilledAlike(x, y) ==
  /\ x \in Filling /\ y \in Filling
  /\ x.ok => y.ok /\ x.filled = y.filled /\ SameCells(x.row, y.row)

LEMMA FillsAlike ==
  ASSUME NEW x, NEW y, FilledAlike(x, y), NEW f
  PROVE  FilledAlike(FillField(x, f), FillField(y, f))
<1>1. x \in Filling /\ y \in Filling /\ FillField(x, f) \in Filling /\ FillField(y, f) \in Filling
  BY FillFieldTyped DEF FilledAlike
<1>2. CASE x.ok /\ One(Matching(x.row, f))
  <2>1. y.ok /\ x.filled = y.filled /\ SameCells(x.row, y.row)
    BY <1>2 DEF FilledAlike
  <2>2. PICK h : Follows(h, x.row, y.row)
    BY <2>1 DEF SameCells
  <2>3. PICK i : Matching(x.row, f) = {i}
    BY <1>2 DEF One
  <2>4. /\ i \in DOMAIN x.row /\ Matching(y.row, f) = {h[i]}
        /\ \A j \in DOMAIN x.row : h[j] = h[i] => j = i
    BY <2>2, <2>3, FoundElsewhere, SMTT(30)
  <2>5. x.row[i] = y.row[h[i]]
    BY <2>2, <2>4 DEF Follows
  <2>6. x.row \in Seq(RowCell) /\ y.row \in Seq(RowCell)
    BY <1>1 DEF Filling
  <2>7. SameCells(Pluck(x.row, i), Pluck(y.row, h[i]))
    BY <2>2, <2>4, <2>6, PluckedAlike
  <2>8. One(Matching(y.row, f))
    BY <2>4 DEF One
  <2>9. (CHOOSE p \in Matching(x.row, f) : TRUE) = i /\ (CHOOSE p \in Matching(y.row, f) : TRUE) = h[i]
    BY <2>3, <2>4
  <2>10. FillField(x, f) = [row |-> Pluck(x.row, i), ok |-> TRUE,
            filled |-> Append(x.filled, [key |-> x.row[i].key, value |-> x.row[i].value])]
    BY <1>2, <2>9 DEF FillField
  <2>11. FillField(y, f) = [row |-> Pluck(y.row, h[i]), ok |-> TRUE,
            filled |-> Append(y.filled, [key |-> y.row[h[i]].key, value |-> y.row[h[i]].value])]
    BY <2>1, <2>8, <2>9 DEF FillField
  <2> QED BY <1>1, <2>1, <2>5, <2>7, <2>10, <2>11 DEF FilledAlike
<1>3. CASE ~(x.ok /\ One(Matching(x.row, f)))
  <2>1. FillField(x, f) = [row |-> x.row, ok |-> FALSE, filled |-> x.filled]
    BY <1>3 DEF FillField
  <2>2. FillField(x, f).ok = FALSE
    BY <2>1
  <2> QED BY <1>1, <2>2 DEF FilledAlike
<1> QED BY <1>2, <1>3

\* A struct is filled alike from any arrangement of a row that fills it.
LEMMA ArrangedAlike ==
  ASSUME NEW r \in Seq(RowCell), NEW struct \in Structs, NEW p \in Bijection(DOMAIN r, DOMAIN r),
         FromRow([i \in DOMAIN r |-> r[p[i]]], struct).ok
  PROVE  FromRow([i \in DOMAIN r |-> r[p[i]]], struct).filled = FromRow(r, struct).filled
<1> DEFINE a == [i \in DOMAIN r |-> r[p[i]]]
           N == Len(struct)
<1>1. p \in [DOMAIN r -> DOMAIN r] /\ \A m \in DOMAIN r : \E j \in DOMAIN r : p[j] = m
  BY DEF Bijection, Surjection, Injection
<1>2. a \in Seq(RowCell) /\ DOMAIN a = DOMAIN r
  <2>1. DOMAIN r = 1 .. Len(r) /\ Len(r) \in Nat /\ \A i \in DOMAIN r : r[i] \in RowCell
    OBVIOUS
  <2>2. \A i \in 1 .. Len(r) : r[p[i]] \in RowCell
    BY <1>1, <2>1
  <2>3. a = [i \in 1 .. Len(r) |-> r[p[i]]]
    BY <2>1
  <2> HIDE DEF a
  <2> QED BY <2>1, <2>2, <2>3
<1>3. SameCells(a, r)
  <2>1. Follows(p, a, r)
    BY <1>1, <1>2 DEF Follows
  <2> QED BY <2>1 DEF SameCells
<1> HIDE DEF a
<1>4. PICK accA : FromRowBy(a, struct, accA)
  BY <1>2, FromRowSteps
<1>5. PICK accB : FromRowBy(r, struct, accB)
  BY FromRowSteps
<1> DEFINE S == {n \in 0 .. N : FilledAlike(accA[n], accB[n])}
<1>6. N \in Nat
  BY RowsAssumption DEF IsSequence
<1>7. 0 \in S
  <2>1. accA[0] = [row |-> a, filled |-> <<>>, ok |-> TRUE]
    BY <1>4 DEF FromRowBy
  <2>2. accB[0] = [row |-> r, filled |-> <<>>, ok |-> TRUE]
    BY <1>5 DEF FromRowBy
  <2>3. FilledAlike(accA[0], accB[0])
    BY <1>2, <1>3, <2>1, <2>2 DEF FilledAlike, Filling
  <2> QED BY <1>6, <2>3
<1>8. ASSUME NEW n \in 1 .. N, n - 1 \in S PROVE n \in S
  <2>1. accA[n] = FillField(accA[n - 1], struct[n])
    BY <1>4 DEF FromRowBy
  <2>2. accB[n] = FillField(accB[n - 1], struct[n])
    BY <1>5 DEF FromRowBy
  <2> DEFINE x == accA[n - 1]
             y == accB[n - 1]
  <2>3. FilledAlike(x, y) /\ n \in 0 .. N
    BY <1>6, <1>8
  <2> HIDE DEF x, y
  <2>4. FilledAlike(FillField(x, struct[n]), FillField(y, struct[n]))
    BY <2>3, FillsAlike
  <2> QED BY <2>1, <2>2, <2>3, <2>4 DEF x, y
<1> HIDE DEF S
<1>9. N \in S
  <2>1. 0 .. N \subseteq S
    BY <1>6, <1>7, <1>8, Upwards
  <2>2. N \in 0 .. N
    BY <1>6
  <2> QED BY <2>1, <2>2
<1>10. FilledAlike(accA[N], accB[N])
  BY <1>9 DEF S
<1>11. accA[N] = FromRow(a, struct) /\ accB[N] = FromRow(r, struct)
  BY <1>4, <1>5 DEF FromRowBy
<1>12. FromRow(a, struct).ok
  BY DEF a
<1>13. FromRow(a, struct).filled = FromRow(r, struct).filled
  BY <1>10, <1>11, <1>12 DEF FilledAlike
<1> QED BY <1>13 DEF a

\* The order the columns were selected in does not matter to a struct.
THEOREM OrderIgnored == RowsSpec => []StructsIgnoreTheOrder
<1>1. RowsIInv => StructsIgnoreTheOrder
  <2> SUFFICES ASSUME row \in Seq(RowCell)
               PROVE  StructsIgnoreTheOrder
    BY DEF RowsIInv, RowIsTyped
  <2> QED BY ArrangedAlike DEF StructsIgnoreTheOrder
<1> QED BY <1>1, RowsInvariance, PTL

\* No join of a query takes presence back, and the next query begins anew.
THEOREM RowsKeepPresence == RowsSpec => NullabilityIsSticky
<1> DEFINE Grows == scope # <<>> /\ scope' # <<>> =>
                      /\ Len(scope') = Len(scope) + 1
                      /\ \A i \in DOMAIN scope :
                           /\ scope'[i + 1].table = scope[i].table
                           /\ scope[i].null = MaybeNull => scope'[i + 1].null = MaybeNull
<1>1. RowsIInv /\ [RowsNext]_allVars => [Grows]_scope
  <2> SUFFICES ASSUME RowsIInv, [RowsNext]_allVars, scope # <<>>, scope' # <<>>, scope' # scope
               PROVE  Grows
    OBVIOUS
  <2>1. PICK t \in Table, body \in Bodies \cup {<<>>} : Source(t, body)
    BY DEF RowsNext, Load, CloseQuery, Take, IntoStruct, IntoTuple, allVars, vars
  <2>2. PICK kind \in Kind : scope' = Joined(kind, t)
    BY <2>1 DEF Source, From, Join
  <2> QED BY <2>2, JoinedScope DEF RowsIInv, IInv
<1>2. RowsSpec => [][Grows]_scope
  BY <1>1, RowsInvariance, PTL DEF RowsSpec
<1> QED BY <1>2 DEF NullabilityIsSticky
=============================================================================
