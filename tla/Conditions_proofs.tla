-------------------------- MODULE Conditions_proofs --------------------------
(***************************************************************************)
(* What holds of every condition, whatever the tables, the lists and the   *)
(* calls that put it together: the text it renders to is read back as it   *)
(* was built, each name in it is found, and a collection answers for its   *)
(* members.                                                                *)
(***************************************************************************)
EXTENDS Conditions, FoldTheorems, FiniteSetTheorems

(***************************************************************************)
(* The folds, one element at a time: a tree evaluated, a text read and     *)
(* conditions joined.                                                      *)
(***************************************************************************)
JoinedTo(op, start, kinds) == FoldLeft(LAMBDA acc, kind : Tree(Op(op), <<acc, kind>>), start, kinds)

SettlingTable(make, stack, tree, it, N) ==
  it = [s \in SUBSET (1 .. N) |->
          IF s = {} THEN stack ELSE Settle(make, it[s \ {Max(s)}], tree[Max(s)])]

LEMMA SettlingTables ==
  ASSUME NEW make, NEW stack, NEW tree, NEW N \in Nat
  PROVE  \E it : SettlingTable(make, stack, tree, it, N)
<1> DEFINE S == {n \in Nat : \E it : SettlingTable(make, stack, tree, it, n)}
<1>1. 0 \in S
  <2>1. \A s \in SUBSET (1 .. 0) : s = {}
    OBVIOUS
  <2>2. SettlingTable(make, stack, tree, [s \in SUBSET (1 .. 0) |-> stack], 0)
    BY <2>1 DEF SettlingTable
  <2> QED BY <2>2
<1>2. ASSUME NEW n \in Nat, n \in S PROVE n + 1 \in S
  <2>1. PICK it : SettlingTable(make, stack, tree, it, n)
    BY <1>2
  <2> DEFINE more == [s \in SUBSET (1 .. (n + 1)) |->
                        IF n + 1 \in s THEN Settle(make, it[s \ {n + 1}], tree[n + 1]) ELSE it[s]]
  <2>2. ASSUME NEW s \in SUBSET (1 .. (n + 1))
        PROVE  more[s] = IF s = {} THEN stack ELSE Settle(make, more[s \ {Max(s)}], tree[Max(s)])
    <3>1. CASE n + 1 \in s
      <4>1. Max(s) = n + 1
        <5>1. n + 1 \in Nat /\ s # {}
          BY <3>1
        <5>2. Max(s) \in s /\ n + 1 <= Max(s)
          BY <3>1, <5>1, Greatest
        <5>3. Max(s) \in 1 .. (n + 1)
          BY <5>2
        <5> HIDE DEF more
        <5> QED BY <5>2, <5>3
      <4>2. s \ {n + 1} \in SUBSET (1 .. (n + 1)) /\ n + 1 \notin s \ {n + 1}
        OBVIOUS
      <4>3. more[s \ {n + 1}] = it[s \ {n + 1}]
        BY <4>2
      <4> QED BY <3>1, <4>1, <4>3
    <3>2. CASE n + 1 \notin s
      <4>1. s \in SUBSET (1 .. n) /\ more[s] = it[s]
        BY <3>2
      <4>2. it[s] = IF s = {} THEN stack ELSE Settle(make, it[s \ {Max(s)}], tree[Max(s)])
        BY <2>1, <4>1 DEF SettlingTable
      <4>3. s \ {Max(s)} \in SUBSET (1 .. (n + 1)) /\ n + 1 \notin s \ {Max(s)}
        BY <3>2
      <4>4. more[s \ {Max(s)}] = it[s \ {Max(s)}]
        BY <4>3
      <4> QED BY <4>1, <4>2, <4>4
    <3> QED BY <3>1, <3>2
  <2>3. more = [s \in SUBSET (1 .. (n + 1)) |-> more[s]]
    OBVIOUS
  <2> HIDE DEF more
  <2>4. SettlingTable(make, stack, tree, more, n + 1)
    BY <2>2, <2>3 DEF SettlingTable
  <2> QED BY <2>4
<1> HIDE DEF S
<1>3. N \in S
  BY <1>1, <1>2, EveryNumber
<1> QED BY <1>3 DEF S

\* The stacks a tree is settled through, one more of its nodes each.
Settling(make, stack, tree, acc) ==
  /\ acc[0] = stack /\ acc[Len(tree)] = Settled(make, stack, tree)
  /\ \A n \in 1 .. Len(tree) : acc[n] = Settle(make, acc[n - 1], tree[n])

LEMMA SettlingSteps ==
  ASSUME NEW make, NEW stack, NEW tree, NEW S, tree \in Seq(S)
  PROVE  \E acc : Settling(make, stack, tree, acc)
<1> DEFINE N == Len(tree)
<1>1. N \in Nat /\ DOMAIN tree = 1 .. N
  OBVIOUS
<1> HIDE DEF N
<1>2. PICK it : SettlingTable(make, stack, tree, it, N)
  BY <1>1, SettlingTables
<1> DEFINE iter == CHOOSE iter : iter = [s \in SUBSET DOMAIN tree |->
           IF s = {} THEN stack ELSE Settle(make, iter[s \ {Max(s)}], tree[Max(s)])]
<1>3. it = [s \in SUBSET DOMAIN tree |->
           IF s = {} THEN stack ELSE Settle(make, it[s \ {Max(s)}], tree[Max(s)])]
  BY <1>1, <1>2 DEF SettlingTable
<1>4. iter = [s \in SUBSET DOMAIN tree |->
           IF s = {} THEN stack ELSE Settle(make, iter[s \ {Max(s)}], tree[Max(s)])]
  BY <1>3
<1>5. Settled(make, stack, tree) = iter[DOMAIN tree]
  BY Zenon DEF FoldLeft, MapThenFoldSet, Settled
<1> HIDE DEF iter
<1> DEFINE acc == [n \in 0 .. N |-> iter[1 .. n]]
<1>6. acc[0] = stack /\ acc[N] = Settled(make, stack, tree)
  <2>1. {} \in SUBSET DOMAIN tree /\ 1 .. 0 = {} /\ 0 \in 0 .. N /\ N \in 0 .. N
    BY <1>1
  <2>2. iter[{}] = stack
    BY <1>4, <2>1
  <2> QED BY <1>1, <1>5, <2>1, <2>2
<1>7. ASSUME NEW n \in 1 .. N
      PROVE  acc[n] = Settle(make, acc[n - 1], tree[n])
  <2>1. n \in Nat /\ n # 0 /\ n \in 0 .. N /\ n - 1 \in 0 .. N
    BY <1>1
  <2>2. 1 .. n # {} /\ Max(1 .. n) = n /\ (1 .. n) \ {n} = 1 .. (n - 1)
    BY <2>1, Intervals
  <2>3. 1 .. n \in SUBSET DOMAIN tree
    BY <1>1
  <2>4. iter[1 .. n] = Settle(make, iter[1 .. (n - 1)], tree[n])
    BY <1>4, <2>2, <2>3
  <2> QED BY <2>1, <2>4
<1> HIDE DEF acc
<1> QED BY <1>6, <1>7 DEF Settling, N

-----------------------------------------------------------------------------
ReadingTable(reader, text, it, N) ==
  it = [s \in SUBSET (1 .. N) |->
          IF s = {} THEN reader ELSE ReadToken(it[s \ {Max(s)}], text[Max(s)])]

LEMMA ReadingTables ==
  ASSUME NEW reader, NEW text, NEW N \in Nat
  PROVE  \E it : ReadingTable(reader, text, it, N)
<1> DEFINE S == {n \in Nat : \E it : ReadingTable(reader, text, it, n)}
<1>1. 0 \in S
  <2>1. \A s \in SUBSET (1 .. 0) : s = {}
    OBVIOUS
  <2>2. ReadingTable(reader, text, [s \in SUBSET (1 .. 0) |-> reader], 0)
    BY <2>1 DEF ReadingTable
  <2> QED BY <2>2
<1>2. ASSUME NEW n \in Nat, n \in S PROVE n + 1 \in S
  <2>1. PICK it : ReadingTable(reader, text, it, n)
    BY <1>2
  <2> DEFINE more == [s \in SUBSET (1 .. (n + 1)) |->
                        IF n + 1 \in s THEN ReadToken(it[s \ {n + 1}], text[n + 1]) ELSE it[s]]
  <2>2. ASSUME NEW s \in SUBSET (1 .. (n + 1))
        PROVE  more[s] = IF s = {} THEN reader ELSE ReadToken(more[s \ {Max(s)}], text[Max(s)])
    <3>1. CASE n + 1 \in s
      <4>1. Max(s) = n + 1
        <5>1. n + 1 \in Nat /\ s # {}
          BY <3>1
        <5>2. Max(s) \in s /\ n + 1 <= Max(s)
          BY <3>1, <5>1, Greatest
        <5>3. Max(s) \in 1 .. (n + 1)
          BY <5>2
        <5> HIDE DEF more
        <5> QED BY <5>2, <5>3
      <4>2. s \ {n + 1} \in SUBSET (1 .. (n + 1)) /\ n + 1 \notin s \ {n + 1}
        OBVIOUS
      <4>3. more[s \ {n + 1}] = it[s \ {n + 1}]
        BY <4>2
      <4> QED BY <3>1, <4>1, <4>3
    <3>2. CASE n + 1 \notin s
      <4>1. s \in SUBSET (1 .. n) /\ more[s] = it[s]
        BY <3>2
      <4>2. it[s] = IF s = {} THEN reader ELSE ReadToken(it[s \ {Max(s)}], text[Max(s)])
        BY <2>1, <4>1 DEF ReadingTable
      <4>3. s \ {Max(s)} \in SUBSET (1 .. (n + 1)) /\ n + 1 \notin s \ {Max(s)}
        BY <3>2
      <4>4. more[s \ {Max(s)}] = it[s \ {Max(s)}]
        BY <4>3
      <4> QED BY <4>1, <4>2, <4>4
    <3> QED BY <3>1, <3>2
  <2>3. more = [s \in SUBSET (1 .. (n + 1)) |-> more[s]]
    OBVIOUS
  <2> HIDE DEF more
  <2>4. ReadingTable(reader, text, more, n + 1)
    BY <2>2, <2>3 DEF ReadingTable
  <2> QED BY <2>4
<1> HIDE DEF S
<1>3. N \in S
  BY <1>1, <1>2, EveryNumber
<1> QED BY <1>3 DEF S

\* The readers a text is read through, one more of its tokens each.
Reading(reader, text, acc) ==
  /\ acc[0] = reader /\ acc[Len(text)] = ReadOn(reader, text)
  /\ \A n \in 1 .. Len(text) : acc[n] = ReadToken(acc[n - 1], text[n])

LEMMA ReadingSteps ==
  ASSUME NEW reader, NEW text, NEW S, text \in Seq(S)
  PROVE  \E acc : Reading(reader, text, acc)
<1> DEFINE N == Len(text)
<1>1. N \in Nat /\ DOMAIN text = 1 .. N
  OBVIOUS
<1> HIDE DEF N
<1>2. PICK it : ReadingTable(reader, text, it, N)
  BY <1>1, ReadingTables
<1> DEFINE iter == CHOOSE iter : iter = [s \in SUBSET DOMAIN text |->
           IF s = {} THEN reader ELSE ReadToken(iter[s \ {Max(s)}], text[Max(s)])]
<1>3. it = [s \in SUBSET DOMAIN text |->
           IF s = {} THEN reader ELSE ReadToken(it[s \ {Max(s)}], text[Max(s)])]
  BY <1>1, <1>2 DEF ReadingTable
<1>4. iter = [s \in SUBSET DOMAIN text |->
           IF s = {} THEN reader ELSE ReadToken(iter[s \ {Max(s)}], text[Max(s)])]
  BY <1>3
<1>5. ReadOn(reader, text) = iter[DOMAIN text]
  BY Zenon DEF FoldLeft, MapThenFoldSet, ReadOn
<1> HIDE DEF iter
<1> DEFINE acc == [n \in 0 .. N |-> iter[1 .. n]]
<1>6. acc[0] = reader /\ acc[N] = ReadOn(reader, text)
  <2>1. {} \in SUBSET DOMAIN text /\ 1 .. 0 = {} /\ 0 \in 0 .. N /\ N \in 0 .. N
    BY <1>1
  <2>2. iter[{}] = reader
    BY <1>4, <2>1
  <2> QED BY <1>1, <1>5, <2>1, <2>2
<1>7. ASSUME NEW n \in 1 .. N
      PROVE  acc[n] = ReadToken(acc[n - 1], text[n])
  <2>1. n \in Nat /\ n # 0 /\ n \in 0 .. N /\ n - 1 \in 0 .. N
    BY <1>1
  <2>2. 1 .. n # {} /\ Max(1 .. n) = n /\ (1 .. n) \ {n} = 1 .. (n - 1)
    BY <2>1, Intervals
  <2>3. 1 .. n \in SUBSET DOMAIN text
    BY <1>1
  <2>4. iter[1 .. n] = ReadToken(iter[1 .. (n - 1)], text[n])
    BY <1>4, <2>2, <2>3
  <2> QED BY <2>1, <2>4
<1> HIDE DEF acc
<1> QED BY <1>6, <1>7 DEF Reading, N

-----------------------------------------------------------------------------
JoiningTable(op, start, kinds, it, N) ==
  it = [s \in SUBSET (1 .. N) |->
          IF s = {} THEN start ELSE Tree(Op(op), <<it[s \ {Max(s)}], kinds[Max(s)]>>)]

LEMMA JoiningTables ==
  ASSUME NEW op, NEW start, NEW kinds, NEW N \in Nat
  PROVE  \E it : JoiningTable(op, start, kinds, it, N)
<1> DEFINE S == {n \in Nat : \E it : JoiningTable(op, start, kinds, it, n)}
<1>1. 0 \in S
  <2>1. \A s \in SUBSET (1 .. 0) : s = {}
    OBVIOUS
  <2>2. JoiningTable(op, start, kinds, [s \in SUBSET (1 .. 0) |-> start], 0)
    BY <2>1 DEF JoiningTable
  <2> QED BY <2>2
<1>2. ASSUME NEW n \in Nat, n \in S PROVE n + 1 \in S
  <2>1. PICK it : JoiningTable(op, start, kinds, it, n)
    BY <1>2
  <2> DEFINE more == [s \in SUBSET (1 .. (n + 1)) |->
                        IF n + 1 \in s THEN Tree(Op(op), <<it[s \ {n + 1}], kinds[n + 1]>>) ELSE it[s]]
  <2>2. ASSUME NEW s \in SUBSET (1 .. (n + 1))
        PROVE  more[s] = IF s = {} THEN start ELSE Tree(Op(op), <<more[s \ {Max(s)}], kinds[Max(s)]>>)
    <3>1. CASE n + 1 \in s
      <4>1. Max(s) = n + 1
        <5>1. n + 1 \in Nat /\ s # {}
          BY <3>1
        <5>2. Max(s) \in s /\ n + 1 <= Max(s)
          BY <3>1, <5>1, Greatest
        <5>3. Max(s) \in 1 .. (n + 1)
          BY <5>2
        <5> HIDE DEF more
        <5> QED BY <5>2, <5>3
      <4>2. s \ {n + 1} \in SUBSET (1 .. (n + 1)) /\ n + 1 \notin s \ {n + 1}
        OBVIOUS
      <4>3. more[s \ {n + 1}] = it[s \ {n + 1}]
        BY <4>2
      <4> QED BY <3>1, <4>1, <4>3
    <3>2. CASE n + 1 \notin s
      <4>1. s \in SUBSET (1 .. n) /\ more[s] = it[s]
        BY <3>2
      <4>2. it[s] = IF s = {} THEN start ELSE Tree(Op(op), <<it[s \ {Max(s)}], kinds[Max(s)]>>)
        BY <2>1, <4>1 DEF JoiningTable
      <4>3. s \ {Max(s)} \in SUBSET (1 .. (n + 1)) /\ n + 1 \notin s \ {Max(s)}
        BY <3>2
      <4>4. more[s \ {Max(s)}] = it[s \ {Max(s)}]
        BY <4>3
      <4> QED BY <4>1, <4>2, <4>4
    <3> QED BY <3>1, <3>2
  <2>3. more = [s \in SUBSET (1 .. (n + 1)) |-> more[s]]
    OBVIOUS
  <2> HIDE DEF more
  <2>4. JoiningTable(op, start, kinds, more, n + 1)
    BY <2>2, <2>3 DEF JoiningTable
  <2> QED BY <2>4
<1> HIDE DEF S
<1>3. N \in S
  BY <1>1, <1>2, EveryNumber
<1> QED BY <1>3 DEF S

\* The conditions joined, one more each.
Joining(op, start, kinds, acc) ==
  /\ acc[0] = start /\ acc[Len(kinds)] = JoinedTo(op, start, kinds)
  /\ \A n \in 1 .. Len(kinds) : acc[n] = Tree(Op(op), <<acc[n - 1], kinds[n]>>)

LEMMA JoiningSteps ==
  ASSUME NEW op, NEW start, NEW kinds, NEW S, kinds \in Seq(S)
  PROVE  \E acc : Joining(op, start, kinds, acc)
<1> DEFINE N == Len(kinds)
<1>1. N \in Nat /\ DOMAIN kinds = 1 .. N
  OBVIOUS
<1> HIDE DEF N
<1>2. PICK it : JoiningTable(op, start, kinds, it, N)
  BY <1>1, JoiningTables
<1> DEFINE iter == CHOOSE iter : iter = [s \in SUBSET DOMAIN kinds |->
           IF s = {} THEN start ELSE Tree(Op(op), <<iter[s \ {Max(s)}], kinds[Max(s)]>>)]
<1>3. it = [s \in SUBSET DOMAIN kinds |->
           IF s = {} THEN start ELSE Tree(Op(op), <<it[s \ {Max(s)}], kinds[Max(s)]>>)]
  BY <1>1, <1>2 DEF JoiningTable
<1>4. iter = [s \in SUBSET DOMAIN kinds |->
           IF s = {} THEN start ELSE Tree(Op(op), <<iter[s \ {Max(s)}], kinds[Max(s)]>>)]
  BY <1>3
<1>5. JoinedTo(op, start, kinds) = iter[DOMAIN kinds]
  BY Zenon DEF FoldLeft, MapThenFoldSet, JoinedTo
<1> HIDE DEF iter
<1> DEFINE acc == [n \in 0 .. N |-> iter[1 .. n]]
<1>6. acc[0] = start /\ acc[N] = JoinedTo(op, start, kinds)
  <2>1. {} \in SUBSET DOMAIN kinds /\ 1 .. 0 = {} /\ 0 \in 0 .. N /\ N \in 0 .. N
    BY <1>1
  <2>2. iter[{}] = start
    BY <1>4, <2>1
  <2> QED BY <1>1, <1>5, <2>1, <2>2
<1>7. ASSUME NEW n \in 1 .. N
      PROVE  acc[n] = Tree(Op(op), <<acc[n - 1], kinds[n]>>)
  <2>1. n \in Nat /\ n # 0 /\ n \in 0 .. N /\ n - 1 \in 0 .. N
    BY <1>1
  <2>2. 1 .. n # {} /\ Max(1 .. n) = n /\ (1 .. n) \ {n} = 1 .. (n - 1)
    BY <2>1, Intervals
  <2>3. 1 .. n \in SUBSET DOMAIN kinds
    BY <1>1
  <2>4. iter[1 .. n] = Tree(Op(op), <<iter[1 .. (n - 1)], kinds[n]>>)
    BY <1>4, <2>2, <2>3
  <2> QED BY <2>1, <2>4
<1> HIDE DEF acc
<1> QED BY <1>6, <1>7 DEF Joining, N

\* A text is read token by token: none, one, and one text after another.
LEMMA ReadNone == ASSUME NEW reader PROVE ReadOn(reader, <<>>) = reader
<1>1. PICK acc : Reading(reader, <<>>, acc)
  <2>1. <<>> \in Seq({})
    OBVIOUS
  <2> QED BY <2>1, ReadingSteps
<1> QED BY <1>1 DEF Reading

LEMMA ReadOne == ASSUME NEW reader, NEW t PROVE ReadOn(reader, <<t>>) = ReadToken(reader, t)
<1>1. PICK acc : Reading(reader, <<t>>, acc)
  <2>1. <<t>> \in Seq({t})
    OBVIOUS
  <2> QED BY <2>1, ReadingSteps
<1>2. Len(<<t>>) = 1 /\ <<t>>[1] = t
  OBVIOUS
<1>3. acc[1] = ReadToken(acc[1 - 1], t)
  BY <1>1, <1>2 DEF Reading
<1> QED BY <1>1, <1>2, <1>3 DEF Reading

LEMMA ReadJoined ==
  ASSUME NEW reader, NEW S, NEW a \in Seq(S), NEW b \in Seq(S)
  PROVE  ReadOn(reader, a \o b) = ReadOn(ReadOn(reader, a), b)
<1> DEFINE M == Len(a)
           N == Len(b)
           mid == ReadOn(reader, a)
<1>1. /\ a \o b \in Seq(S) /\ M \in Nat /\ N \in Nat /\ Len(a \o b) = M + N
      /\ \A n \in 1 .. M : (a \o b)[n] = a[n]
      /\ \A n \in 1 .. N : (a \o b)[M + n] = b[n]
  BY ConcatProperties, LenProperties
<1>2. PICK ra : Reading(reader, a, ra)
  BY ReadingSteps
<1>3. PICK rb : Reading(mid, b, rb)
  BY ReadingSteps
<1>4. PICK rc : Reading(reader, a \o b, rc)
  BY <1>1, ReadingSteps
<1>5. \A n \in 1 .. M : n - 1 \in 0 .. M /\ n \in 1 .. (M + N)
  BY <1>1
<1>6. \A n \in 1 .. N : n - 1 \in 0 .. N /\ M + n \in 1 .. (M + N) /\ (M + n) - 1 = M + (n - 1)
  BY <1>1
<1> DEFINE A == {n \in 0 .. M : rc[n] = ra[n]}
           B == {n \in 0 .. N : rc[M + n] = rb[n]}
<1>7. M \in A
  <2>1. 0 \in A
    BY <1>1, <1>2, <1>4 DEF Reading
  <2>2. ASSUME NEW n \in 1 .. M, n - 1 \in A PROVE n \in A
    <3>1. ra[n] = ReadToken(ra[n - 1], a[n])
      BY <1>2 DEF Reading
    <3>2. rc[n] = ReadToken(rc[n - 1], (a \o b)[n])
      BY <1>1, <1>4, <1>5 DEF Reading
    <3> QED BY <1>1, <2>2, <3>1, <3>2
  <2> HIDE DEF A
  <2>3. 0 .. M \subseteq A
    BY <1>1, <2>1, <2>2, Upwards
  <2>4. M \in 0 .. M
    BY <1>1
  <2> QED BY <2>3, <2>4
<1>8. N \in B
  <2>1. 0 \in B
    <3>1. rc[M] = mid /\ rb[0] = mid
      BY <1>2, <1>3, <1>7 DEF Reading
    <3> QED BY <1>1, <3>1
  <2>2. ASSUME NEW n \in 1 .. N, n - 1 \in B PROVE n \in B
    <3>1. rb[n] = ReadToken(rb[n - 1], b[n])
      BY <1>3 DEF Reading
    <3>2. rc[M + n] = ReadToken(rc[M + (n - 1)], (a \o b)[M + n])
      BY <1>1, <1>4, <1>6 DEF Reading
    <3> QED BY <1>1, <2>2, <3>1, <3>2
  <2> HIDE DEF B
  <2>3. 0 .. N \subseteq B
    BY <1>1, <2>1, <2>2, Upwards
  <2>4. N \in 0 .. N
    BY <1>1
  <2> QED BY <2>3, <2>4
<1>9. ReadOn(reader, a \o b) = rc[M + N] /\ ReadOn(mid, b) = rb[N]
  BY <1>1, <1>3, <1>4 DEF Reading
<1> QED BY <1>8, <1>9

LEMMA ReadNext ==
  ASSUME NEW reader, NEW S, NEW t \in S, NEW b \in Seq(S)
  PROVE  ReadOn(reader, <<t>> \o b) = ReadOn(ReadToken(reader, t), b)
<1> DEFINE a == <<t>>
<1>1. a \in Seq(S)
  OBVIOUS
<1>2. ReadOn(reader, a) = ReadToken(reader, t)
  BY ReadOne
<1> HIDE DEF a
<1>3. ReadOn(reader, a \o b) = ReadOn(ReadOn(reader, a), b)
  BY <1>1, ReadJoined
<1> QED BY <1>2, <1>3 DEF a

\* A tree is settled node by node.
LEMMA SettledNone == ASSUME NEW make, NEW stack PROVE Settled(make, stack, <<>>) = stack
<1>1. PICK acc : Settling(make, stack, <<>>, acc)
  <2>1. <<>> \in Seq({})
    OBVIOUS
  <2> QED BY <2>1, SettlingSteps
<1> QED BY <1>1 DEF Settling

LEMMA SettledOne == ASSUME NEW make, NEW stack, NEW t PROVE Settled(make, stack, <<t>>) = Settle(make, stack, t)
<1>1. PICK acc : Settling(make, stack, <<t>>, acc)
  <2>1. <<t>> \in Seq({t})
    OBVIOUS
  <2> QED BY <2>1, SettlingSteps
<1>2. Len(<<t>>) = 1 /\ <<t>>[1] = t
  OBVIOUS
<1>3. acc[1] = Settle(make, acc[1 - 1], t)
  BY <1>1, <1>2 DEF Settling
<1> QED BY <1>1, <1>2, <1>3 DEF Settling

LEMMA SettledJoined ==
  ASSUME NEW make, NEW stack, NEW S, NEW a \in Seq(S), NEW b \in Seq(S)
  PROVE  Settled(make, stack, a \o b) = Settled(make, Settled(make, stack, a), b)
<1> DEFINE M == Len(a)
           N == Len(b)
           mid == Settled(make, stack, a)
<1>1. /\ a \o b \in Seq(S) /\ M \in Nat /\ N \in Nat /\ Len(a \o b) = M + N
      /\ \A n \in 1 .. M : (a \o b)[n] = a[n]
      /\ \A n \in 1 .. N : (a \o b)[M + n] = b[n]
  BY ConcatProperties, LenProperties
<1>2. PICK ra : Settling(make, stack, a, ra)
  BY SettlingSteps
<1>3. PICK rb : Settling(make, mid, b, rb)
  BY SettlingSteps
<1>4. PICK rc : Settling(make, stack, a \o b, rc)
  BY <1>1, SettlingSteps
<1>5. \A n \in 1 .. M : n - 1 \in 0 .. M /\ n \in 1 .. (M + N)
  BY <1>1
<1>6. \A n \in 1 .. N : n - 1 \in 0 .. N /\ M + n \in 1 .. (M + N) /\ (M + n) - 1 = M + (n - 1)
  BY <1>1
<1> DEFINE A == {n \in 0 .. M : rc[n] = ra[n]}
           B == {n \in 0 .. N : rc[M + n] = rb[n]}
<1>7. M \in A
  <2>1. 0 \in A
    BY <1>1, <1>2, <1>4 DEF Settling
  <2>2. ASSUME NEW n \in 1 .. M, n - 1 \in A PROVE n \in A
    <3>1. ra[n] = Settle(make, ra[n - 1], a[n])
      BY <1>2 DEF Settling
    <3>2. rc[n] = Settle(make, rc[n - 1], (a \o b)[n])
      BY <1>1, <1>4, <1>5 DEF Settling
    <3> QED BY <1>1, <2>2, <3>1, <3>2
  <2> HIDE DEF A
  <2>3. 0 .. M \subseteq A
    BY <1>1, <2>1, <2>2, Upwards
  <2>4. M \in 0 .. M
    BY <1>1
  <2> QED BY <2>3, <2>4
<1>8. N \in B
  <2>1. 0 \in B
    <3>1. rc[M] = mid /\ rb[0] = mid
      BY <1>2, <1>3, <1>7 DEF Settling
    <3> QED BY <1>1, <3>1
  <2>2. ASSUME NEW n \in 1 .. N, n - 1 \in B PROVE n \in B
    <3>1. rb[n] = Settle(make, rb[n - 1], b[n])
      BY <1>3 DEF Settling
    <3>2. rc[M + n] = Settle(make, rc[M + (n - 1)], (a \o b)[M + n])
      BY <1>1, <1>4, <1>6 DEF Settling
    <3> QED BY <1>1, <2>2, <3>1, <3>2
  <2> HIDE DEF B
  <2>3. 0 .. N \subseteq B
    BY <1>1, <2>1, <2>2, Upwards
  <2>4. N \in 0 .. N
    BY <1>1
  <2> QED BY <2>3, <2>4
<1>9. Settled(make, stack, a \o b) = rc[M + N] /\ Settled(make, mid, b) = rb[N]
  BY <1>1, <1>3, <1>4 DEF Settling
<1> QED BY <1>8, <1>9-----------------------------------------------------------------------------
(***************************************************************************)
(* The trees that can be put together, and induction over them.            *)
(***************************************************************************)
Closed(W) == \A node \in Node : \A of \in Seq(W) : Len(of) = node.arity => Tree(node, of) \in W

Expr == {c \in Seq(Node) : \A W \in SUBSET Seq(Node) : Closed(W) => c \in W}

LEMMA NodeIs ==
  ASSUME NEW node \in Node
  PROVE  node.arity \in Nat
<1>1. CASE node \in {Op(op) : op \in BinaryOp \cup UnaryOp}
  <2>1. PICK op : node = Op(op)
    BY <1>1
  <2> QED BY <2>1 DEF Op
<1>2. CASE node \in {Template(text) : text \in Fragments}
  BY <1>2 DEF Template
<1>3. CASE node \in {Column(t) : t \in Table} \cup {AlwaysNode(yes) : yes \in BOOLEAN}
  BY <1>3 DEF Column, AlwaysNode
<1>4. CASE node \in [op : {"IN LIST"}, arity : {1}, values : Seq(BOOLEAN)]
  <2>1. node.arity \in {1}
    BY Zenon, <1>4
  <2> QED BY <2>1
<1>5. CASE node \in [op : {"query"}, arity : Nat, from : Table]
  BY <1>5
<1> QED BY <1>1, <1>2, <1>3, <1>4, <1>5 DEF Node

LEMMA TreeIs ==
  ASSUME NEW node \in Node, NEW of \in Seq(Seq(Node))
  PROVE  FlattenSeq(of) \in Seq(Node) /\ Tree(node, of) \in Seq(Node)
<1>1. FlattenSeq(of) \in Seq(Node)
  BY Flattened
<1> QED BY <1>1, AppendProperties DEF Tree

LEMMA Members ==
  ASSUME NEW S, NEW T, S \subseteq T, NEW w \in Seq(S)
  PROVE  w \in Seq(T)
OBVIOUS

LEMMA ExprIsClosed == Closed(Expr)
<1> SUFFICES ASSUME NEW node \in Node, NEW of \in Seq(Expr), Len(of) = node.arity
             PROVE  Tree(node, of) \in Expr
  BY DEF Closed
<1>1. of \in Seq(Seq(Node))
  <2>1. Expr \subseteq Seq(Node)
    BY DEF Expr
  <2> QED BY <2>1, Members
<1>2. Tree(node, of) \in Seq(Node)
  BY <1>1, TreeIs
<1>3. ASSUME NEW W \in SUBSET Seq(Node), Closed(W)
      PROVE  Tree(node, of) \in W
  <2>1. Expr \subseteq W
    BY <1>3 DEF Expr
  <2>2. of \in Seq(W)
    BY <2>1, Members
  <2> QED BY <1>3, <2>2 DEF Closed
<1> QED BY <1>2, <1>3 DEF Expr

\* What is kept by every node holds of every tree.
LEMMA Structural ==
  ASSUME NEW W, W \subseteq Expr,
         \A node \in Node : \A of \in Seq(W) : Len(of) = node.arity => Tree(node, of) \in W
  PROVE  W = Expr
<1>1. Closed(W) /\ W \in SUBSET Seq(Node)
  BY DEF Closed, Expr
<1> QED BY <1>1 DEF Expr

LEMMA ExprTree ==
  ASSUME NEW node \in Node, NEW of \in Seq(Expr), Len(of) = node.arity
  PROVE  Tree(node, of) \in Expr
BY ExprIsClosed DEF Closed

LEMMA ExprSeq == Expr \subseteq Seq(Node)
BY DEF Expr
-----------------------------------------------------------------------------
(***************************************************************************)
(* A tree amounts to what its node makes of what its operands amount to.   *)
(***************************************************************************)
Algebra(make, S) == \A node \in Node : \A of \in Seq(S) : Len(of) = node.arity => make[<<node, of>>] \in S

Settles(make, S, c) ==
  /\ Evaluate(make, c) \in S
  /\ \A st \in Seq(S) : Settled(make, st, c) = Append(st, Evaluate(make, c))

LEMMA NewestAndBelow ==
  ASSUME NEW S, NEW st \in Seq(S), NEW vals \in Seq(S)
  PROVE  Newest(st \o vals, Len(vals)) = vals /\ Below(st \o vals, Len(vals)) = st
<1> DEFINE M == Len(st)
           N == Len(vals)
           c == st \o vals
<1>1. M \in Nat /\ N \in Nat
  OBVIOUS
<1>2. /\ c \in Seq(S) /\ Len(c) = M + N
      /\ \A i \in 1 .. M : c[i] = st[i]
      /\ \A i \in 1 .. N : c[M + i] = vals[i]
  BY <1>1, ConcatProperties
<1> HIDE DEF c, M, N
<1>3. (M + N) - N + 1 = M + 1 /\ (M + N) - N = M
  BY <1>1
<1> DEFINE f == SubSeq(c, 1, M)
           g == SubSeq(c, M + 1, M + N)
<1>4. f \in Seq(S) /\ Len(f) = M /\ \A i \in 1 .. M : f[i] = st[i]
  BY <1>1, <1>2
<1>5. g \in Seq(S) /\ Len(g) = N /\ \A i \in 1 .. N : g[i] = vals[i]
  BY <1>1, <1>2
<1> HIDE DEF f, g
<1>6. f = st
  BY <1>1, <1>4, SeqEqual DEF M
<1>7. g = vals
  BY <1>1, <1>5, SeqEqual DEF N
<1>8. Newest(c, N) = g /\ Below(c, N) = f
  BY <1>2, <1>3 DEF Newest, Below, f, g
<1> QED BY <1>6, <1>7, <1>8 DEF c, N

LEMMA AppendOne ==
  ASSUME NEW S, NEW a \in Seq(S), NEW x
  PROVE  Append(a, x) = a \o <<x>>
OBVIOUS

\* The operands settled, one after the other.
LEMMA OperandsSettled ==
  ASSUME NEW make, NEW S, NEW of \in Seq(Seq(Node)), NEW st \in Seq(S),
         \A i \in 1 .. Len(of) : Settles(make, S, of[i])
  PROVE  Settled(make, st, FlattenSeq(of)) = st \o [i \in 1 .. Len(of) |-> Evaluate(make, of[i])]
<1> DEFINE N == Len(of)
           Upto(n) == [i \in 1 .. n |-> Evaluate(make, of[i])]
<1>1. N \in Nat /\ \A i \in 1 .. N : of[i] \in Seq(Node) /\ Evaluate(make, of[i]) \in S
  BY DEF Settles
<1>2. CASE N = 0
  <2>1. of = <<>>
    BY <1>2
  <2>2. FlattenSeq(of) = <<>>
    BY <1>2, <2>1 DEF FlattenSeq
  <2>3. Upto(N) = <<>>
    BY <1>2
  <2>4. st \o <<>> = st
    OBVIOUS
  <2> QED BY <2>2, <2>3, <2>4, SettledNone
<1>3. CASE N # 0
  <2>1. PICK f : /\ FlattenSeq(of) = f[N] /\ f[1] = of[1]
                 /\ \A n \in 1 .. N : n # 1 => f[n] = f[n - 1] \o of[n]
    BY <1>1, <1>3, FlatSteps
  <2> DEFINE I == {n \in 0 .. N : n # 0 => /\ f[n] \in Seq(Node)
                                           /\ Settled(make, st, f[n]) = st \o Upto(n)}
  <2>2. 0 \in I
    BY <1>1
  <2>3. ASSUME NEW n \in 1 .. N, n - 1 \in I PROVE n \in I
    <3>1. n \in 0 .. N /\ n # 0 /\ of[n] \in Seq(Node) /\ Settles(make, S, of[n])
      BY <1>1
    <3>2. CASE n = 1
      <4>1. Settled(make, st, of[1]) = Append(st, Evaluate(make, of[1]))
        BY <3>1, <3>2 DEF Settles
      <4>2. Upto(1) = <<Evaluate(make, of[1])>>
        OBVIOUS
      <4> HIDE DEF Upto
      <4>3. Settled(make, st, of[1]) = st \o Upto(1)
        BY <4>1, <4>2, AppendOne
      <4> QED BY <2>1, <3>1, <3>2, <4>3
    <3>3. CASE n # 1
      <4>1. f[n] = f[n - 1] \o of[n] /\ n - 1 # 0 /\ n - 1 \in Nat
        <5>1. f[n] = f[n - 1] \o of[n]
          BY <2>1, <3>3
        <5>2. n \in Int /\ n >= 1
          BY <1>1
        <5> QED BY <3>3, <5>1, <5>2
      <4>2. f[n - 1] \in Seq(Node) /\ Settled(make, st, f[n - 1]) = st \o Upto(n - 1)
        BY <2>3, <4>1
      <4>3. Upto(n - 1) \in Seq(S)
        BY <1>1, <4>1
      <4>4. Upto(n) = Append(Upto(n - 1), Evaluate(make, of[n]))
        BY <1>1, <4>1
      <4> HIDE DEF Upto
      <4>5. f[n] \in Seq(Node)
        BY <3>1, <4>1, <4>2
      <4>6. st \o Upto(n - 1) \in Seq(S)
        BY <4>3
      <4>7. Settled(make, st, f[n]) = Settled(make, Settled(make, st, f[n - 1]), of[n])
        <5> DEFINE a == f[n - 1]
                   b == of[n]
        <5>1. a \in Seq(Node) /\ b \in Seq(Node) /\ f[n] = a \o b
          BY <3>1, <4>1, <4>2
        <5> HIDE DEF a, b
        <5>2. Settled(make, st, a \o b) = Settled(make, Settled(make, st, a), b)
          BY <5>1, SettledJoined
        <5> QED BY <5>1, <5>2 DEF a, b
      <4>8. Settled(make, st, f[n]) = Append(st \o Upto(n - 1), Evaluate(make, of[n]))
        BY <3>1, <4>2, <4>6, <4>7 DEF Settles
      <4>9. Append(st \o Upto(n - 1), Evaluate(make, of[n])) = st \o Append(Upto(n - 1), Evaluate(make, of[n]))
        <5>1. Evaluate(make, of[n]) \in S
          BY <3>1 DEF Settles
        <5> DEFINE x == Evaluate(make, of[n])
                   u == Upto(n - 1)
        <5>2. x \in S /\ u \in Seq(S)
          BY <4>3, <5>1
        <5> HIDE DEF x, u
        <5>3. Append(st \o u, x) = st \o Append(u, x)
          <6>1. st \o u \in Seq(S) /\ <<x>> \in Seq(S)
            BY <5>2
          <6>2. Append(st \o u, x) = (st \o u) \o <<x>> /\ Append(u, x) = u \o <<x>>
            BY <5>2, <6>1, AppendOne
          <6> QED BY <5>2, <6>1, <6>2, ConcatAssociative
        <5> QED BY <5>3 DEF x, u
      <4> QED BY <3>1, <4>4, <4>5, <4>8, <4>9
    <3> QED BY <3>2, <3>3
  <2>4. N \in I
    <3>1. N \in 0 .. N
      BY <1>1
    <3> HIDE DEF I, N
    <3> QED BY <1>1, <2>2, <2>3, <3>1, Upwards
  <2> QED BY <1>3, <2>1, <2>4
<1> QED BY <1>2, <1>3

\* The operands' values, and the node's.
Values(make, of) == [i \in 1 .. Len(of) |-> Evaluate(make, of[i])]

LEMMA NodeSettled ==
  ASSUME NEW make, NEW S, Algebra(make, S), NEW node \in Node, NEW of \in Seq(Seq(Node)),
         Len(of) = node.arity, \A i \in 1 .. Len(of) : Settles(make, S, of[i])
  PROVE  /\ Settles(make, S, Tree(node, of))
         /\ Evaluate(make, Tree(node, of)) = make[<<node, Values(make, of)>>]
<1> DEFINE vals == Values(make, of)
           x == make[<<node, vals>>]
<1>1. vals \in Seq(S) /\ Len(vals) = node.arity
  <2>1. Len(of) \in Nat /\ \A i \in 1 .. Len(of) : Evaluate(make, of[i]) \in S
    BY DEF Settles
  <2> QED BY <2>1 DEF Values
<1>2. x \in S
  BY <1>1 DEF Algebra
<1> HIDE DEF vals, x
<1>3. ASSUME NEW st \in Seq(S)
      PROVE  Settled(make, st, Tree(node, of)) = Append(st, x)
  <2>1. Settled(make, st, FlattenSeq(of)) = st \o vals
    BY OperandsSettled DEF vals, Values
  <2>2. FlattenSeq(of) \in Seq(Node) /\ <<node>> \in Seq(Node)
    BY TreeIs
  <2>3. Tree(node, of) = FlattenSeq(of) \o <<node>>
    BY <2>2, AppendOne DEF Tree
  <2>4. Settled(make, st, Tree(node, of)) = Settled(make, st \o vals, <<node>>)
    <3> DEFINE a == FlattenSeq(of)
               b == <<node>>
    <3>1. a \in Seq(Node) /\ b \in Seq(Node)
      BY <2>2
    <3>2. Tree(node, of) = a \o b /\ Settled(make, st, a) = st \o vals
      BY <2>1, <2>3
    <3> HIDE DEF a, b
    <3>3. Settled(make, st, a \o b) = Settled(make, Settled(make, st, a), b)
      BY <3>1, SettledJoined
    <3> QED BY <3>2, <3>3 DEF b
  <2>5. Settled(make, st \o vals, <<node>>) = Settle(make, st \o vals, node)
    BY SettledOne
  <2>6. Settle(make, st \o vals, node) = Append(st, x)
    BY <1>1, NewestAndBelow DEF Settle, x
  <2> QED BY <2>4, <2>5, <2>6
<1>4. Evaluate(make, Tree(node, of)) = x
  <2>1. <<>> \in Seq(S)
    OBVIOUS
  <2>2. Last(Append(<<>>, x)) = x
    BY <2>1, FrontAndLast
  <2> QED BY <1>3, <2>1, <2>2 DEF Evaluate
<1> QED BY <1>2, <1>3, <1>4 DEF Settles, x, vals

\* Every tree amounts to something, whatever the algebra.
LEMMA EverySettles ==
  ASSUME NEW make, NEW S, Algebra(make, S), NEW c \in Expr
  PROVE  Settles(make, S, c)
<1> DEFINE W == {e \in Expr : Settles(make, S, e)}
<1>1. ASSUME NEW node \in Node, NEW of \in Seq(W), Len(of) = node.arity
      PROVE  Tree(node, of) \in W
  <2>1. of \in Seq(Expr) /\ \A i \in 1 .. Len(of) : Settles(make, S, of[i])
    OBVIOUS
  <2>2. of \in Seq(Seq(Node))
    BY <2>1, ExprSeq, Members
  <2>3. Tree(node, of) \in Expr
    BY <1>1, <2>1, ExprTree
  <2>4. Settles(make, S, Tree(node, of))
    BY <1>1, <2>1, <2>2, NodeSettled
  <2> QED BY <2>3, <2>4
<1>2. W \subseteq Expr
  OBVIOUS
<1> HIDE DEF W
<1>3. W = Expr
  BY <1>1, <1>2, Structural
<1> QED BY <1>3 DEF W

LEMMA EvaluateTree ==
  ASSUME NEW make, NEW S, Algebra(make, S), NEW node \in Node, NEW of \in Seq(Expr), Len(of) = node.arity
  PROVE  /\ Evaluate(make, Tree(node, of)) = make[<<node, Values(make, of)>>]
         /\ Evaluate(make, Tree(node, of)) \in S
         /\ Values(make, of) \in Seq(S) /\ Len(Values(make, of)) = node.arity
<1>1. of \in Seq(Seq(Node))
  BY ExprSeq, Members
<1>2. \A i \in 1 .. Len(of) : Settles(make, S, of[i])
  <2>1. \A i \in 1 .. Len(of) : of[i] \in Expr
    OBVIOUS
  <2> QED BY <2>1, EverySettles
<1>3. Values(make, of) \in Seq(S) /\ Len(Values(make, of)) = node.arity
  BY <1>2 DEF Values, Settles
<1> QED BY <1>1, <1>2, <1>3, NodeSettled DEF Settles-----------------------------------------------------------------------------
(***************************************************************************)
(* How tight operators bind, and which of those waiting have what is on    *)
(* their right.                                                            *)
(***************************************************************************)
LEMMA Precedences ==
  /\ Precedence("(") = 0 /\ Precedence("SELECT") = 0 /\ Precedence("WHERE") = 0
  /\ Precedence("OR") = 1 /\ Precedence("AND") = 2 /\ Precedence("NOT") = 3
  /\ \A op \in IsNull : Precedence(op) = 4
  /\ \A op \in {"=", "IN", "NOT IN", "IN LIST"} : Precedence(op) = 5
  /\ Precedence("EXISTS") = 6
<1>1. Precedence("(") = 0
  BY DEF Precedence, IsNull
<1>2. Precedence("SELECT") = 0 /\ Precedence("WHERE") = 0
  BY DEF Precedence, IsNull
<1>3. Precedence("OR") = 1 /\ Precedence("AND") = 2 /\ Precedence("NOT") = 3
  BY DEF Precedence, IsNull
<1>4. \A op \in IsNull : Precedence(op) = 4
  BY DEF Precedence, IsNull
<1>5. \A op \in {"=", "IN", "NOT IN", "IN LIST"} : Precedence(op) = 5
  BY DEF Precedence, IsNull
<1>6. Precedence("EXISTS") = 6
  BY DEF Precedence, IsNull
<1> QED BY <1>1, <1>2, <1>3, <1>4, <1>5, <1>6
At(out, ops) == [out |-> out, ops |-> ops]

\* Of the operators waiting, those past the last that binds less tight.
LEMMA Waiting ==
  ASSUME NEW out, NEW ops \in Seq(Token), NEW pend \in Seq(Token), NEW atLeast,
         ops # <<>> => ~(Precedence(ops[Len(ops)].op) >= atLeast),
         \A i \in 1 .. Len(pend) : Precedence(pend[i].op) >= atLeast
  PROVE  Reduce(At(out, ops \o pend), atLeast) = At(out \o Reverse(pend), ops)
<1> DEFINE M == Len(ops)
           N == Len(pend)
           c == ops \o pend
           s == At(out, c)
           waiting == {i \in DOMAIN c : \A j \in i .. Len(c) : Precedence(c[j].op) >= atLeast}
<1>1. M \in Nat /\ N \in Nat
  OBVIOUS
<1>2. /\ c \in Seq(Token) /\ Len(c) = M + N /\ DOMAIN c = 1 .. (M + N)
      /\ \A i \in 1 .. M : c[i] = ops[i]
      /\ \A i \in 1 .. N : c[M + i] = pend[i]
  BY <1>1, ConcatProperties
<1>3. s.ops = c /\ s.out = out
  BY DEF At
<1> HIDE DEF s, c
<1>4. waiting = (M + 1) .. (M + N)
  <2>1. ASSUME NEW i \in 1 .. (M + N), i \in 1 .. M
        PROVE  \E j \in i .. (M + N) : ~(Precedence(c[j].op) >= atLeast)
    <3>1. M \in 1 .. M /\ M \in i .. (M + N) /\ ops # <<>>
      BY <1>1, <2>1
    <3>2. c[M] = ops[M]
      BY <1>2, <3>1
    <3>3. ~(Precedence(ops[M].op) >= atLeast)
      BY <3>1
    <3> QED BY <3>1, <3>2, <3>3
  <2>2. ASSUME NEW i \in (M + 1) .. (M + N), NEW j \in i .. (M + N)
        PROVE  Precedence(c[j].op) >= atLeast
    <3>1. j - M \in 1 .. N /\ M + (j - M) = j
      BY <1>1
    <3>2. c[M + (j - M)] = pend[j - M]
      BY <1>2, <3>1
    <3>3. c[j] = pend[j - M]
      BY <3>1, <3>2
    <3> QED BY <3>1, <3>3
  <2>3. \A i \in 1 .. (M + N) : i \in 1 .. M \/ i \in (M + 1) .. (M + N)
    BY <1>1
  <2>4. \A i \in (M + 1) .. (M + N) : i \in 1 .. (M + N) /\ i \notin 1 .. M
    BY <1>1
  <2>5. ASSUME NEW i \in waiting PROVE i \in (M + 1) .. (M + N)
    BY <1>2, <2>1, <2>3
  <2>6. ASSUME NEW i \in (M + 1) .. (M + N) PROVE i \in waiting
    BY <1>2, <2>2, <2>4
  <2> HIDE DEF waiting
  <2> QED BY <2>5, <2>6
<1>5. Cardinality((M + 1) .. (M + N)) = N
  <2> DEFINE a == M + 1
             b == M + N
  <2>1. a \in Int /\ b \in Int
    BY <1>1
  <2> HIDE DEF a, b
  <2>2. Cardinality(a .. b) = IF a > b THEN 0 ELSE b - a + 1
    BY <2>1, FS_Interval
  <2>3. a = M + 1 /\ b = M + N
    BY DEF a, b
  <2>4. Cardinality(a .. b) = N
    BY <1>1, <2>2, <2>3
  <2> QED BY <2>4 DEF a, b
<1>6. Reduce(s, atLeast) = At(out \o Reverse(Newest(c, N)), Below(c, N))
  BY <1>3, <1>4, <1>5 DEF Reduce, At
<1>7. Newest(c, N) = pend /\ Below(c, N) = ops
  BY NewestAndBelow DEF c
<1> QED BY <1>6, <1>7 DEF s, c

LEMMA Reversed ==
  /\ Reverse(<<>>) = <<>>
  /\ \A x : Reverse(<<x>>) = <<x>>
  /\ \A x, y : Reverse(<<x, y>>) = <<y, x>>
<1>1. Reverse(<<>>) = <<>>
  BY DEF Reverse
<1>2. ASSUME NEW x PROVE Reverse(<<x>>) = <<x>>
  BY DEF Reverse
<1>3. ASSUME NEW x, NEW y PROVE Reverse(<<x, y>>) = <<y, x>>
  BY DEF Reverse
<1> QED BY <1>1, <1>2, <1>3

\* None waiting, one and two, after an opening bracket.
LEMMA NoneWaits ==
  ASSUME NEW out \in Seq(Node), NEW ops \in Seq(Token), NEW low \in Token, NEW atLeast,
         ~(Precedence(low.op) >= atLeast)
  PROVE  Reduce(At(out, Append(ops, low)), atLeast) = At(out, Append(ops, low))
<1> DEFINE base == Append(ops, low)
           pend == <<>>
<1>1. base \in Seq(Token) /\ base[Len(base)] = low /\ base = base \o pend /\ out = out \o pend
  OBVIOUS
<1>2. pend \in Seq(Token) /\ \A i \in 1 .. Len(pend) : Precedence(pend[i].op) >= atLeast
  OBVIOUS
<1>3. Reverse(pend) = pend
  BY Reversed
<1> HIDE DEF base, pend
<1>4. Reduce(At(out, base \o pend), atLeast) = At(out \o Reverse(pend), base)
  BY <1>1, <1>2, Waiting
<1> QED BY <1>1, <1>3, <1>4 DEF base

LEMMA OneWaits ==
  ASSUME NEW out \in Seq(Node), NEW ops \in Seq(Token), NEW low \in Token, NEW x \in Token, NEW atLeast,
         ~(Precedence(low.op) >= atLeast), Precedence(x.op) >= atLeast
  PROVE  Reduce(At(out, Append(Append(ops, low), x)), atLeast) = At(out \o <<x>>, Append(ops, low))
<1> DEFINE base == Append(ops, low)
           pend == <<x>>
<1>1. base \in Seq(Token) /\ base[Len(base)] = low /\ Append(base, x) = base \o pend
  OBVIOUS
<1>2. pend \in Seq(Token) /\ \A i \in 1 .. Len(pend) : Precedence(pend[i].op) >= atLeast
  OBVIOUS
<1>3. Reverse(pend) = pend
  BY Reversed
<1> HIDE DEF base, pend
<1>4. Reduce(At(out, base \o pend), atLeast) = At(out \o Reverse(pend), base)
  BY <1>1, <1>2, Waiting
<1> QED BY <1>1, <1>3, <1>4 DEF base, pend

LEMMA TwoWait ==
  ASSUME NEW out \in Seq(Node), NEW ops \in Seq(Token), NEW low \in Token, NEW x \in Token, NEW y \in Token,
         NEW atLeast, ~(Precedence(low.op) >= atLeast),
         Precedence(x.op) >= atLeast, Precedence(y.op) >= atLeast
  PROVE  Reduce(At(out, Append(Append(Append(ops, low), x), y)), atLeast)
           = At(out \o <<y, x>>, Append(ops, low))
<1> DEFINE base == Append(ops, low)
           pend == <<x, y>>
<1>1. base \in Seq(Token) /\ base[Len(base)] = low /\ Append(Append(base, x), y) = base \o pend
  OBVIOUS
<1>2. pend \in Seq(Token) /\ \A i \in 1 .. Len(pend) : Precedence(pend[i].op) >= atLeast
  OBVIOUS
<1>3. Reverse(pend) = <<y, x>>
  BY Reversed
<1> HIDE DEF base, pend
<1>4. Reduce(At(out, base \o pend), atLeast) = At(out \o Reverse(pend), base)
  BY <1>1, <1>2, Waiting
<1> QED BY <1>1, <1>3, <1>4 DEF base-----------------------------------------------------------------------------
(***************************************************************************)
(* A token read, by what it is.                                            *)
(***************************************************************************)
Opening == {t \in Token : t.op \in {"(", "SELECT", "WHERE"}}
Prefix == {"NOT", "EXISTS"}
Postfix == IsNull \cup {"IN LIST"}

LEMMA Opens ==
  ASSUME NEW low \in Opening
  PROVE  low \in Token /\ Precedence(low.op) = 0
BY Precedences DEF Opening

LEMMA TokensAre ==
  /\ Node \subseteq Token
  /\ Tok("(") \in Opening /\ Tok("WHERE") \in Opening /\ \A t \in Table : OpenQuery(t) \in Opening
  /\ Tok(")") \in Token
<1>1. Tok("(") \in Opening
  BY DEF Token, Tok, Opening
<1>2. Tok("WHERE") \in Opening
  BY DEF Token, Tok, Opening
<1>3. Tok(")") \in Token
  BY DEF Token
<1>4. \A t \in Table : OpenQuery(t) \in Opening
  BY DEF Token, OpenQuery, Opening
<1>5. Node \subseteq Token
  BY DEF Token
<1> QED BY <1>1, <1>2, <1>3, <1>4, <1>5

LEMMA Binding ==
  /\ \A op \in BinaryOp : Precedence(op) \in 1 .. 5
  /\ \A op \in Postfix : Precedence(op) \in 4 .. 5
  /\ \A op \in Prefix : Precedence(op) \in 3 .. 6
<1>1. ASSUME NEW op \in BinaryOp PROVE Precedence(op) \in 1 .. 5
  <2>1. op = "OR" \/ op = "AND" \/ op \in {"=", "IN", "NOT IN", "IN LIST"}
    BY DEF BinaryOp
  <2>2. Precedence(op) = 1 \/ Precedence(op) = 2 \/ Precedence(op) = 5
    BY Zenon, <2>1, Precedences
  <2> QED BY <2>2
<1>2. ASSUME NEW op \in Postfix PROVE Precedence(op) \in 4 .. 5
  <2>1. op \in IsNull \/ op \in {"=", "IN", "NOT IN", "IN LIST"}
    BY DEF Postfix
  <2>2. Precedence(op) = 4 \/ Precedence(op) = 5
    BY Zenon, <2>1, Precedences
  <2> QED BY <2>2
<1>3. ASSUME NEW op \in Prefix PROVE Precedence(op) \in 3 .. 6
  <2>1. op = "NOT" \/ op = "EXISTS"
    BY DEF Prefix
  <2>2. Precedence(op) = 3 \/ Precedence(op) = 6
    BY Zenon, <2>1, Precedences
  <2> QED BY <2>2
<1> QED BY <1>1, <1>2, <1>3

LEMMA Handled ==
  ASSUME NEW out, NEW ops, NEW t
  PROVE  Wait(At(out, ops), t) = At(out, Append(ops, t)) /\ Emit(At(out, ops), t) = At(Append(out, t), ops)
<1> DEFINE more == Append(ops, t)
           longer == Append(out, t)
           s == At(out, ops)
<1>1. s = [out |-> out, ops |-> ops] /\ s.ops = ops /\ s.out = out
  BY DEF At
<1>2. Wait(s, t) = [s EXCEPT !.ops = more] /\ Emit(s, t) = [s EXCEPT !.out = longer]
  BY <1>1 DEF Wait, Emit
<1> HIDE DEF more, longer, s
<1>3. [s EXCEPT !.ops = more] = [out |-> out, ops |-> more]
  BY <1>1
<1>4. [s EXCEPT !.out = longer] = [out |-> longer, ops |-> ops]
  BY <1>1
<1> QED BY <1>2, <1>3, <1>4 DEF At, more, longer, s

LEMMA WaitRead ==
  ASSUME NEW out, NEW ops, NEW t, t.op \in {"(", "SELECT", "WHERE", "NOT", "EXISTS"}
  PROVE  ReadToken(At(out, ops), t) = At(out, Append(ops, t))
<1>1. ReadToken(At(out, ops), t) = Wait(At(out, ops), t)
  BY DEF ReadToken, BinaryOp, IsNull
<1> QED BY <1>1, Handled

LEMMA OperandRead ==
  ASSUME NEW out, NEW ops, NEW t, t.op \in {"column", "always"}
  PROVE  ReadToken(At(out, ops), t) = At(Append(out, t), ops)
<1>1. ReadToken(At(out, ops), t) = Emit(At(out, ops), t)
  BY DEF ReadToken, BinaryOp, IsNull
<1> QED BY <1>1, Handled

LEMMA InfixRead ==
  ASSUME NEW out \in Seq(Node), NEW ops \in Seq(Token), NEW low \in Opening, NEW t, t.op \in BinaryOp
  PROVE  ReadToken(At(out, Append(ops, low)), t) = At(out, Append(Append(ops, low), t))
<1> DEFINE s == At(out, Append(ops, low))
<1>1. Precedence(t.op) \in Nat /\ Precedence(t.op) > 0
  BY Binding
<1>2. low \in Token /\ ~(Precedence(low.op) >= Precedence(t.op))
  BY <1>1, Opens
<1>3. Reduce(s, Precedence(t.op)) = s
  BY <1>2, NoneWaits
<1>4. ReadToken(s, t) = Wait(Reduce(s, Precedence(t.op)), t)
  BY DEF ReadToken, BinaryOp, IsNull
<1>5. Wait(s, t) = At(out, Append(Append(ops, low), t))
  BY Handled
<1> QED BY <1>3, <1>4, <1>5

LEMMA PostfixRead ==
  ASSUME NEW out \in Seq(Node), NEW ops \in Seq(Token), NEW low \in Opening, NEW t, t.op \in Postfix
  PROVE  ReadToken(At(out, Append(ops, low)), t) = At(Append(out, t), Append(ops, low))
<1> DEFINE s == At(out, Append(ops, low))
<1>1. Precedence(t.op) \in Nat /\ Precedence(t.op) > 0
  BY Binding
<1>2. low \in Token /\ ~(Precedence(low.op) >= Precedence(t.op))
  BY <1>1, Opens
<1>3. Reduce(s, Precedence(t.op)) = s
  BY <1>2, NoneWaits
<1>4. ReadToken(s, t) = Emit(Reduce(s, Precedence(t.op)), t)
  BY DEF ReadToken, BinaryOp, IsNull, Postfix
<1>5. Emit(s, t) = At(Append(out, t), Append(ops, low))
  BY Handled
<1> QED BY <1>3, <1>4, <1>5

LEMMA ClosingRead ==
  ASSUME NEW s
  PROVE  ReadToken(s, Tok(")")) = Close(Reduce(s, 1))
<1> DEFINE t == Tok(")")
<1>1. t.op = ")"
  BY DEF Tok
<1> HIDE DEF t
<1>2. t.op \notin {"(", "SELECT", "WHERE", "NOT", "EXISTS"}
  BY <1>1
<1>3. ReadToken(s, t) = Close(Reduce(s, 1))
  BY <1>1, <1>2 DEF ReadToken, BinaryOp, IsNull
<1> QED BY <1>3 DEF t

LEMMA ParenthesisClosed ==
  ASSUME NEW out, NEW ops \in Seq(Token)
  PROVE  Close(At(out, Append(ops, Tok("(")))) = At(out, ops)
<1> DEFINE t == Tok("(")
           s == At(out, Append(ops, t))
<1>1. t.op = "(" /\ t.op # "WHERE"
  BY DEF Tok
<1>2. s.out = out /\ s.ops = Append(ops, t)
  BY DEF At
<1> HIDE DEF t, s
<1>3. Last(s.ops) = t /\ Front(s.ops) = ops
  BY <1>2, FrontAndLast
<1>4. Close(s) = [out |-> out, ops |-> ops]
  BY <1>1, <1>2, <1>3 DEF Close
<1> QED BY <1>4 DEF At, s, t

LEMMA QueryClosed ==
  ASSUME NEW out, NEW ops \in Seq(Token), NEW f \in Table
  PROVE  /\ Close(At(out, Append(ops, OpenQuery(f)))) = At(Append(out, Query(f, 0)), ops)
         /\ Close(At(out, Append(Append(ops, OpenQuery(f)), Tok("WHERE")))) = At(Append(out, Query(f, 1)), ops)
<1> DEFINE t == OpenQuery(f)
           w == Tok("WHERE")
           base == Append(ops, t)
<1>1. t.op = "SELECT" /\ t.from = f /\ w.op = "WHERE"
  BY DEF Tok, OpenQuery
<1>2. t \in Token /\ w \in Token
  BY TokensAre, Opens
<1> HIDE DEF t, w
<1>3. t.op # "WHERE" /\ t.op # "("
  BY <1>1
<1>4. base \in Seq(Token) /\ Last(base) = t /\ Front(base) = ops
  BY <1>2, FrontAndLast
<1> HIDE DEF base
<1>5. Last(Append(base, w)) = w /\ Front(Append(base, w)) = base
  BY <1>4, FrontAndLast
<1>6. ASSUME NEW s, s.out = out, s.ops = base
      PROVE  Close(s) = [out |-> Append(out, Query(f, 0)), ops |-> ops]
  BY <1>1, <1>3, <1>4, <1>6 DEF Close
<1>7. ASSUME NEW s, s.out = out, s.ops = Append(base, w)
      PROVE  Close(s) = [out |-> Append(out, Query(f, 1)), ops |-> ops]
  BY <1>1, <1>3, <1>4, <1>5, <1>7 DEF Close
<1>8. Close(At(out, base)) = At(Append(out, Query(f, 0)), ops)
  BY <1>6 DEF At
<1>9. Close(At(out, Append(base, w))) = At(Append(out, Query(f, 1)), ops)
  BY <1>7 DEF At
<1> QED BY <1>8, <1>9 DEF base, t, w-----------------------------------------------------------------------------
(***************************************************************************)
(* A text read as an operand, wherever it stands; and one read inside      *)
(* brackets, where operators are still waiting at its end.                 *)
(***************************************************************************)
ReadsAs(text, m) ==
  /\ text \in Text /\ m \in Seq(Node)
  /\ \A out \in Seq(Node), ops \in Seq(Token) : ReadOn(At(out, ops), text) = At(out \o m, ops)

Inside(text, m) ==
  /\ text \in Text /\ m \in Seq(Node)
  /\ \A out \in Seq(Node), ops \in Seq(Token), low \in Opening :
       Reduce(ReadOn(At(out, Append(ops, low)), text), 1) = At(out \o m, Append(ops, low))

LEMMA TwoInSequence == ASSUME NEW a, NEW b PROVE <<a>> \o <<b>> = <<a, b>>
<1> DEFINE s == <<a>> \o <<b>>
           t == <<a, b>>
<1>1. s \in Seq({a, b}) /\ t \in Seq({a, b})
  OBVIOUS
<1>2. Len(s) = 2 /\ Len(t) = 2 /\ s[1] = t[1] /\ s[2] = t[2]
  OBVIOUS
<1> HIDE DEF s, t
<1>3. \A i \in 1 .. Len(s) : s[i] = t[i]
  BY <1>2
<1>4. s = t
  BY <1>1, <1>2, <1>3, SeqEqual
<1> QED BY <1>4 DEF s, t

LEMMA ReadInfix ==
  ASSUME NEW r, NEW a \in Text, NEW x \in Token, NEW b \in Text
  PROVE  /\ a \o <<x>> \o b \in Text
         /\ ReadOn(r, a \o <<x>> \o b) = ReadOn(ReadToken(ReadOn(r, a), x), b)
<1> DEFINE one == <<x>>
           ax == a \o one
<1>1. one \in Text /\ a \in Seq(Token) /\ b \in Seq(Token)
  BY DEF Text
<1>2. ax \in Seq(Token)
  BY <1>1 DEF Text
<1>3. ax \o b \in Text
  <2> HIDE DEF ax
  <2> QED BY <1>1, <1>2 DEF Text
<1>4. ReadOn(ReadOn(r, a), one) = ReadToken(ReadOn(r, a), x)
  BY ReadOne
<1> HIDE DEF one
<1>5. ReadOn(r, ax) = ReadOn(ReadOn(r, a), one)
  BY <1>1, ReadJoined DEF Text
<1> HIDE DEF ax
<1>6. ReadOn(r, ax \o b) = ReadOn(ReadOn(r, ax), b)
  BY <1>1, <1>2, ReadJoined
<1> QED BY <1>3, <1>4, <1>5, <1>6 DEF ax, one

LEMMA ReadPrefix ==
  ASSUME NEW r, NEW x \in Token, NEW a \in Text
  PROVE  <<x>> \o a \in Text /\ ReadOn(r, <<x>> \o a) = ReadOn(ReadToken(r, x), a)
<1>1. a \in Seq(Token)
  BY DEF Text
<1>2. <<x>> \o a \in Text
  BY <1>1 DEF Text
<1> QED BY <1>1, <1>2, ReadNext

LEMMA ReadPostfix ==
  ASSUME NEW r, NEW a \in Text, NEW x \in Token
  PROVE  a \o <<x>> \in Text /\ ReadOn(r, a \o <<x>>) = ReadToken(ReadOn(r, a), x)
<1> DEFINE one == <<x>>
<1>1. one \in Seq(Token) /\ a \in Seq(Token)
  BY DEF Text
<1>2. ReadOn(ReadOn(r, a), one) = ReadToken(ReadOn(r, a), x)
  BY ReadOne
<1> HIDE DEF one
<1>3. a \o one \in Text
  BY <1>1 DEF Text
<1>4. ReadOn(r, a \o one) = ReadOn(ReadOn(r, a), one)
  BY <1>1, ReadJoined
<1> QED BY <1>2, <1>3, <1>4 DEF one

LEMMA EnclosedReads ==
  ASSUME NEW text, NEW m, Inside(text, m)
  PROVE  ReadsAs(Enclosed(text), m)
<1> DEFINE low == Tok("(")
           end == Tok(")")
           opened == <<low>> \o text
<1>1. low \in Opening /\ low \in Token /\ end \in Token /\ text \in Text /\ m \in Seq(Node)
  BY TokensAre, Opens DEF Inside
<1>2. opened \in Text /\ opened \o <<end>> \in Text
  <2>1. opened \in Text
    BY <1>1, ReadPrefix
  <2> HIDE DEF opened, end
  <2> QED BY <1>1, <2>1, ReadPostfix
<1>3. ASSUME NEW out \in Seq(Node), NEW ops \in Seq(Token)
      PROVE  ReadOn(At(out, ops), opened \o <<end>>) = At(out \o m, ops)
  <2>1. low.op = "("
    BY DEF Tok
  <2>2. ReadToken(At(out, ops), low) = At(out, Append(ops, low))
    <3> HIDE DEF low
    <3> QED BY <2>1, WaitRead
  <2>3. ReadOn(At(out, ops), opened) = ReadOn(At(out, Append(ops, low)), text)
    BY <1>1, <2>2, ReadPrefix
  <2>4. Reduce(ReadOn(At(out, ops), opened), 1) = At(out \o m, Append(ops, low))
    BY <1>1, <2>3 DEF Inside
  <2>5. ReadOn(At(out, ops), opened \o <<end>>) = ReadToken(ReadOn(At(out, ops), opened), end)
    <3> HIDE DEF opened, end
    <3> QED BY <1>1, <1>2, ReadPostfix
  <2>6. ReadToken(ReadOn(At(out, ops), opened), end) = Close(At(out \o m, Append(ops, low)))
    BY <2>4, ClosingRead
  <2>7. Close(At(out \o m, Append(ops, low))) = At(out \o m, ops)
    BY ParenthesisClosed
  <2> QED BY <2>5, <2>6, <2>7
<1>4. Enclosed(text) = opened \o <<end>>
  BY DEF Enclosed
<1> HIDE DEF opened, end
<1> QED BY <1>1, <1>2, <1>3, <1>4 DEF ReadsAs

LEMMA InfixInside ==
  ASSUME NEW a, NEW b, NEW ma, NEW mb, ReadsAs(a, ma), ReadsAs(b, mb),
         NEW node \in Node, node.op \in BinaryOp
  PROVE  Inside(a \o <<node>> \o b, Append(ma \o mb, node))
<1> DEFINE text == a \o <<node>> \o b
           m == Append(ma \o mb, node)
<1>1. a \in Text /\ b \in Text /\ ma \in Seq(Node) /\ mb \in Seq(Node) /\ node \in Token
  BY TokensAre DEF ReadsAs
<1>2. ma \o mb \in Seq(Node) /\ m \in Seq(Node)
  BY <1>1
<1>3. ASSUME NEW out \in Seq(Node), NEW ops \in Seq(Token), NEW low \in Opening
      PROVE  Reduce(ReadOn(At(out, Append(ops, low)), text), 1) = At(out \o m, Append(ops, low))
  <2> DEFINE base == Append(ops, low)
             more == Append(base, node)
             oa == out \o ma
             ob == oa \o mb
  <2>1. base \in Seq(Token) /\ more \in Seq(Token) /\ low \in Token
    BY <1>1, Opens
  <2>2. oa \in Seq(Node) /\ ob \in Seq(Node)
    BY <1>1
  <2>3. ReadOn(At(out, base), a) = At(oa, base)
    BY <2>1 DEF ReadsAs
  <2>4. ReadToken(At(oa, base), node) = At(oa, more)
    <3> HIDE DEF oa
    <3> QED BY <2>2, InfixRead
  <2>5. ReadOn(At(oa, more), b) = At(ob, more)
    <3> HIDE DEF oa, more
    <3> QED BY <2>1, <2>2 DEF ReadsAs
  <2>6. Reduce(At(ob, more), 1) = At(ob \o <<node>>, base)
    <3>1. ~(Precedence(low.op) >= 1) /\ Precedence(node.op) >= 1
      BY Opens, Binding
    <3> HIDE DEF ob
    <3> QED BY <1>1, <2>1, <2>2, <3>1, OneWaits
  <2>7. ob \o <<node>> = out \o m
    <3> DEFINE mm == ma \o mb
               one == <<node>>
    <3>1. one \in Seq(Node) /\ mm \in Seq(Node)
      BY <1>1
    <3>2. ob = out \o mm
      BY <1>1, ConcatAssociative
    <3>3. m = mm \o one
      BY <1>1, <1>2, AppendOne
    <3> HIDE DEF mm, one, m
    <3>4. (out \o mm) \o one = out \o (mm \o one)
      BY <3>1, ConcatAssociative
    <3> QED BY <3>2, <3>3, <3>4 DEF one
  <2>8. ReadOn(At(out, base), text) = ReadOn(ReadToken(ReadOn(At(out, base), a), node), b)
    BY <1>1, ReadInfix
  <2> HIDE DEF text, m, base, more, oa, ob
  <2>9. ReadOn(At(out, base), text) = At(ob, more)
    BY <2>3, <2>4, <2>5, <2>8
  <2> QED BY <2>6, <2>7, <2>9 DEF base
<1>4. text \in Text
  BY <1>1, ReadInfix
<1> HIDE DEF text, m
<1>5. Inside(text, m)
  BY <1>2, <1>3, <1>4 DEF Inside
<1> QED BY <1>5 DEF text, m
LEMMA PrefixInside ==
  ASSUME NEW a, NEW ma, ReadsAs(a, ma), NEW node \in Node, node.op \in Prefix
  PROVE  Inside(<<node>> \o a, Append(ma, node))
<1> DEFINE text == <<node>> \o a
           m == Append(ma, node)
<1>1. a \in Text /\ ma \in Seq(Node) /\ node \in Token /\ m \in Seq(Node)
  BY TokensAre DEF ReadsAs
<1>2. node.op \in {"(", "SELECT", "WHERE", "NOT", "EXISTS"}
  BY DEF Prefix
<1>3. ASSUME NEW out \in Seq(Node), NEW ops \in Seq(Token), NEW low \in Opening
      PROVE  Reduce(ReadOn(At(out, Append(ops, low)), text), 1) = At(out \o m, Append(ops, low))
  <2> DEFINE base == Append(ops, low)
             more == Append(base, node)
             oa == out \o ma
  <2>1. base \in Seq(Token) /\ more \in Seq(Token) /\ low \in Token
    BY <1>1, Opens
  <2>2. oa \in Seq(Node)
    BY <1>1
  <2>3. ReadToken(At(out, base), node) = At(out, more)
    BY <1>2, WaitRead
  <2>4. ReadOn(At(out, more), a) = At(oa, more)
    <3> HIDE DEF more
    <3> QED BY <2>1 DEF ReadsAs
  <2>5. Reduce(At(oa, more), 1) = At(oa \o <<node>>, base)
    <3>1. ~(Precedence(low.op) >= 1) /\ Precedence(node.op) >= 1
      BY Opens, Binding
    <3> HIDE DEF oa
    <3> QED BY <1>1, <2>1, <2>2, <3>1, OneWaits
  <2>6. oa \o <<node>> = out \o m
    <3> DEFINE one == <<node>>
    <3>1. one \in Seq(Node)
      BY <1>1
    <3>2. m = ma \o one
      BY <1>1, AppendOne
    <3> HIDE DEF one, m
    <3>3. (out \o ma) \o one = out \o (ma \o one)
      BY <1>1, <3>1, ConcatAssociative
    <3> QED BY <3>2, <3>3 DEF one
  <2>7. ReadOn(At(out, base), text) = ReadOn(ReadToken(At(out, base), node), a)
    BY <1>1, ReadPrefix
  <2> HIDE DEF text, m, base, more, oa
  <2>8. ReadOn(At(out, base), text) = At(oa, more)
    BY <2>3, <2>4, <2>7
  <2> QED BY <2>5, <2>6, <2>8 DEF base
<1>4. text \in Text
  BY <1>1, ReadPrefix
<1> HIDE DEF text, m
<1>5. Inside(text, m)
  BY <1>1, <1>3, <1>4 DEF Inside
<1> QED BY <1>5 DEF text, m

LEMMA PostfixInside ==
  ASSUME NEW a, NEW ma, ReadsAs(a, ma), NEW node \in Node, node.op \in Postfix
  PROVE  Inside(a \o <<node>>, Append(ma, node))
<1> DEFINE text == a \o <<node>>
           m == Append(ma, node)
<1>1. a \in Text /\ ma \in Seq(Node) /\ node \in Token /\ m \in Seq(Node)
  BY TokensAre DEF ReadsAs
<1>3. ASSUME NEW out \in Seq(Node), NEW ops \in Seq(Token), NEW low \in Opening
      PROVE  Reduce(ReadOn(At(out, Append(ops, low)), text), 1) = At(out \o m, Append(ops, low))
  <2> DEFINE base == Append(ops, low)
             oa == out \o ma
  <2>1. base \in Seq(Token) /\ low \in Token
    BY Opens
  <2>2. oa \in Seq(Node)
    BY <1>1
  <2>3. ReadOn(At(out, base), a) = At(oa, base)
    <3> HIDE DEF base
    <3> QED BY <2>1 DEF ReadsAs
  <2>4. ReadToken(At(oa, base), node) = At(Append(oa, node), base)
    <3> HIDE DEF oa
    <3> QED BY <2>2, PostfixRead
  <2>5. Append(oa, node) \in Seq(Node)
    BY <2>2
  <2>6. Reduce(At(Append(oa, node), base), 1) = At(Append(oa, node), base)
    <3>1. ~(Precedence(low.op) >= 1)
      BY Opens
    <3> DEFINE on == Append(oa, node)
    <3> HIDE DEF on
    <3>2. Reduce(At(on, base), 1) = At(on, base)
      BY <2>1, <2>5, <3>1, NoneWaits DEF on
    <3> QED BY <3>2 DEF on
  <2>7. Append(oa, node) = out \o m
    <3> DEFINE one == <<node>>
    <3>1. one \in Seq(Node)
      BY <1>1
    <3>2. m = ma \o one /\ Append(oa, node) = oa \o one
      BY <1>1, <2>2, AppendOne
    <3> HIDE DEF one, m
    <3>3. (out \o ma) \o one = out \o (ma \o one)
      BY <1>1, <3>1, ConcatAssociative
    <3> QED BY <3>2, <3>3
  <2>8. ReadOn(At(out, base), text) = ReadToken(ReadOn(At(out, base), a), node)
    BY <1>1, ReadPostfix
  <2> HIDE DEF text, m, base, oa
  <2>9. ReadOn(At(out, base), text) = At(Append(oa, node), base)
    BY <2>3, <2>4, <2>8
  <2> QED BY <2>6, <2>7, <2>9 DEF base
<1>4. text \in Text
  BY <1>1, ReadPostfix
<1> HIDE DEF text, m
<1>5. Inside(text, m)
  BY <1>1, <1>3, <1>4 DEF Inside
<1> QED BY <1>5 DEF text, m

\* NOT EXISTS is two operators, one before the other.
LEMMA NotExistsInside ==
  ASSUME NEW a, NEW ma, ReadsAs(a, ma), NEW x \in Node, NEW y \in Node, x.op \in Prefix, y.op \in Prefix
  PROVE  Inside(<<x, y>> \o a, Append(Append(ma, y), x))
<1> DEFINE text == <<x, y>> \o a
           m == Append(Append(ma, y), x)
           rest == <<y>> \o a
<1>1. a \in Text /\ ma \in Seq(Node) /\ x \in Token /\ y \in Token /\ m \in Seq(Node)
  BY TokensAre DEF ReadsAs
<1>2. /\ x.op \in {"(", "SELECT", "WHERE", "NOT", "EXISTS"}
      /\ y.op \in {"(", "SELECT", "WHERE", "NOT", "EXISTS"}
  BY DEF Prefix
<1>3. rest \in Text
  BY <1>1, ReadPrefix
<1>4. text = <<x>> \o rest
  <2> DEFINE one == <<x>>
             two == <<y>>
  <2>1. one \in Seq(Token) /\ two \in Seq(Token) /\ a \in Seq(Token)
    BY <1>1 DEF Text
  <2>2. <<x, y>> = one \o two
    BY TwoInSequence
  <2> HIDE DEF one, two
  <2>3. (one \o two) \o a = one \o (two \o a)
    BY <2>1, ConcatAssociative
  <2> QED BY <2>2, <2>3 DEF one, two
<1>5. ASSUME NEW out \in Seq(Node), NEW ops \in Seq(Token), NEW low \in Opening
      PROVE  Reduce(ReadOn(At(out, Append(ops, low)), text), 1) = At(out \o m, Append(ops, low))
  <2> DEFINE base == Append(ops, low)
             more == Append(base, x)
             most == Append(more, y)
             oa == out \o ma
  <2>1. base \in Seq(Token) /\ more \in Seq(Token) /\ most \in Seq(Token) /\ low \in Token
    BY <1>1, Opens
  <2>2. oa \in Seq(Node)
    BY <1>1
  <2>3. ReadToken(At(out, base), x) = At(out, more) /\ ReadToken(At(out, more), y) = At(out, most)
    BY <1>2, WaitRead
  <2>4. ReadOn(At(out, most), a) = At(oa, most)
    <3> HIDE DEF most
    <3> QED BY <2>1 DEF ReadsAs
  <2>5. Reduce(At(oa, most), 1) = At(oa \o <<y, x>>, base)
    <3>1. ~(Precedence(low.op) >= 1) /\ Precedence(x.op) >= 1 /\ Precedence(y.op) >= 1
      BY Opens, Binding
    <3> HIDE DEF oa
    <3> QED BY <1>1, <2>1, <2>2, <3>1, TwoWait
  <2>6. oa \o <<y, x>> = out \o m
    <3> DEFINE two == <<y, x>>
    <3>1. two \in Seq(Node)
      BY <1>1
    <3>2. m = ma \o two
      BY <1>1
    <3> HIDE DEF two, m
    <3>3. (out \o ma) \o two = out \o (ma \o two)
      BY <1>1, <3>1, ConcatAssociative
    <3> QED BY <3>2, <3>3 DEF two
  <2>7. ReadOn(At(out, base), text) = ReadOn(ReadToken(At(out, base), x), rest)
    <3> HIDE DEF text, rest, base
    <3> QED BY <1>1, <1>3, <1>4, ReadPrefix
  <2>8. ReadOn(At(out, more), rest) = ReadOn(ReadToken(At(out, more), y), a)
    BY <1>1, ReadPrefix
  <2> HIDE DEF text, m, base, more, most, oa, rest
  <2>9. ReadOn(At(out, base), text) = At(oa, most)
    BY <2>3, <2>4, <2>7, <2>8
  <2> QED BY <2>5, <2>6, <2>9 DEF base
<1>6. text \in Text
  <2> HIDE DEF rest, text
  <2> QED BY <1>1, <1>3, <1>4, ReadPrefix
<1> HIDE DEF text, m
<1>7. Inside(text, m)
  BY <1>1, <1>5, <1>6 DEF Inside
<1> QED BY <1>7 DEF text, m

LEMMA OperandReads ==
  ASSUME NEW node \in Node, node.op \in {"column", "always"}
  PROVE  ReadsAs(<<node>>, <<node>>)
<1> DEFINE one == <<node>>
<1>1. one \in Text /\ one \in Seq(Node)
  BY TokensAre DEF Text
<1>2. ASSUME NEW out \in Seq(Node), NEW ops \in Seq(Token)
      PROVE  ReadOn(At(out, ops), one) = At(out \o one, ops)
  <2>1. ReadOn(At(out, ops), one) = At(Append(out, node), ops)
    BY ReadOne, OperandRead
  <2>2. Append(out, node) = out \o one
    BY AppendOne
  <2> QED BY <2>1, <2>2
<1> HIDE DEF one
<1>3. ReadsAs(one, one)
  BY <1>1, <1>2 DEF ReadsAs
<1> QED BY <1>3 DEF one-----------------------------------------------------------------------------
(***************************************************************************)
(* Trees of few operands, written out, and conditions joined.              *)
(***************************************************************************)
LEMMA FewOperands ==
  ASSUME NEW node, NEW a \in Seq(Node), NEW b \in Seq(Node)
  PROVE  /\ Tree(node, <<>>) = <<node>>
         /\ Tree(node, <<a>>) = Append(a, node)
         /\ Tree(node, <<a, b>>) = Append(a \o b, node)
<1>1. FlattenSeq(<<>>) = <<>> /\ Append(<<>>, node) = <<node>>
  BY DEF FlattenSeq
<1>2. FlattenSeq(<<a>>) = a
  <2> DEFINE w == <<a>>
  <2>1. Len(w) = 1 /\ w[1] = a
    OBVIOUS
  <2>3. Len(w) \in Nat /\ Len(w) # 0
    OBVIOUS
  <2> HIDE DEF w
  <2>2. PICK f : FlattenSeq(w) = f[Len(w)] /\ f[1] = w[1]
    BY <2>3, FlatSteps
  <2> QED BY <2>1, <2>2 DEF w
<1>3. FlattenSeq(<<a, b>>) = a \o b
  <2> DEFINE w == <<a, b>>
  <2>1. Len(w) = 2 /\ w[1] = a /\ w[2] = b
    OBVIOUS
  <2>4. Len(w) \in Nat /\ Len(w) # 0
    OBVIOUS
  <2> HIDE DEF w
  <2>2. PICK f : /\ FlattenSeq(w) = f[Len(w)] /\ f[1] = w[1]
                 /\ \A n \in 1 .. Len(w) : n # 1 => f[n] = f[n - 1] \o w[n]
    BY <2>4, FlatSteps
  <2>3. f[2] = f[2 - 1] \o w[2]
    BY <2>1, <2>2
  <2>5. 2 - 1 = 1
    OBVIOUS
  <2>6. FlattenSeq(w) = f[1] \o w[2]
    BY <2>1, <2>2, <2>3, <2>5
  <2>7. FlattenSeq(w) = a \o b
    BY <2>1, <2>2, <2>6
  <2> QED BY <2>7 DEF w
<1> QED BY <1>1, <1>2, <1>3 DEF Tree

\* Conditions joined, one more each.
JoinsUp(op, kinds, j) ==
  /\ j[1] = kinds[1] /\ j[Len(kinds)] = Joined(op, kinds)
  /\ \A n \in 2 .. Len(kinds) : j[n] = Tree(Op(op), <<j[n - 1], kinds[n]>>)

LEMMA JoinedStepwise ==
  ASSUME NEW op, NEW S, NEW kinds \in Seq(S), kinds # <<>>
  PROVE  \E j : JoinsUp(op, kinds, j)
<1> DEFINE N == Len(kinds)
           start == Head(kinds)
           rest == Tail(kinds)
<1>1. N \in Nat /\ N # 0 /\ start = kinds[1]
  OBVIOUS
<1>2. rest \in Seq(S) /\ Len(rest) = N - 1 /\ \A n \in 1 .. (N - 1) : rest[n] = kinds[n + 1]
  OBVIOUS
<1> HIDE DEF start, rest, N
<1>3. PICK acc : Joining(op, start, rest, acc)
  BY <1>2, JoiningSteps
<1> DEFINE j == [n \in 1 .. N |-> acc[n - 1]]
<1>4. j[1] = kinds[1]
  BY <1>1, <1>3 DEF Joining
<1>5. Joined(op, kinds) = JoinedTo(op, start, rest)
  BY DEF Joined, JoinedTo, start, rest
<1>6. j[N] = Joined(op, kinds)
  <2>1. N \in 1 .. N /\ j[N] = acc[N - 1]
    BY <1>1
  <2>2. acc[N - 1] = JoinedTo(op, start, rest)
    BY <1>2, <1>3 DEF Joining
  <2> QED BY <1>5, <2>1, <2>2
<1>7. ASSUME NEW n \in 2 .. N
      PROVE  j[n] = Tree(Op(op), <<j[n - 1], kinds[n]>>)
  <2>1. n - 1 \in 1 .. (N - 1) /\ (n - 1) + 1 = n /\ n - 1 \in 1 .. N /\ n \in 1 .. N
    BY <1>1
  <2>2. acc[n - 1] = Tree(Op(op), <<acc[(n - 1) - 1], rest[n - 1]>>)
    BY <1>2, <1>3, <2>1 DEF Joining
  <2>3. rest[n - 1] = kinds[n]
    BY <1>2, <2>1
  <2> QED BY <2>1, <2>2, <2>3
<1> HIDE DEF j
<1>8. JoinsUp(op, kinds, j)
  BY <1>4, <1>6, <1>7 DEF JoinsUp, N
<1> QED BY <1>8

LEMMA OpNodes ==
  /\ \A op \in BinaryOp : Op(op) \in Node /\ Op(op).op = op /\ Op(op).arity = 2
  /\ \A op \in UnaryOp : Op(op) \in Node /\ Op(op).op = op /\ Op(op).arity = 1
<1>1. \A op \in UnaryOp : op \notin BinaryOp
  BY DEF UnaryOp, BinaryOp, IsNull
<1>2. \A op \in BinaryOp \cup UnaryOp : Op(op) \in Node
  BY DEF Node
<1>3. ASSUME NEW op PROVE Op(op).op = op /\ Op(op).arity = IF op \in BinaryOp THEN 2 ELSE 1
  BY DEF Op
<1> QED BY <1>1, <1>2, <1>3

LEMMA JoinedStays ==
  ASSUME NEW op \in {"AND", "OR"}, NEW W, Closed(W), NEW kinds \in Seq(W), NEW j, JoinsUp(op, kinds, j)
  PROVE  \A n \in 1 .. Len(kinds) : j[n] \in W
<1> DEFINE N == Len(kinds)
           S == {n \in 0 .. N : n # 0 => j[n] \in W}
<1>1. N \in Nat /\ \A n \in 1 .. N : kinds[n] \in W
  OBVIOUS
<1>2. 0 \in S
  BY <1>1
<1>3. ASSUME NEW n \in 1 .. N, n - 1 \in S PROVE n \in S
  <2>1. n \in 0 .. N /\ n # 0 /\ kinds[n] \in W
    BY <1>1
  <2>2. CASE n = 1
    BY <2>1, <2>2 DEF JoinsUp
  <2>3. CASE n # 1
    <3>1. n \in 2 .. N /\ n - 1 # 0
      BY <1>1, <2>3
    <3>2. j[n - 1] \in W
      BY <1>3, <3>1
    <3> DEFINE of == <<j[n - 1], kinds[n]>>
    <3>3. of \in Seq(W) /\ Len(of) = 2
      BY <2>1, <3>2
    <3>4. j[n] = Tree(Op(op), of)
      BY <3>1 DEF JoinsUp
    <3>5. Op(op) \in Node /\ Op(op).arity = 2
      BY OpNodes DEF BinaryOp
    <3> HIDE DEF of
    <3>6. j[n] \in W
      BY <3>3, <3>4, <3>5 DEF Closed
    <3> QED BY <2>1, <3>6
  <2> QED BY <2>2, <2>3
<1>4. 0 .. N \subseteq S
  <2> HIDE DEF S, N
  <2> QED BY <1>1, <1>2, <1>3, Upwards
<1>5. \A n \in 1 .. N : n \in 0 .. N /\ n # 0
  BY <1>1
<1> QED BY <1>4, <1>5

LEMMA SequencesAreClosed == Closed(Seq(Node))
BY TreeIs DEF Closed-----------------------------------------------------------------------------
(***************************************************************************)
(* A query's filters, read one after the other.                            *)
(***************************************************************************)
ReadsEach(texts, ms) ==
  /\ texts \in Seq(Text) /\ ms \in Seq(Seq(Node)) /\ Len(texts) = Len(ms)
  /\ \A i \in 1 .. Len(texts) : ReadsAs(texts[i], ms[i])

\* What has been read of them, the last AND waiting or not.
SoFar(s, out, base) == \A atLeast \in {1, 2} : Reduce(s, atLeast) = At(out, base)

LEMMA AndRead ==
  ASSUME NEW s, NEW out \in Seq(Node), NEW base \in Seq(Token), SoFar(s, out, base)
  PROVE  ReadToken(s, Op("AND")) = At(out, Append(base, Op("AND")))
<1> DEFINE t == Op("AND")
<1>1. t.op = "AND"
  BY OpNodes DEF BinaryOp
<1> HIDE DEF t
<1>2. Precedence(t.op) = 2
  BY <1>1, Precedences
<1>3. ReadToken(s, t) = Wait(Reduce(s, Precedence(t.op)), t)
  BY <1>1 DEF ReadToken, BinaryOp, IsNull
<1>4. Reduce(s, 2) = At(out, base)
  BY DEF SoFar
<1>5. ReadToken(s, t) = Wait(At(out, base), t)
  BY <1>2, <1>3, <1>4
<1> QED BY <1>5, Handled DEF t

LEMMA FilterRead ==
  ASSUME NEW out \in Seq(Node), NEW ops \in Seq(Token), NEW low \in Opening,
         NEW text, NEW m, ReadsAs(text, m)
  PROVE  SoFar(ReadOn(At(out, Append(ops, low)), text), out \o m, Append(ops, low))
<1> DEFINE base == Append(ops, low)
           om == out \o m
<1>1. low \in Token /\ m \in Seq(Node)
  BY Opens DEF ReadsAs
<1>2. base \in Seq(Token) /\ om \in Seq(Node)
  BY <1>1
<1>3. ReadOn(At(out, base), text) = At(om, base)
  <2> HIDE DEF base
  <2> QED BY <1>2 DEF ReadsAs
<1>4. ~(Precedence(low.op) >= 1) /\ ~(Precedence(low.op) >= 2)
  BY Opens
<1>5. Reduce(At(om, base), 1) = At(om, base) /\ Reduce(At(om, base), 2) = At(om, base)
  <2> HIDE DEF om
  <2> QED BY <1>1, <1>2, <1>4, NoneWaits
<1> HIDE DEF om, base
<1>6. SoFar(At(om, base), om, base)
  BY <1>5 DEF SoFar
<1> QED BY <1>3, <1>6 DEF om, base

LEMMA NextFilterRead ==
  ASSUME NEW s, NEW out \in Seq(Node), NEW ops \in Seq(Token), NEW low \in Opening,
         NEW j \in Seq(Node), SoFar(s, out \o j, Append(ops, low)),
         NEW text, NEW m, ReadsAs(text, m)
  PROVE  /\ <<Op("AND")>> \o text \in Text
         /\ SoFar(ReadOn(s, <<Op("AND")>> \o text), out \o Tree(Op("AND"), <<j, m>>), Append(ops, low))
<1> DEFINE base == Append(ops, low)
           and == Op("AND")
           oj == out \o j
           om == oj \o m
           more == Append(base, and)
<1>1. /\ low \in Token /\ m \in Seq(Node) /\ text \in Text
      /\ and \in Node /\ and \in Token /\ and.op = "AND"
  BY Opens, OpNodes, TokensAre DEF ReadsAs, BinaryOp
<1> HIDE DEF and
<1>2. base \in Seq(Token) /\ more \in Seq(Token) /\ oj \in Seq(Node) /\ om \in Seq(Node)
  BY <1>1
<1>3. ReadOn(s, <<and>> \o text) = ReadOn(ReadToken(s, and), text) /\ <<and>> \o text \in Text
  BY <1>1, ReadPrefix
<1>4. ReadToken(s, and) = At(oj, more)
  <2> HIDE DEF base, oj
  <2> QED BY <1>2, AndRead DEF and, base, oj
<1>5. ReadOn(At(oj, more), text) = At(om, more)
  <2> HIDE DEF oj, more
  <2> QED BY <1>2 DEF ReadsAs
<1>6. /\ ~(Precedence(low.op) >= 1) /\ ~(Precedence(low.op) >= 2)
      /\ Precedence(and.op) >= 1 /\ Precedence(and.op) >= 2
  <2>1. Precedence(and.op) = 2
    BY Zenon, <1>1, Precedences
  <2>2. Precedence(low.op) = 0
    BY Opens
  <2> QED BY <2>1, <2>2
<1>7. Reduce(At(om, more), 1) = At(om \o <<and>>, base) /\ Reduce(At(om, more), 2) = At(om \o <<and>>, base)
  <2> HIDE DEF om
  <2> QED BY <1>1, <1>2, <1>6, OneWaits
<1>8. om \o <<and>> = out \o Tree(and, <<j, m>>)
  <2> DEFINE jm == j \o m
             one == <<and>>
  <2>1. jm \in Seq(Node) /\ one \in Seq(Node)
    BY <1>1
  <2>2. om = out \o jm
    BY <1>1, ConcatAssociative
  <2>3. Tree(and, <<j, m>>) = Append(jm, and)
    BY <1>1, FewOperands
  <2>4. Append(jm, and) = jm \o one
    BY <2>1, AppendOne
  <2> HIDE DEF jm, one, om
  <2>5. (out \o jm) \o one = out \o (jm \o one)
    BY <2>1, ConcatAssociative
  <2> QED BY <2>2, <2>3, <2>4, <2>5 DEF one
<1> HIDE DEF om, oj, more, base
<1>9. SoFar(At(om, more), om \o <<and>>, base)
  BY <1>7 DEF SoFar
<1> QED BY <1>3, <1>4, <1>5, <1>8, <1>9 DEF and, base

LEMMA FiltersRead ==
  ASSUME NEW texts, NEW ms, ReadsEach(texts, ms), ms # <<>>,
         NEW out \in Seq(Node), NEW ops \in Seq(Token)
  PROVE  /\ RenderAndList(texts) \in Text
         /\ SoFar(ReadOn(At(out, ops), RenderAndList(texts)), out \o Joined("AND", ms),
                  Append(ops, Tok("WHERE")))
<1> DEFINE N == Len(texts)
           where == Tok("WHERE")
           and == Op("AND")
           w == [i \in DOMAIN texts |-> (IF i > 1 THEN <<and>> ELSE <<where>>) \o texts[i]]
           base == Append(ops, where)
<1>1. /\ N \in Nat /\ N # 0 /\ DOMAIN texts = 1 .. N /\ Len(ms) = N
      /\ ms \in Seq(Seq(Node)) /\ \A i \in 1 .. N : ReadsAs(texts[i], ms[i]) /\ texts[i] \in Text /\ ms[i] \in Seq(Node)
  BY DEF ReadsEach
<1>2. where \in Opening /\ where \in Token /\ where.op = "WHERE"
  BY TokensAre, Opens DEF Tok
<1>3. Len(w) = N /\ w[1] = <<where>> \o texts[1] /\ \A n \in 2 .. N : w[n] = <<and>> \o texts[n]
  BY <1>1
<1>4. RenderAndList(texts) = FlattenSeq(w)
  BY DEF RenderAndList
<1> HIDE DEF w, N, where, and
<1>5. Len(w) \in Nat /\ Len(w) # 0
  BY <1>1, <1>3
<1>6. PICK f : /\ FlattenSeq(w) = f[N] /\ f[1] = w[1]
               /\ \A n \in 1 .. N : n # 1 => f[n] = f[n - 1] \o w[n]
  <2>1. \E f : /\ FlattenSeq(w) = f[Len(w)] /\ f[1] = w[1]
               /\ \A n \in 1 .. Len(w) : n # 1 => f[n] = f[n - 1] \o w[n]
    BY Zenon, <1>5, FlatSteps
  <2> QED BY Zenon, <1>3, <2>1
<1>7. PICK j : JoinsUp("AND", ms, j)
  BY <1>1, JoinedStepwise
<1>8. \A n \in 1 .. N : j[n] \in Seq(Node)
  BY <1>1, <1>7, SequencesAreClosed, JoinedStays
<1> DEFINE s(n) == ReadOn(At(out, ops), f[n])
           S == {n \in 0 .. N : n # 0 => f[n] \in Text /\ SoFar(s(n), out \o j[n], base)}
<1>9. 0 \in S
  BY <1>1
<1>10. ASSUME NEW n \in 1 .. N, n - 1 \in S PROVE n \in S
  <2>1. n \in 0 .. N /\ n # 0 /\ ReadsAs(texts[n], ms[n]) /\ texts[n] \in Text
    BY <1>1
  <2>2. CASE n = 1
    <3>1. f[1] = <<where>> \o texts[1] /\ texts[1] \in Text /\ ReadsAs(texts[1], ms[1]) /\ j[1] = ms[1]
      BY <1>3, <1>6, <1>7, <2>1, <2>2 DEF JoinsUp
    <3>2. f[1] \in Text /\ s(1) = ReadOn(ReadToken(At(out, ops), where), texts[1])
      BY <1>2, <3>1, ReadPrefix
    <3>3. ReadToken(At(out, ops), where) = At(out, base)
      BY <1>2, WaitRead
    <3>4. SoFar(ReadOn(At(out, base), texts[1]), out \o ms[1], base)
      BY <1>2, <3>1, FilterRead
    <3> HIDE DEF base
    <3>5. SoFar(s(1), out \o j[1], base)
      BY <3>1, <3>2, <3>3, <3>4
    <3> QED BY <2>1, <2>2, <3>2, <3>5
  <2>3. CASE n # 1
    <3>1. n - 1 # 0 /\ n \in 2 .. N /\ n - 1 \in 1 .. N
      BY <1>1, <2>3
    <3>2. f[n - 1] \in Text /\ SoFar(s(n - 1), out \o j[n - 1], base) /\ j[n - 1] \in Seq(Node)
      BY <1>8, <1>10, <3>1
    <3>3. f[n] = f[n - 1] \o w[n] /\ w[n] = <<and>> \o texts[n]
      BY <1>3, <1>6, <2>3, <3>1
    <3>4. j[n] = Tree(and, <<j[n - 1], ms[n]>>)
      BY <1>1, <1>7, <3>1 DEF JoinsUp, and
    <3>5. /\ w[n] \in Text
          /\ SoFar(ReadOn(s(n - 1), w[n]), out \o j[n], base)
      <4> DEFINE sn == s(n - 1)
                 jn == j[n - 1]
      <4>1. jn \in Seq(Node) /\ SoFar(sn, out \o jn, Append(ops, where))
        BY <3>2
      <4> HIDE DEF sn, jn
      <4>2. /\ <<and>> \o texts[n] \in Text
            /\ SoFar(ReadOn(sn, <<and>> \o texts[n]), out \o Tree(and, <<jn, ms[n]>>), Append(ops, where))
        BY <1>2, <2>1, <4>1, NextFilterRead DEF and
      <4> QED BY <3>3, <3>4, <4>2 DEF sn, jn
    <3>6. ReadOn(At(out, ops), f[n - 1] \o w[n]) = ReadOn(s(n - 1), w[n]) /\ f[n - 1] \o w[n] \in Text
      <4> DEFINE a == f[n - 1]
                 b == w[n]
      <4>1. a \in Seq(Token) /\ b \in Seq(Token)
        BY <3>2, <3>5 DEF Text
      <4> HIDE DEF a, b
      <4>2. ReadOn(At(out, ops), a \o b) = ReadOn(ReadOn(At(out, ops), a), b) /\ a \o b \in Seq(Token)
        BY <4>1, ReadJoined
      <4> QED BY <4>2 DEF a, b, Text
    <3> HIDE DEF base
    <3>7. f[n] \in Text /\ SoFar(s(n), out \o j[n], base)
      BY <3>3, <3>5, <3>6
    <3> QED BY <2>1, <3>7
  <2> QED BY <2>2, <2>3
<1>11. N \in S
  <2>1. N \in 0 .. N
    BY <1>1
  <2> HIDE DEF S
  <2> QED BY <1>1, <1>9, <1>10, <2>1, Upwards
<1>12. f[N] \in Text /\ SoFar(s(N), out \o j[N], base)
  BY <1>1, <1>11
<1>13. j[N] = Joined("AND", ms)
  BY <1>1, <1>7 DEF JoinsUp
<1> QED BY <1>4, <1>6, <1>12, <1>13 DEF where
\* A query, its filters read as one that says they all hold.
QueryMeans(f, ms) == Tree(Query(f, IF ms = <<>> THEN 0 ELSE 1), IF ms = <<>> THEN <<>> ELSE <<Joined("AND", ms)>>)

LEMMA QueryReads ==
  ASSUME NEW f \in Table, NEW texts, NEW ms, ReadsEach(texts, ms)
  PROVE  ReadsAs(<<OpenQuery(f)>> \o RenderAndList(texts) \o <<Tok(")")>>, QueryMeans(f, ms))
<1> DEFINE low == OpenQuery(f)
           end == Tok(")")
           where == Tok("WHERE")
           list == RenderAndList(texts)
           opened == <<low>> \o list
           text == opened \o <<end>>
           m == QueryMeans(f, ms)
<1>1. /\ low \in Opening /\ low \in Token /\ low.op \in {"(", "SELECT", "WHERE", "NOT", "EXISTS"}
      /\ where \in Opening /\ where \in Token /\ end \in Token /\ ms \in Seq(Seq(Node))
  BY TokensAre, Opens DEF OpenQuery, ReadsEach
<1>2. \A n \in Nat : Query(f, n) \in Node
  BY DEF Query, Node
<1> HIDE DEF low, end, where
<1>3. ASSUME ms = <<>>
      PROVE  list = <<>> /\ m = <<Query(f, 0)>>
  <2>1. texts = <<>>
    BY <1>3 DEF ReadsEach
  <2>2. list = FlattenSeq(<<>>)
    BY <2>1 DEF RenderAndList
  <2>3. FlattenSeq(<<>>) = <<>>
    BY DEF FlattenSeq
  <2>4. Tree(Query(f, 0), <<>>) = <<Query(f, 0)>>
    <3>1. <<>> \in Seq(Node)
      OBVIOUS
    <3> QED BY <3>1, FewOperands
  <2> QED BY <1>3, <2>2, <2>3, <2>4 DEF QueryMeans
<1>4. ASSUME ms # <<>>
      PROVE  /\ Joined("AND", ms) \in Seq(Node)
             /\ m = Append(Joined("AND", ms), Query(f, 1))
  <2>1. PICK j : JoinsUp("AND", ms, j)
    BY <1>1, <1>4, JoinedStepwise
  <2>2. \A n \in 1 .. Len(ms) : j[n] \in Seq(Node)
    BY <1>1, <2>1, SequencesAreClosed, JoinedStays
  <2>3. Len(ms) \in 1 .. Len(ms) /\ j[Len(ms)] = Joined("AND", ms)
    BY <1>1, <1>4, <2>1 DEF JoinsUp
  <2>4. Joined("AND", ms) \in Seq(Node)
    BY <2>2, <2>3
  <2>5. Tree(Query(f, 1), <<Joined("AND", ms)>>) = Append(Joined("AND", ms), Query(f, 1))
    BY <2>4, FewOperands
  <2> QED BY <1>4, <2>4, <2>5 DEF QueryMeans
<1>5. list \in Text
  <2>1. CASE ms = <<>>
    BY <1>3, <2>1 DEF Text
  <2>2. CASE ms # <<>>
    <3>1. <<>> \in Seq(Node) /\ <<>> \in Seq(Token)
      OBVIOUS
    <3> HIDE DEF list
    <3> QED BY <2>2, <3>1, FiltersRead DEF list
  <2> QED BY <2>1, <2>2
<1>6. m \in Seq(Node)
  <2>1. CASE ms = <<>>
    <3> DEFINE q == Query(f, 0)
    <3>1. q \in Node
      BY <1>2
    <3> HIDE DEF q
    <3>2. <<q>> \in Seq(Node)
      BY <3>1
    <3> QED BY <1>3, <2>1, <3>2 DEF q
  <2>2. CASE ms # <<>>
    BY <1>2, <1>4, <2>2
  <2> QED BY <2>1, <2>2
<1>7. opened \in Text /\ text \in Text
  <2>1. opened \in Text
    BY <1>1, <1>5, ReadPrefix
  <2> HIDE DEF opened
  <2> QED BY <1>1, <2>1, ReadPostfix
<1>8. ASSUME NEW out \in Seq(Node), NEW ops \in Seq(Token)
      PROVE  ReadOn(At(out, ops), text) = At(out \o m, ops)
  <2> DEFINE base == Append(ops, low)
  <2>1. base \in Seq(Token)
    BY <1>1
  <2>2. ReadToken(At(out, ops), low) = At(out, base)
    BY <1>1, WaitRead
  <2>3. ReadOn(At(out, ops), opened) = ReadOn(At(out, base), list)
    BY <1>1, <1>5, <2>2, ReadPrefix
  <2>4. ReadOn(At(out, ops), text) = Close(Reduce(ReadOn(At(out, ops), opened), 1))
    <3>1. ReadOn(At(out, ops), text) = ReadToken(ReadOn(At(out, ops), opened), end)
      <4> HIDE DEF opened
      <4> QED BY <1>1, <1>7, ReadPostfix
    <3> QED BY <3>1, ClosingRead DEF end
  <2>5. CASE ms = <<>>
    <3>1. ReadOn(At(out, base), list) = At(out, base)
      BY <1>3, <2>5, ReadNone
    <3>2. Reduce(At(out, base), 1) = At(out, base)
      <4>1. ~(Precedence(low.op) >= 1)
        BY <1>1, Opens
      <4> QED BY <1>1, <4>1, NoneWaits
    <3>3. Close(At(out, base)) = At(Append(out, Query(f, 0)), ops)
      BY QueryClosed DEF low
    <3>4. Append(out, Query(f, 0)) = out \o m
      <4>1. Append(out, Query(f, 0)) = out \o <<Query(f, 0)>>
        BY AppendOne
      <4> QED BY <1>3, <2>5, <4>1
    <3> QED BY <2>3, <2>4, <3>1, <3>2, <3>3, <3>4
  <2>6. CASE ms # <<>>
    <3> DEFINE j == Joined("AND", ms)
               oj == out \o j
    <3>1. j \in Seq(Node) /\ m = Append(j, Query(f, 1))
      BY <1>4, <2>6
    <3>2. SoFar(ReadOn(At(out, base), list), oj, Append(base, where))
      <4> HIDE DEF base
      <4> QED BY <2>1, <2>6, FiltersRead DEF where
    <3>3. Reduce(ReadOn(At(out, base), list), 1) = At(oj, Append(base, where))
      BY <3>2 DEF SoFar
    <3>4. Close(At(oj, Append(base, where))) = At(Append(oj, Query(f, 1)), ops)
      BY QueryClosed DEF low, where
    <3>5. Append(oj, Query(f, 1)) = out \o m
      <4> DEFINE q == Query(f, 1)
                 one == <<q>>
      <4>1. one \in Seq(Node)
        BY <1>2
      <4> HIDE DEF j, q
      <4>2. oj \in Seq(Node)
        BY <3>1
      <4>3. m = j \o one
        BY <3>1, AppendOne DEF q
      <4>4. Append(oj, q) = oj \o one
        BY <4>2, AppendOne
      <4> HIDE DEF one
      <4>5. (out \o j) \o one = out \o (j \o one)
        BY <3>1, <4>1, ConcatAssociative
      <4> QED BY <4>3, <4>4, <4>5 DEF q
    <3> HIDE DEF j, oj
    <3> QED BY <2>3, <2>4, <3>3, <3>4, <3>5
  <2> QED BY <2>5, <2>6
<1> HIDE DEF text, m
<1>9. ReadsAs(text, m)
  BY <1>6, <1>7, <1>8 DEF ReadsAs
<1> QED BY <1>9 DEF text, m, low, end-----------------------------------------------------------------------------
(***************************************************************************)
(* What each node renders to is read as what it means, where its operands  *)
(* are.                                                                    *)
(***************************************************************************)
LEMMA ShortSequences ==
  ASSUME NEW S, NEW w \in Seq(S)
  PROVE  /\ Len(w) = 0 => w = <<>>
         /\ Len(w) = 1 => w = <<w[1]>> /\ w[1] \in S
         /\ Len(w) = 2 => w = <<w[1], w[2]>> /\ w[1] \in S /\ w[2] \in S
<1>1. Len(w) = 0 => w = <<>>
  OBVIOUS
<1>2. ASSUME Len(w) = 1 PROVE w = <<w[1]>> /\ w[1] \in S
  <2> DEFINE v == <<w[1]>>
  <2>1. w[1] \in S
    BY <1>2
  <2>2. v \in Seq(S) /\ Len(v) = 1 /\ v[1] = w[1]
    BY <2>1
  <2> HIDE DEF v
  <2>3. w = v
    BY <1>2, <2>2, SeqEqual
  <2> QED BY <2>1, <2>3 DEF v
<1>3. ASSUME Len(w) = 2 PROVE w = <<w[1], w[2]>> /\ w[1] \in S /\ w[2] \in S
  <2> DEFINE v == <<w[1], w[2]>>
  <2>1. w[1] \in S /\ w[2] \in S
    BY <1>3
  <2>2. v \in Seq(S) /\ Len(v) = 2 /\ v[1] = w[1] /\ v[2] = w[2]
    BY <2>1
  <2> HIDE DEF v
  <2>3. w = v
    <3>1. \A i \in 1 .. Len(w) : w[i] = v[i]
      BY <1>3, <2>2
    <3> QED BY <1>3, <2>2, <3>1, SeqEqual
  <2> QED BY <2>1, <2>3 DEF v
<1> QED BY <1>1, <1>2, <1>3

LEMMA EachOf ==
  ASSUME NEW texts, NEW ms, ReadsEach(texts, ms)
  PROVE  /\ Len(texts) = 1 => /\ ms = <<ms[1]>> /\ ms[1] \in Seq(Node) /\ ReadsAs(texts[1], ms[1])
         /\ Len(texts) = 2 => /\ ms = <<ms[1], ms[2]>> /\ ms[1] \in Seq(Node) /\ ms[2] \in Seq(Node)
                              /\ ReadsAs(texts[1], ms[1]) /\ ReadsAs(texts[2], ms[2])
<1>1. ms \in Seq(Seq(Node)) /\ Len(texts) = Len(ms) /\ \A i \in 1 .. Len(texts) : ReadsAs(texts[i], ms[i])
  BY DEF ReadsEach
<1>2. ASSUME Len(texts) = 1
      PROVE  ms = <<ms[1]>> /\ ms[1] \in Seq(Node) /\ ReadsAs(texts[1], ms[1])
  <2>1. Len(ms) = 1 /\ 1 \in 1 .. Len(texts)
    BY <1>1, <1>2
  <2> QED BY <1>1, <2>1, ShortSequences
<1>3. ASSUME Len(texts) = 2
      PROVE  /\ ms = <<ms[1], ms[2]>> /\ ms[1] \in Seq(Node) /\ ms[2] \in Seq(Node)
             /\ ReadsAs(texts[1], ms[1]) /\ ReadsAs(texts[2], ms[2])
  <2>1. Len(ms) = 2 /\ 1 \in 1 .. Len(texts) /\ 2 \in 1 .. Len(texts)
    BY <1>1, <1>3
  <2> QED BY <1>1, <2>1, ShortSequences
<1> QED BY <1>2, <1>3

LEMMA BinaryReads ==
  ASSUME NEW op \in BinaryOp, NEW texts, NEW ms, ReadsEach(texts, ms), Len(texts) = 2
  PROVE  ReadsAs(Enclosed(texts[1] \o <<Op(op)>> \o texts[2]), Tree(Op(op), ms))
<1>1. Op(op) \in Node /\ Op(op).op \in BinaryOp
  BY OpNodes
<1>2. /\ ms = <<ms[1], ms[2]>> /\ ms[1] \in Seq(Node) /\ ms[2] \in Seq(Node)
      /\ ReadsAs(texts[1], ms[1]) /\ ReadsAs(texts[2], ms[2])
  BY EachOf
<1>3. Inside(texts[1] \o <<Op(op)>> \o texts[2], Append(ms[1] \o ms[2], Op(op)))
  BY <1>1, <1>2, InfixInside
<1>4. Tree(Op(op), <<ms[1], ms[2]>>) = Append(ms[1] \o ms[2], Op(op))
  BY <1>2, FewOperands
<1>5. Tree(Op(op), ms) = Append(ms[1] \o ms[2], Op(op))
  BY <1>2, <1>4
<1> QED BY <1>3, <1>5, EnclosedReads

LEMMA PrefixReads ==
  ASSUME NEW op \in Prefix, NEW texts, NEW ms, ReadsEach(texts, ms), Len(texts) = 1
  PROVE  ReadsAs(Enclosed(<<Op(op)>> \o texts[1]), Tree(Op(op), ms))
<1>1. Op(op) \in Node /\ Op(op).op \in Prefix
  BY OpNodes DEF Prefix, UnaryOp
<1>2. ms = <<ms[1]>> /\ ms[1] \in Seq(Node) /\ ReadsAs(texts[1], ms[1])
  BY EachOf
<1>3. Inside(<<Op(op)>> \o texts[1], Append(ms[1], Op(op)))
  BY <1>1, <1>2, PrefixInside
<1>4. Tree(Op(op), <<ms[1]>>) = Append(ms[1], Op(op))
  BY <1>2, FewOperands
<1>5. Tree(Op(op), ms) = Append(ms[1], Op(op))
  BY <1>2, <1>4
<1> QED BY <1>3, <1>5, EnclosedReads

LEMMA PostfixReads ==
  ASSUME NEW node \in Node, node.op \in Postfix, NEW texts, NEW ms, ReadsEach(texts, ms), Len(texts) = 1
  PROVE  ReadsAs(Enclosed(texts[1] \o <<node>>), Tree(node, ms))
<1>2. ms = <<ms[1]>> /\ ms[1] \in Seq(Node) /\ ReadsAs(texts[1], ms[1])
  BY EachOf
<1>3. Inside(texts[1] \o <<node>>, Append(ms[1], node))
  BY <1>2, PostfixInside
<1>4. Tree(node, <<ms[1]>>) = Append(ms[1], node)
  BY <1>2, FewOperands
<1>5. Tree(node, ms) = Append(ms[1], node)
  BY <1>2, <1>4
<1> QED BY <1>3, <1>5, EnclosedReads

LEMMA NotExistsReads ==
  ASSUME NEW texts, NEW ms, ReadsEach(texts, ms), Len(texts) = 1
  PROVE  ReadsAs(Enclosed(<<Op("NOT"), Op("EXISTS")>> \o texts[1]),
                 Tree(Op("NOT"), <<Tree(Op("EXISTS"), ms)>>))
<1> DEFINE x == Op("NOT")
           y == Op("EXISTS")
<1>1. x \in Node /\ x.op \in Prefix /\ y \in Node /\ y.op \in Prefix
  BY OpNodes DEF Prefix, UnaryOp
<1> HIDE DEF x, y
<1>2. ms = <<ms[1]>> /\ ms[1] \in Seq(Node) /\ ReadsAs(texts[1], ms[1])
  BY EachOf
<1>3. Inside(<<x, y>> \o texts[1], Append(Append(ms[1], y), x))
  BY <1>1, <1>2, NotExistsInside
<1>4. Tree(y, <<ms[1]>>) = Append(ms[1], y)
  BY <1>2, FewOperands
<1>5. Tree(y, ms) = Append(ms[1], y) /\ Append(ms[1], y) \in Seq(Node)
  BY <1>1, <1>2, <1>4
<1>6. Tree(x, <<Tree(y, ms)>>) = Append(Tree(y, ms), x)
  <2> DEFINE a == Tree(y, ms)
  <2>1. a \in Seq(Node)
    BY <1>5
  <2> HIDE DEF a
  <2>2. Tree(x, <<a>>) = Append(a, x)
    BY <2>1, FewOperands
  <2> QED BY <2>2 DEF a
<1>7. ReadsAs(Enclosed(<<x, y>> \o texts[1]), Tree(x, <<Tree(y, ms)>>))
  BY <1>3, <1>5, <1>6, EnclosedReads
<1> QED BY <1>7 DEF x, y

LEMMA NodeReads ==
  ASSUME NEW node \in Node, NEW texts, NEW ms, ReadsEach(texts, ms), Len(texts) = node.arity
  PROVE  ReadsAs(RenderNode(node, texts), MeantNode(node, ms))
<1>1. ASSUME NEW op \in BinaryOp, node = Op(op)
      PROVE  ReadsAs(RenderNode(node, texts), MeantNode(node, ms))
  <2>1. node.op = op /\ Len(texts) = 2
    BY <1>1, OpNodes
  <2>2. RenderNode(node, texts) = Enclosed(texts[1] \o <<node>> \o texts[2]) /\ MeantNode(node, ms) = Tree(node, ms)
    BY <2>1 DEF RenderNode, Among, MeantNode, BinaryOp, IsNull
  <2> QED BY <1>1, <2>1, <2>2, BinaryReads
<1>2. ASSUME NEW op \in Prefix, node = Op(op)
      PROVE  ReadsAs(RenderNode(node, texts), MeantNode(node, ms))
  <2>1. node.op = op /\ Len(texts) = 1
    BY <1>2, OpNodes DEF Prefix, UnaryOp
  <2>2. RenderNode(node, texts) = Enclosed(<<node>> \o texts[1]) /\ MeantNode(node, ms) = Tree(node, ms)
    BY <2>1 DEF RenderNode, Among, MeantNode, BinaryOp, IsNull, Prefix
  <2> QED BY <1>2, <2>1, <2>2, PrefixReads
<1>3. ASSUME node = Op("NOT EXISTS")
      PROVE  ReadsAs(RenderNode(node, texts), MeantNode(node, ms))
  <2>1. node.op = "NOT EXISTS" /\ Len(texts) = 1
    BY <1>3, OpNodes DEF UnaryOp
  <2>2. /\ RenderNode(node, texts) = Enclosed(<<Op("NOT"), Op("EXISTS")>> \o texts[1])
        /\ MeantNode(node, ms) = Tree(Op("NOT"), <<Tree(Op("EXISTS"), ms)>>)
    BY <2>1 DEF RenderNode, Among, MeantNode, BinaryOp, IsNull
  <2> QED BY <2>1, <2>2, NotExistsReads
<1>4. ASSUME node.op \in Postfix, Len(texts) = 1
      PROVE  ReadsAs(RenderNode(node, texts), MeantNode(node, ms))
  <2>1. RenderNode(node, texts) = Enclosed(texts[1] \o <<node>>) /\ MeantNode(node, ms) = Tree(node, ms)
    BY <1>4 DEF RenderNode, Among, MeantNode, BinaryOp, Postfix, IsNull
  <2> QED BY <1>4, <2>1, PostfixReads
<1>5. ASSUME node = Template("NOT")
      PROVE  ReadsAs(RenderNode(node, texts), MeantNode(node, ms))
  <2>1. node.op = "template" /\ node.text = "NOT" /\ Len(texts) = 1
    BY <1>5 DEF Template
  <2>2. /\ RenderNode(node, texts) = Enclosed(<<Op("NOT")>> \o texts[1])
        /\ MeantNode(node, ms) = Tree(Op("NOT"), ms)
    BY <2>1 DEF RenderNode, Among, MeantNode, BinaryOp, IsNull
  <2>3. "NOT" \in Prefix
    BY DEF Prefix
  <2> QED BY <2>1, <2>2, <2>3, PrefixReads
<1>6. ASSUME node = Template("OR")
      PROVE  ReadsAs(RenderNode(node, texts), MeantNode(node, ms))
  <2>1. node.op = "template" /\ node.text = "OR" /\ Len(texts) = 2
    BY <1>6 DEF Template
  <2>2. /\ RenderNode(node, texts) = Enclosed(texts[1] \o <<Op("OR")>> \o texts[2])
        /\ MeantNode(node, ms) = Tree(Op("OR"), ms)
    BY <2>1 DEF RenderNode, Among, MeantNode, BinaryOp, IsNull
  <2>3. "OR" \in BinaryOp
    BY DEF BinaryOp
  <2> QED BY <2>1, <2>2, <2>3, BinaryReads
<1>7. ASSUME node.op \in {"column", "always"}, Len(texts) = 0
      PROVE  ReadsAs(RenderNode(node, texts), MeantNode(node, ms))
  <2>1. ms = <<>>
    BY <1>7, ShortSequences DEF ReadsEach
  <2>2. RenderNode(node, texts) = <<node>> /\ MeantNode(node, ms) = Tree(node, ms)
    BY <1>7 DEF RenderNode, MeantNode
  <2>3. Tree(node, <<>>) = <<node>>
    <3>1. <<>> \in Seq(Node)
      OBVIOUS
    <3> QED BY <3>1, FewOperands
  <2> QED BY <1>7, <2>1, <2>2, <2>3, OperandReads
<1>8. ASSUME node.op = "query", node.from \in Table, node = Query(node.from, Len(texts))
      PROVE  ReadsAs(RenderNode(node, texts), MeantNode(node, ms))
  <2>1. RenderNode(node, texts) = <<OpenQuery(node.from)>> \o RenderAndList(texts) \o <<Tok(")")>>
    BY <1>8 DEF RenderNode
  <2>2. MeantNode(node, ms) = QueryMeans(node.from, ms)
    <3>1. CASE ms = <<>>
      <4>1. Len(texts) = 0
        BY <3>1 DEF ReadsEach
      <4>2. MeantNode(node, ms) = Tree(node, ms)
        BY <1>8, <3>1 DEF MeantNode
      <4> QED BY <1>8, <3>1, <4>1, <4>2 DEF QueryMeans
    <3>2. CASE ms # <<>>
      BY <1>8, <3>2 DEF MeantNode, QueryMeans
    <3> QED BY <3>1, <3>2
  <2> QED BY <1>8, <2>1, <2>2, QueryReads
<1>9. CASE node \in {Op(op) : op \in BinaryOp \cup UnaryOp}
  <2>1. PICK op \in BinaryOp \cup UnaryOp : node = Op(op)
    BY <1>9
  <2>2. op \in BinaryOp \/ op \in Prefix \/ op = "NOT EXISTS" \/ op \in IsNull
    BY DEF UnaryOp, Prefix
  <2>3. ASSUME op \in IsNull PROVE node.op \in Postfix /\ Len(texts) = 1
    BY <2>1, <2>3, OpNodes DEF UnaryOp, Postfix
  <2> QED BY <1>1, <1>2, <1>3, <1>4, <2>1, <2>2, <2>3
<1>10. CASE node \in {Template(text) : text \in Fragments}
  BY <1>5, <1>6, <1>10 DEF Fragments
<1>11. CASE node \in {Column(t) : t \in Table} \cup {AlwaysNode(yes) : yes \in BOOLEAN}
  <2>1. node.op \in {"column", "always"} /\ node.arity = 0
    BY <1>11 DEF Column, AlwaysNode
  <2> QED BY <1>7, <2>1
<1>12. CASE node \in [op : {"IN LIST"}, arity : {1}, values : Seq(BOOLEAN)]
  <2>1. node.op \in {"IN LIST"} /\ node.arity \in {1}
    BY Zenon, <1>12
  <2> QED BY <1>4, <2>1 DEF Postfix
<1>13. CASE node \in [op : {"query"}, arity : Nat, from : Table]
  <2>1. node.op = "query" /\ node.from \in Table /\ node = [op |-> "query", arity |-> node.arity, from |-> node.from]
    BY <1>13
  <2> QED BY <1>8, <2>1 DEF Query
<1> QED BY <1>9, <1>10, <1>11, <1>12, <1>13 DEF Node-----------------------------------------------------------------------------
(***************************************************************************)
(* Every condition is read as what it means.                               *)
(***************************************************************************)
Rendering == [x \in Node \X Seq(Text) |-> RenderNode(x[1], x[2])]
Meant == [x \in Node \X Seq(Seq(Node)) |-> MeantNode(x[1], x[2])]

LEMMA RenderIs == ASSUME NEW e PROVE Render(e) = Evaluate(Rendering, e)
BY DEF Render, Rendering

LEMMA MeaningIs == ASSUME NEW e PROVE Meaning(e) = Evaluate(Meant, e)
BY DEF Meaning, Meant

Readable == {text \in Text : \E m \in Seq(Node) : ReadsAs(text, m)}

LEMMA RenderingIsAlgebra == Algebra(Rendering, Readable)
<1> SUFFICES ASSUME NEW node \in Node, NEW of \in Seq(Readable), Len(of) = node.arity
             PROVE  Rendering[<<node, of>>] \in Readable
  BY DEF Algebra
<1>1. of \in Seq(Text) /\ \A i \in 1 .. Len(of) : of[i] \in Readable
  <2>1. Readable \subseteq Text
    BY DEF Readable
  <2> QED BY <2>1, Members
<1> DEFINE ms == [i \in 1 .. Len(of) |-> CHOOSE m \in Seq(Node) : ReadsAs(of[i], m)]
<1>2. \A i \in 1 .. Len(of) : ms[i] \in Seq(Node) /\ ReadsAs(of[i], ms[i])
  BY <1>1 DEF Readable
<1>3. Len(of) \in Nat /\ ms = [i \in 1 .. Len(of) |-> ms[i]]
  OBVIOUS
<1> HIDE DEF ms
<1>4. ms \in Seq(Seq(Node)) /\ Len(ms) = Len(of)
  BY <1>2, <1>3
<1>5. ReadsEach(of, ms)
  BY <1>1, <1>2, <1>4 DEF ReadsEach
<1>6. ReadsAs(RenderNode(node, of), MeantNode(node, ms))
  BY <1>5, NodeReads
<1>7. Rendering[<<node, of>>] = RenderNode(node, of)
  BY <1>1 DEF Rendering
<1> QED BY <1>6, <1>7 DEF Readable, ReadsAs

LEMMA JoinedIsExpr ==
  ASSUME NEW op \in {"AND", "OR"}, NEW kinds \in Seq(Expr), kinds # <<>>
  PROVE  Joined(op, kinds) \in Expr
<1>1. PICK j : JoinsUp(op, kinds, j)
  BY JoinedStepwise
<1>2. \A n \in 1 .. Len(kinds) : j[n] \in Expr
  BY <1>1, ExprIsClosed, JoinedStays
<1>3. Len(kinds) \in 1 .. Len(kinds)
  OBVIOUS
<1> QED BY <1>1, <1>2, <1>3 DEF JoinsUp

\* A node, by what it says it is.
LEMMA NodeByOp ==
  ASSUME NEW node \in Node
  PROVE  /\ node.op = "template" => \E text \in Fragments : node = Template(text)
         /\ node.op = "column" => node.table \in Table
         /\ node.op = "always" => node.yes \in BOOLEAN
         /\ node.op = "IN LIST" => node.arity = 1 /\ node.values \in Seq(BOOLEAN)
         /\ node.op = "query" => node.from \in Table
         /\ \A op \in BinaryOp \cup UnaryOp : node.op = op => node = Op(op)
<1>1. /\ \A text : Template(text).op = "template"
      /\ \A t : Column(t).op = "column" /\ Column(t).table = t
      /\ \A yes : AlwaysNode(yes).op = "always" /\ AlwaysNode(yes).yes = yes
  BY DEF Template, Column, AlwaysNode
<1>2. \A op \in BinaryOp \cup UnaryOp : op \notin {"template", "column", "always", "IN LIST", "query"}
  BY DEF BinaryOp, UnaryOp, IsNull
<1>3. CASE node \in {Op(op) : op \in BinaryOp \cup UnaryOp}
  <2>1. PICK op \in BinaryOp \cup UnaryOp : node = Op(op)
    BY <1>3
  <2>2. node.op = op
    BY <2>1, OpNodes
  <2> QED BY <1>2, <2>1, <2>2
<1>4. CASE node \in {Template(text) : text \in Fragments}
  <2>1. node.op = "template" /\ \E text \in Fragments : node = Template(text)
    BY <1>1, <1>4
  <2> QED BY <1>2, <2>1
<1>5. CASE node \in {Column(t) : t \in Table}
  <2>1. node.op = "column" /\ node.table \in Table
    BY <1>1, <1>5
  <2> QED BY <1>2, <2>1
<1>6. CASE node \in {AlwaysNode(yes) : yes \in BOOLEAN}
  <2>1. node.op = "always" /\ node.yes \in BOOLEAN
    BY <1>1, <1>6
  <2> QED BY <1>2, <2>1
<1>7. CASE node \in [op : {"IN LIST"}, arity : {1}, values : Seq(BOOLEAN)]
  <2>1. node.op \in {"IN LIST"} /\ node.arity \in {1} /\ node.values \in Seq(BOOLEAN)
    BY Zenon, <1>7
  <2> QED BY <1>2, <2>1
<1>8. CASE node \in [op : {"query"}, arity : Nat, from : Table]
  <2>1. node.op = "query" /\ node.from \in Table
    BY <1>8
  <2> QED BY <1>2, <2>1
<1> QED BY <1>3, <1>4, <1>5, <1>6, <1>7, <1>8 DEF Node

LEMMA MeantIsExpr ==
  ASSUME NEW node \in Node, NEW of \in Seq(Expr), Len(of) = node.arity
  PROVE  MeantNode(node, of) \in Expr
<1>1. CASE node.op = "template"
  <2>1. PICK text \in Fragments : node = Template(text)
    BY <1>1, NodeByOp
  <2>2. Op(text) \in Node /\ Op(text).arity = node.arity /\ node.text = text
    <3>1. CASE text = "NOT"
      BY <2>1, <3>1, OpNodes DEF Template, UnaryOp
    <3>2. CASE text = "OR"
      BY <2>1, <3>2, OpNodes DEF Template, BinaryOp
    <3> QED BY <3>1, <3>2 DEF Fragments
  <2>3. MeantNode(node, of) = Tree(Op(text), of)
    BY <1>1, <2>2 DEF MeantNode
  <2> QED BY <2>2, <2>3, ExprTree
<1>2. CASE node.op = "NOT EXISTS"
  <2>1. /\ Op("NOT") \in Node /\ Op("NOT").arity = 1 /\ Op("EXISTS") \in Node /\ Op("EXISTS").arity = 1
        /\ Op("NOT EXISTS").arity = 1
    BY OpNodes DEF UnaryOp
  <2>2. node.arity = 1
    BY <1>2, <2>1, NodeByOp DEF UnaryOp
  <2>3. Tree(Op("EXISTS"), of) \in Expr
    BY <2>1, <2>2, ExprTree
  <2> DEFINE one == <<Tree(Op("EXISTS"), of)>>
  <2>4. one \in Seq(Expr) /\ Len(one) = 1
    BY <2>3
  <2>5. MeantNode(node, of) = Tree(Op("NOT"), one)
    BY <1>2 DEF MeantNode
  <2> HIDE DEF one
  <2> QED BY <2>1, <2>4, <2>5, ExprTree
<1>3. CASE node.op = "query" /\ of # <<>>
  <2> DEFINE one == <<Joined("AND", of)>>
  <2>1. Joined("AND", of) \in Expr
    BY <1>3, JoinedIsExpr
  <2>2. one \in Seq(Expr) /\ Len(one) = 1
    BY <2>1
  <2>3. node.from \in Table
    BY <1>3, NodeByOp
  <2>4. Query(node.from, 1) \in Node /\ Query(node.from, 1).arity = 1
    BY <2>3 DEF Query, Node
  <2>5. MeantNode(node, of) = Tree(Query(node.from, 1), one)
    BY <1>3 DEF MeantNode
  <2> HIDE DEF one
  <2> QED BY <2>2, <2>4, <2>5, ExprTree
<1>4. CASE node.op # "template" /\ node.op # "NOT EXISTS" /\ ~(node.op = "query" /\ of # <<>>)
  <2>1. MeantNode(node, of) = Tree(node, of)
    BY <1>4 DEF MeantNode
  <2> QED BY <2>1, ExprTree
<1> QED BY <1>1, <1>2, <1>3, <1>4

LEMMA MeantIsAlgebra == Algebra(Meant, Expr)
<1> SUFFICES ASSUME NEW node \in Node, NEW of \in Seq(Expr), Len(of) = node.arity
             PROVE  Meant[<<node, of>>] \in Expr
  BY DEF Algebra
<1>1. of \in Seq(Seq(Node))
  BY ExprSeq, Members
<1>2. Meant[<<node, of>>] = MeantNode(node, of)
  BY <1>1 DEF Meant
<1> QED BY <1>2, MeantIsExpr

LEMMA RenderedTree ==
  ASSUME NEW node \in Node, NEW of \in Seq(Expr), Len(of) = node.arity
  PROVE  Render(Tree(node, of)) = RenderNode(node, [i \in 1 .. Len(of) |-> Render(of[i])])
<1>1. /\ Evaluate(Rendering, Tree(node, of)) = Rendering[<<node, Values(Rendering, of)>>]
      /\ Values(Rendering, of) \in Seq(Readable)
  BY RenderingIsAlgebra, EvaluateTree
<1>2. Values(Rendering, of) \in Seq(Text)
  BY <1>1, Members DEF Readable
<1>3. Values(Rendering, of) = [i \in 1 .. Len(of) |-> Render(of[i])]
  BY RenderIs DEF Values
<1>4. Rendering[<<node, Values(Rendering, of)>>] = RenderNode(node, Values(Rendering, of))
  BY <1>2 DEF Rendering
<1> QED BY <1>1, <1>3, <1>4, RenderIs

LEMMA MeantTree ==
  ASSUME NEW node \in Node, NEW of \in Seq(Expr), Len(of) = node.arity
  PROVE  /\ Meaning(Tree(node, of)) = MeantNode(node, [i \in 1 .. Len(of) |-> Meaning(of[i])])
         /\ [i \in 1 .. Len(of) |-> Meaning(of[i])] \in Seq(Expr)
<1>1. /\ Evaluate(Meant, Tree(node, of)) = Meant[<<node, Values(Meant, of)>>]
      /\ Values(Meant, of) \in Seq(Expr)
  BY MeantIsAlgebra, EvaluateTree
<1>2. Values(Meant, of) \in Seq(Seq(Node))
  BY <1>1, ExprSeq, Members
<1>3. Values(Meant, of) = [i \in 1 .. Len(of) |-> Meaning(of[i])]
  BY MeaningIs DEF Values
<1>4. Meant[<<node, Values(Meant, of)>>] = MeantNode(node, Values(Meant, of))
  BY <1>2 DEF Meant
<1> QED BY <1>1, <1>3, <1>4, MeaningIs

LEMMA MeaningIsExpr ==
  ASSUME NEW c \in Expr
  PROVE  Meaning(c) \in Expr
BY MeantIsAlgebra, EverySettles, MeaningIs DEF Settles

LEMMA EveryReads ==
  ASSUME NEW c \in Expr
  PROVE  ReadsAs(Render(c), Meaning(c))
<1> DEFINE W == {e \in Expr : ReadsAs(Render(e), Meaning(e))}
<1>1. ASSUME NEW node \in Node, NEW of \in Seq(W), Len(of) = node.arity
      PROVE  Tree(node, of) \in W
  <2> DEFINE texts == [i \in 1 .. Len(of) |-> Render(of[i])]
             ms == [i \in 1 .. Len(of) |-> Meaning(of[i])]
  <2>1. of \in Seq(Expr) /\ Len(of) \in Nat /\ \A i \in 1 .. Len(of) : ReadsAs(Render(of[i]), Meaning(of[i]))
    OBVIOUS
  <2>2. Tree(node, of) \in Expr
    BY <1>1, <2>1, ExprTree
  <2>3. \A i \in 1 .. Len(of) : Render(of[i]) \in Text /\ Meaning(of[i]) \in Seq(Node)
    BY <2>1 DEF ReadsAs
  <2>4. ReadsEach(texts, ms) /\ Len(texts) = Len(of)
    BY <2>1, <2>3 DEF ReadsEach
  <2>5. Render(Tree(node, of)) = RenderNode(node, texts) /\ Meaning(Tree(node, of)) = MeantNode(node, ms)
    BY <1>1, <2>1, RenderedTree, MeantTree
  <2> HIDE DEF texts, ms
  <2>6. ReadsAs(RenderNode(node, texts), MeantNode(node, ms))
    BY <1>1, <2>4, NodeReads
  <2> QED BY <2>2, <2>5, <2>6
<1>2. W \subseteq Expr
  OBVIOUS
<1> HIDE DEF W
<1>3. W = Expr
  BY <1>1, <1>2, Structural
<1> QED BY <1>3 DEF W

\* The server's tree is the one meant.
LEMMA ReadBack ==
  ASSUME NEW c \in Expr
  PROVE  Read(Render(c)) = Meaning(c)
<1> DEFINE none == <<>>
           m == Meaning(c)
<1>1. none \in Seq(Node) /\ none \in Seq(Token) /\ ReadsAs(Render(c), m)
  BY EveryReads
<1>2. m \in Seq(Node)
  BY <1>1 DEF ReadsAs
<1> HIDE DEF m
<1>3. none \o m = m /\ m \o none = m /\ none \o none = none
  BY <1>2
<1>4. Len(none) = 0 /\ Reverse(none) = none
  BY Reversed
<1>5. none = <<>>
  OBVIOUS
<1> HIDE DEF none
<1>6. ReadOn(At(none, none), Render(c)) = At(none \o m, none)
  BY <1>1 DEF ReadsAs
<1>7. Reduce(At(m, none \o none), 1) = At(m \o Reverse(none), none)
  <2>1. \A i \in 1 .. Len(none) : Precedence(none[i].op) >= 1
    BY <1>4
  <2> QED BY <1>1, <1>5, <2>1, Waiting
<1>8. Read(Render(c)) = Reduce(ReadOn(At(none, none), Render(c)), 1).out
  BY <1>5 DEF Read, At
<1>9. Read(Render(c)) = At(m, none).out
  BY <1>3, <1>4, <1>6, <1>7, <1>8
<1> QED BY <1>9 DEF At, m
-----------------------------------------------------------------------------
(***************************************************************************)
(* The names a condition leaves to the queries around it.                  *)
(***************************************************************************)
Naming == [x \in Node \X Seq(SUBSET Table) |-> NamesLeft(x[1], x[2])]

LEMMA UnboundIs == ASSUME NEW e PROVE Unbound(e) = Evaluate(Naming, e)
BY DEF Unbound, Naming

LEMMA NamingIsAlgebra == Algebra(Naming, SUBSET Table)
<1> SUFFICES ASSUME NEW node \in Node, NEW of \in Seq(SUBSET Table), Len(of) = node.arity
             PROVE  Naming[<<node, of>>] \in SUBSET Table
  BY DEF Algebra
<1>1. UNION ToSet(of) \in SUBSET Table
  BY DEF ToSet
<1>2. NamesLeft(node, of) \in SUBSET Table
  BY <1>1, NodeByOp DEF NamesLeft
<1> QED BY <1>2 DEF Naming

\* The names of conditions together.
NamesOf(conds) == UNION {Unbound(conds[i]) : i \in 1 .. Len(conds)}

LEMMA UnboundTree ==
  ASSUME NEW node \in Node, NEW of \in Seq(Expr), Len(of) = node.arity
  PROVE  /\ Unbound(Tree(node, of)) \in SUBSET Table
         /\ node.op = "column" => Unbound(Tree(node, of)) = {node.table}
         /\ node.op = "query" => Unbound(Tree(node, of)) = NamesOf(of) \ {node.from}
         /\ node.op \notin {"column", "query"} => Unbound(Tree(node, of)) = NamesOf(of)
<1> DEFINE names == Values(Naming, of)
<1>1. /\ Evaluate(Naming, Tree(node, of)) = Naming[<<node, names>>]
      /\ Evaluate(Naming, Tree(node, of)) \in SUBSET Table
      /\ names \in Seq(SUBSET Table)
  BY NamingIsAlgebra, EvaluateTree
<1>2. UNION ToSet(names) = NamesOf(of)
  <2>1. Len(of) \in Nat /\ names = [i \in 1 .. Len(of) |-> Unbound(of[i])]
    BY UnboundIs DEF Values
  <2>2. ToSet(names) = {Unbound(of[i]) : i \in 1 .. Len(of)}
    BY <2>1 DEF ToSet
  <2> QED BY <2>2 DEF NamesOf
<1>3. Naming[<<node, names>>] = NamesLeft(node, names)
  BY <1>1 DEF Naming
<1> HIDE DEF names
<1>4. Unbound(Tree(node, of)) = NamesLeft(node, names)
  BY <1>1, <1>3, UnboundIs
<1>5. Unbound(Tree(node, of)) \in SUBSET Table
  BY <1>1, UnboundIs
<1>6. ASSUME node.op = "column" PROVE NamesLeft(node, names) = {node.table}
  BY <1>6 DEF NamesLeft
<1>7. ASSUME node.op = "query" PROVE NamesLeft(node, names) = NamesOf(of) \ {node.from}
  BY <1>2, <1>7 DEF NamesLeft
<1>8. ASSUME node.op \notin {"column", "query"} PROVE NamesLeft(node, names) = NamesOf(of)
  BY <1>2, <1>8 DEF NamesLeft
<1> QED BY <1>4, <1>5, <1>6, <1>7, <1>8

LEMMA UnboundTyped ==
  ASSUME NEW c \in Expr
  PROVE  Unbound(c) \in SUBSET Table
BY NamingIsAlgebra, EverySettles, UnboundIs DEF Settles

LEMMA NamesOfFew ==
  ASSUME NEW a, NEW b
  PROVE  /\ NamesOf(<<>>) = {} /\ NamesOf(<<a>>) = Unbound(a)
         /\ NamesOf(<<a, b>>) = Unbound(a) \cup Unbound(b)
<1>1. NamesOf(<<>>) = {}
  <2>1. 1 .. Len(<<>>) = {}
    OBVIOUS
  <2> QED BY <2>1 DEF NamesOf
<1>2. NamesOf(<<a>>) = Unbound(a)
  <2> DEFINE w == <<a>>
  <2>1. 1 .. Len(w) = {1} /\ w[1] = a
    OBVIOUS
  <2> HIDE DEF w
  <2>2. {Unbound(w[i]) : i \in {1}} = {Unbound(a)}
    BY <2>1
  <2>3. NamesOf(w) = UNION {Unbound(a)}
    BY <2>1, <2>2 DEF NamesOf
  <2> QED BY <2>3 DEF w
<1>3. NamesOf(<<a, b>>) = Unbound(a) \cup Unbound(b)
  <2> DEFINE w == <<a, b>>
  <2>1. 1 .. Len(w) = {1, 2} /\ w[1] = a /\ w[2] = b
    OBVIOUS
  <2> HIDE DEF w
  <2>2. {Unbound(w[i]) : i \in {1, 2}} = {Unbound(a), Unbound(b)}
    BY <2>1
  <2>3. NamesOf(w) = UNION {Unbound(a), Unbound(b)}
    BY <2>1, <2>2 DEF NamesOf
  <2> QED BY <2>3 DEF w
<1> QED BY <1>1, <1>2, <1>3

LEMMA JoinedNames ==
  ASSUME NEW op \in {"AND", "OR"}, NEW kinds \in Seq(Expr), kinds # <<>>
  PROVE  Unbound(Joined(op, kinds)) = NamesOf(kinds)
<1> DEFINE N == Len(kinds)
           Upto(n) == UNION {Unbound(kinds[i]) : i \in 1 .. n}
<1>1. N \in Nat /\ N # 0 /\ \A n \in 1 .. N : kinds[n] \in Expr
  OBVIOUS
<1>2. PICK j : JoinsUp(op, kinds, j)
  BY JoinedStepwise
<1>3. \A n \in 1 .. N : j[n] \in Expr
  BY <1>2, ExprIsClosed, JoinedStays
<1>4. Op(op) \in Node /\ Op(op).arity = 2 /\ Op(op).op \notin {"column", "query"}
  BY OpNodes DEF BinaryOp
<1> DEFINE S == {n \in 0 .. N : n # 0 => Unbound(j[n]) = Upto(n)}
<1>5. 0 \in S
  BY <1>1
<1>6. ASSUME NEW n \in 1 .. N, n - 1 \in S PROVE n \in S
  <2>1. n \in 0 .. N /\ n # 0
    BY <1>1
  <2>2. CASE n = 1
    <3>1. {Unbound(kinds[i]) : i \in 1 .. 1} = {Unbound(kinds[1])}
      OBVIOUS
    <3>2. j[1] = kinds[1]
      BY <1>2 DEF JoinsUp
    <3> QED BY <2>1, <2>2, <3>1, <3>2
  <2>3. CASE n # 1
    <3>1. n \in 2 .. N /\ n - 1 \in 1 .. N /\ n - 1 # 0
      BY <1>1, <2>3
    <3> DEFINE a == j[n - 1]
               b == kinds[n]
               of == <<a, b>>
    <3>2. a \in Expr /\ b \in Expr
      BY <1>1, <1>3, <3>1
    <3>3. j[n] = Tree(Op(op), of)
      BY <1>2, <3>1 DEF JoinsUp
    <3>4. Unbound(a) = Upto(n - 1)
      BY <1>6, <3>1
    <3> HIDE DEF a, b
    <3>5. of \in Seq(Expr) /\ Len(of) = 2
      BY <3>2
    <3>6. NamesOf(of) = Unbound(a) \cup Unbound(b)
      BY NamesOfFew
    <3> HIDE DEF of
    <3>7. Unbound(j[n]) = Unbound(a) \cup Unbound(b)
      BY <1>4, <3>3, <3>5, <3>6, UnboundTree
    <3>8. 1 .. n = (1 .. (n - 1)) \cup {n}
      BY <3>1
    <3>9. Upto(n) = Upto(n - 1) \cup Unbound(kinds[n])
      BY <3>8
    <3> QED BY <2>1, <3>4, <3>7, <3>9 DEF b
  <2> QED BY <2>2, <2>3
<1>7. N \in S
  <2>1. N \in 0 .. N
    BY <1>1
  <2> HIDE DEF S, N
  <2> QED BY <1>1, <1>5, <1>6, <2>1, Upwards
<1> QED BY <1>1, <1>2, <1>7 DEF JoinsUp, NamesOf

LEMMA MeantNames ==
  ASSUME NEW node \in Node, NEW ms \in Seq(Expr), Len(ms) = node.arity
  PROVE  Unbound(MeantNode(node, ms)) = Unbound(Tree(node, ms))
<1>1. CASE node.op = "template"
  <2>1. PICK text \in Fragments : node = Template(text)
    BY <1>1, NodeByOp
  <2>2. Op(text) \in Node /\ Op(text).arity = node.arity /\ node.text = text /\ Op(text).op \notin {"column", "query"}
    <3>1. CASE text = "NOT"
      BY <2>1, <3>1, OpNodes DEF Template, UnaryOp
    <3>2. CASE text = "OR"
      BY <2>1, <3>2, OpNodes DEF Template, BinaryOp
    <3> QED BY <3>1, <3>2 DEF Fragments
  <2>3. MeantNode(node, ms) = Tree(Op(text), ms)
    BY <1>1, <2>2 DEF MeantNode
  <2>4. Unbound(Tree(Op(text), ms)) = NamesOf(ms)
    BY <2>2, UnboundTree
  <2>5. Unbound(Tree(node, ms)) = NamesOf(ms)
    BY <1>1, UnboundTree
  <2> QED BY <2>3, <2>4, <2>5
<1>2. CASE node.op = "NOT EXISTS"
  <2>0. Op("NOT").op = "NOT" /\ Op("EXISTS").op = "EXISTS"
    BY DEF Op
  <2>1. /\ Op("NOT") \in Node /\ Op("NOT").arity = 1 /\ Op("EXISTS") \in Node /\ Op("EXISTS").arity = 1
        /\ Op("NOT EXISTS").arity = 1 /\ Op("NOT").op \notin {"column", "query"} /\ Op("EXISTS").op \notin {"column", "query"}
    <3>1. /\ Op("NOT") \in Node /\ Op("NOT").arity = 1 /\ Op("EXISTS") \in Node /\ Op("EXISTS").arity = 1
          /\ Op("NOT EXISTS").arity = 1
      BY OpNodes DEF UnaryOp
    <3> QED BY <2>0, <3>1
  <2>2. node.arity = 1
    BY <1>2, <2>1, NodeByOp DEF UnaryOp
  <2>3. Tree(Op("EXISTS"), ms) \in Expr
    BY <2>1, <2>2, ExprTree
  <2> DEFINE one == <<Tree(Op("EXISTS"), ms)>>
  <2>4. one \in Seq(Expr) /\ Len(one) = 1
    BY <2>3
  <2>5. MeantNode(node, ms) = Tree(Op("NOT"), one)
    BY <1>2 DEF MeantNode
  <2>6. NamesOf(one) = Unbound(Tree(Op("EXISTS"), ms))
    BY NamesOfFew
  <2> HIDE DEF one
  <2>7. Unbound(Tree(Op("NOT"), one)) = NamesOf(one)
    BY <2>1, <2>4, UnboundTree
  <2>8. Unbound(Tree(Op("EXISTS"), ms)) = NamesOf(ms)
    BY <2>1, <2>2, UnboundTree
  <2>9. Unbound(Tree(node, ms)) = NamesOf(ms)
    BY <1>2, UnboundTree
  <2> QED BY <2>5, <2>6, <2>7, <2>8, <2>9
<1>3. CASE node.op = "query" /\ ms # <<>>
  <2> DEFINE one == <<Joined("AND", ms)>>
             q == Query(node.from, 1)
  <2>1. Joined("AND", ms) \in Expr
    BY <1>3, JoinedIsExpr
  <2>2. one \in Seq(Expr) /\ Len(one) = 1
    BY <2>1
  <2>3. node.from \in Table
    BY <1>3, NodeByOp
  <2>4. q \in Node /\ q.arity = 1 /\ q.op = "query" /\ q.from = node.from
    BY <2>3 DEF Query, Node
  <2>5. MeantNode(node, ms) = Tree(q, one)
    BY <1>3 DEF MeantNode
  <2>6. NamesOf(one) = Unbound(Joined("AND", ms))
    BY NamesOfFew
  <2> HIDE DEF one, q
  <2>7. Unbound(Tree(q, one)) = NamesOf(one) \ {node.from}
    BY <2>2, <2>4, UnboundTree
  <2>8. NamesOf(one) = NamesOf(ms)
    BY <1>3, <2>6, JoinedNames
  <2>9. Unbound(Tree(node, ms)) = NamesOf(ms) \ {node.from}
    BY <1>3, UnboundTree
  <2> QED BY <2>5, <2>7, <2>8, <2>9
<1>4. CASE node.op # "template" /\ node.op # "NOT EXISTS" /\ ~(node.op = "query" /\ ms # <<>>)
  BY <1>4 DEF MeantNode
<1> QED BY <1>1, <1>2, <1>3, <1>4

\* What is meant names what was said.
LEMMA MeaningKeepsNames ==
  ASSUME NEW c \in Expr
  PROVE  Unbound(Meaning(c)) = Unbound(c)
<1> DEFINE W == {e \in Expr : Unbound(Meaning(e)) = Unbound(e)}
<1>1. ASSUME NEW node \in Node, NEW of \in Seq(W), Len(of) = node.arity
      PROVE  Tree(node, of) \in W
  <2> DEFINE ms == [i \in 1 .. Len(of) |-> Meaning(of[i])]
  <2>1. of \in Seq(Expr) /\ Len(of) \in Nat /\ \A i \in 1 .. Len(of) : Unbound(Meaning(of[i])) = Unbound(of[i])
    OBVIOUS
  <2>2. Tree(node, of) \in Expr
    BY <1>1, <2>1, ExprTree
  <2>3. Meaning(Tree(node, of)) = MeantNode(node, ms) /\ ms \in Seq(Expr)
    BY <1>1, <2>1, MeantTree
  <2>4. Len(ms) = node.arity
    BY <1>1, <2>1
  <2>5. NamesOf(ms) = NamesOf(of)
    <3>1. Len(ms) = Len(of) /\ \A i \in 1 .. Len(of) : ms[i] = Meaning(of[i])
      BY <2>1
    <3> HIDE DEF ms
    <3>2. {Unbound(ms[i]) : i \in 1 .. Len(ms)} = {Unbound(of[i]) : i \in 1 .. Len(of)}
      BY <2>1, <3>1
    <3> QED BY <3>2 DEF NamesOf
  <2> HIDE DEF ms, W
  <2>6. Unbound(Meaning(Tree(node, of))) = Unbound(Tree(node, ms))
    BY <2>3, <2>4, MeantNames
  <2>7. Unbound(Tree(node, ms)) = Unbound(Tree(node, of))
    <3>1. CASE node.op = "column"
      <4>1. Unbound(Tree(node, ms)) = {node.table}
        BY <2>3, <2>4, <3>1, UnboundTree
      <4>2. Unbound(Tree(node, of)) = {node.table}
        BY <1>1, <2>1, <3>1, UnboundTree
      <4> QED BY <4>1, <4>2
    <3>2. CASE node.op = "query"
      <4>1. Unbound(Tree(node, ms)) = NamesOf(ms) \ {node.from}
        BY <2>3, <2>4, <3>2, UnboundTree
      <4>2. Unbound(Tree(node, of)) = NamesOf(of) \ {node.from}
        BY <1>1, <2>1, <3>2, UnboundTree
      <4> QED BY <2>5, <4>1, <4>2
    <3>3. CASE node.op \notin {"column", "query"}
      <4>1. Unbound(Tree(node, ms)) = NamesOf(ms)
        BY <2>3, <2>4, <3>3, UnboundTree
      <4>2. Unbound(Tree(node, of)) = NamesOf(of)
        BY <1>1, <2>1, <3>3, UnboundTree
      <4> QED BY <2>5, <4>1, <4>2
    <3> QED BY <3>1, <3>2, <3>3
  <2> QED BY <2>2, <2>6, <2>7 DEF W
<1>2. W \subseteq Expr
  OBVIOUS
<1> HIDE DEF W
<1>3. W = Expr
  BY <1>1, <1>2, Structural
<1> QED BY <1>3 DEF W
-----------------------------------------------------------------------------
(***************************************************************************)
(* What a condition names, its type says: the inductive invariant.         *)
(***************************************************************************)
LEMMA TogetherHave ==
  ASSUME NEW S, NEW s \in Seq(S), NEW t \in Seq(S)
  PROVE  s \o t \in Seq(S) /\ ToSet(s \o t) = ToSet(s) \cup ToSet(t)
<1> DEFINE M == Len(s)
           N == Len(t)
           c == s \o t
<1>1. M \in Nat /\ N \in Nat /\ DOMAIN s = 1 .. M /\ DOMAIN t = 1 .. N
  OBVIOUS
<1>2. /\ c \in Seq(S) /\ Len(c) = M + N /\ DOMAIN c = 1 .. (M + N)
      /\ \A i \in 1 .. M : c[i] = s[i]
      /\ \A i \in 1 .. N : c[M + i] = t[i]
  BY <1>1, ConcatProperties
<1> HIDE DEF c, M, N
<1>3. \A i \in 1 .. (M + N) : i \in 1 .. M \/ \E k \in 1 .. N : i = M + k
  <2> SUFFICES ASSUME NEW i \in 1 .. (M + N), i \notin 1 .. M
               PROVE  \E k \in 1 .. N : i = M + k
    OBVIOUS
  <2>1. i - M \in 1 .. N /\ i = M + (i - M)
    BY <1>1
  <2> QED BY <2>1
<1>4. (1 .. M) \subseteq 1 .. (M + N) /\ \A k \in 1 .. N : M + k \in 1 .. (M + N)
  BY <1>1
<1>5. ToSet(c) \subseteq ToSet(s) \cup ToSet(t)
  <2> SUFFICES ASSUME NEW i \in 1 .. (M + N) PROVE c[i] \in ToSet(s) \cup ToSet(t)
    BY <1>2 DEF ToSet
  <2> QED BY <1>1, <1>2, <1>3 DEF ToSet
<1>6. ToSet(s) \subseteq ToSet(c)
  BY <1>1, <1>2, <1>4 DEF ToSet
<1>7. ToSet(t) \subseteq ToSet(c)
  <2> SUFFICES ASSUME NEW k \in 1 .. N PROVE t[k] \in ToSet(c)
    BY <1>1 DEF ToSet
  <2> QED BY <1>1, <1>2, <1>4 DEF ToSet
<1> QED BY <1>2, <1>5, <1>6, <1>7 DEF c

\* Lists one after the other have what each of them has.
LEMMA FlatHas ==
  ASSUME NEW S, NEW w \in Seq(Seq(S))
  PROVE  /\ FlattenSeq(w) \in Seq(S)
         /\ \A i \in 1 .. Len(w) : ToSet(w[i]) \subseteq ToSet(FlattenSeq(w))
<1> DEFINE N == Len(w)
<1>1. N \in Nat /\ \A n \in 1 .. N : w[n] \in Seq(S)
  OBVIOUS
<1>2. CASE N = 0
  <2>1. FlattenSeq(w) \in Seq(S)
    BY Flattened
  <2>2. 1 .. Len(w) = {}
    BY <1>2
  <2> QED BY <2>1, <2>2
<1>3. CASE N # 0
  <2>1. PICK f : /\ FlattenSeq(w) = f[N] /\ f[1] = w[1]
                 /\ \A n \in 1 .. N : n # 1 => f[n] = f[n - 1] \o w[n]
    BY <1>1, <1>3, FlatSteps
  <2> DEFINE R == {n \in 0 .. N : n # 0 => /\ f[n] \in Seq(S)
                                           /\ \A i \in 1 .. n : ToSet(w[i]) \subseteq ToSet(f[n])}
  <2>2. 0 \in R
    BY <1>1
  <2>3. ASSUME NEW n \in 1 .. N, n - 1 \in R PROVE n \in R
    <3>1. n \in 0 .. N /\ n # 0
      BY <1>1
    <3>2. CASE n = 1
      BY <1>1, <2>1, <3>1, <3>2
    <3>3. CASE n # 1
      <4>1. n - 1 # 0 /\ 1 .. n = (1 .. (n - 1)) \cup {n}
        BY <1>1, <3>3
      <4> DEFINE a == f[n - 1]
                 b == w[n]
      <4>2. a \in Seq(S) /\ \A i \in 1 .. (n - 1) : ToSet(w[i]) \subseteq ToSet(a)
        BY <2>3, <4>1
      <4>3. f[n] = a \o b /\ b \in Seq(S)
        BY <1>1, <2>1, <3>3
      <4> HIDE DEF a
      <4>4. a \o b \in Seq(S) /\ ToSet(a \o b) = ToSet(a) \cup ToSet(b)
        BY <4>2, <4>3, TogetherHave
      <4>5. \A i \in 1 .. n : ToSet(w[i]) \subseteq ToSet(a \o b)
        BY <4>1, <4>2, <4>4
      <4> QED BY <3>1, <4>3, <4>4, <4>5
    <3> QED BY <3>2, <3>3
  <2>4. N \in R
    <3>1. N \in 0 .. N
      BY <1>1
    <3> HIDE DEF R, N
    <3> QED BY <1>1, <2>2, <2>3, <3>1, Upwards
  <2> QED BY <1>3, <2>1, <2>4
<1> QED BY <1>1, <1>2, <1>3

\* A condition as it is held, and a query under construction: the tables named
\* are the type's, whatever the condition went through.
HeldCondition ==
  {h \in [cond : Expr, as : {"expr", "subquery", "predicate"}, on : Seq(Table)] :
     Unbound(h.cond) \subseteq ToSet(h.on)}

Building ==
  {q \in [from : Table, outer : Seq(Table), wheres : Seq(Expr)] :
     NamesOf(q.wheres) \subseteq ToSet(Scope(q))}

\* What was asked of a collection: of conditions, or of a list of values.
AskedOf(given, all) == [given |-> given, all |-> all, folded |-> FoldConditions(given, all)]
AskedIn(lhs, values) ==
  [given |-> [i \in DOMAIN values |-> Tree(Op("="), <<lhs, Always(values[i])>>)],
   all |-> FALSE, folded |-> InList(lhs, values)]

WasAsked ==
  \/ asked = NotAsked
  \/ \E given \in Seq(Expr), all \in BOOLEAN : asked = AskedOf(given, all)
  \/ \E lhs \in Expr, values \in Seq(BOOLEAN) : asked = AskedIn(lhs, values)

IInv ==
  /\ held \in Seq(HeldCondition)
  /\ queries \in Seq(Building)
  /\ WasAsked

LEMMA HeldIs ==
  ASSUME NEW c \in Expr, NEW as \in {"expr", "subquery", "predicate"}, NEW on \in Seq(Table),
         Unbound(c) \subseteq ToSet(on)
  PROVE  Held(c, as, on) \in HeldCondition
BY DEF Held, HeldCondition

\* The newest of a list, and those below it.
LEMMA Parts ==
  ASSUME NEW S, NEW s \in Seq(S), NEW n \in Nat, n <= Len(s)
  PROVE  /\ Newest(s, n) \in Seq(S) /\ Len(Newest(s, n)) = n
         /\ Below(s, n) \in Seq(S)
<1>1. Len(s) \in Nat
  OBVIOUS
<1> DEFINE l == Len(s)
           k == l - n + 1
           m == l - n
<1>2. k \in 1 .. (l + 1) /\ m \in 0 .. l /\ l - k + 1 = n
  BY <1>1
<1>3. SubSeq(s, k, l) \in Seq(S) /\ Len(SubSeq(s, k, l)) = IF k <= l THEN l - k + 1 ELSE 0
  BY <1>1, <1>2, SubSeqProperties
<1>4. SubSeq(s, 1, m) \in Seq(S)
  BY <1>1, <1>2, SubSeqProperties
<1>5. Len(SubSeq(s, k, l)) = n
  BY <1>1, <1>2, <1>3
<1> HIDE DEF k, m, l
<1> QED BY <1>3, <1>4, <1>5 DEF Newest, Below, k, m, l

\* The operands of a node, and the tables they require together.
LEMMA OperandsAre ==
  ASSUME IInv, NEW n \in Nat, n <= Len(held)
  PROVE  /\ Operands(n) \in Seq(Expr) /\ Len(Operands(n)) = n
         /\ ReqOf(n) \in Seq(Table)
         /\ NamesOf(Operands(n)) \subseteq ToSet(ReqOf(n))
         /\ Below(held, n) \in Seq(HeldCondition)
<1> DEFINE w == Newest(held, n)
           ons == [i \in 1 .. n |-> w[i].on]
<1>1. w \in Seq(HeldCondition) /\ Len(w) = n /\ Below(held, n) \in Seq(HeldCondition)
  BY Parts DEF IInv
<1>2. \A i \in 1 .. n : w[i] \in HeldCondition
  BY <1>1
<1> HIDE DEF w
<1>3. \A i \in 1 .. n : /\ w[i].cond \in Expr /\ w[i].on \in Seq(Table)
                        /\ Unbound(w[i].cond) \subseteq ToSet(w[i].on)
  BY <1>2 DEF HeldCondition
<1>4. Operands(n) = [i \in 1 .. n |-> w[i].cond]
  BY <1>1 DEF Operands, Conds, w
<1>5. Operands(n) \in Seq(Expr) /\ Len(Operands(n)) = n /\ \A i \in 1 .. n : Operands(n)[i] = w[i].cond
  BY <1>3, <1>4
<1>6. ons \in Seq(Seq(Table)) /\ Len(ons) = n /\ \A i \in 1 .. n : ons[i] = w[i].on
  BY <1>3
<1>7. ReqOf(n) = FlattenSeq(ons)
  BY DEF ReqOf, w
<1> HIDE DEF ons
<1>8. FlattenSeq(ons) \in Seq(Table) /\ \A i \in 1 .. n : ToSet(ons[i]) \subseteq ToSet(FlattenSeq(ons))
  BY <1>6, FlatHas
<1>9. NamesOf(Operands(n)) \subseteq ToSet(ReqOf(n))
  <2>1. \A i \in 1 .. n : Unbound(Operands(n)[i]) \subseteq ToSet(ReqOf(n))
    BY <1>3, <1>5, <1>6, <1>7, <1>8
  <2> QED BY <1>5, <2>1 DEF NamesOf
<1> QED BY <1>1, <1>5, <1>7, <1>8, <1>9

LEMMA ScopeIs ==
  ASSUME NEW from \in Table, NEW outer \in Seq(Table)
  PROVE  <<from>> \o outer \in Seq(Table) /\ ToSet(<<from>> \o outer) = {from} \cup ToSet(outer)
<1> DEFINE one == <<from>>
<1>1. one \in Seq(Table) /\ DOMAIN one = {1} /\ one[1] = from
  OBVIOUS
<1> HIDE DEF one
<1>2. ToSet(one) = {from}
  BY <1>1 DEF ToSet
<1>3. one \o outer \in Seq(Table) /\ ToSet(one \o outer) = ToSet(one) \cup ToSet(outer)
  BY <1>1, TogetherHave
<1>4. one \o outer \in Seq(Table) /\ ToSet(one \o outer) = {from} \cup ToSet(outer)
  BY <1>2, <1>3
<1> QED BY <1>4 DEF one

LEMMA BuildingIs ==
  ASSUME NEW q \in Building
  PROVE  /\ q.from \in Table /\ q.outer \in Seq(Table) /\ q.wheres \in Seq(Expr)
         /\ Scope(q) \in Seq(Table) /\ ToSet(Scope(q)) = {q.from} \cup ToSet(q.outer)
         /\ NamesOf(q.wheres) \subseteq ToSet(Scope(q))
<1>1. /\ q.from \in Table /\ q.outer \in Seq(Table) /\ q.wheres \in Seq(Expr)
      /\ NamesOf(q.wheres) \subseteq ToSet(Scope(q))
  BY DEF Building
<1> QED BY <1>1, ScopeIs DEF Scope

\* A query in a condition names no table but those it is correlated with.
LEMMA SubqueryIs ==
  ASSUME NEW q \in Building
  PROVE  Subquery(q) \in Expr /\ Unbound(Subquery(q)) \subseteq ToSet(q.outer)
<1> DEFINE node == Query(q.from, Len(q.wheres))
<1>1. q.from \in Table /\ q.wheres \in Seq(Expr) /\ Len(q.wheres) \in Nat
  BY BuildingIs
<1>2. node \in Node /\ node.op = "query" /\ node.arity = Len(q.wheres) /\ node.from = q.from
  BY <1>1 DEF Query, Node
<1> HIDE DEF node
<1>3. Tree(node, q.wheres) \in Expr /\ Unbound(Tree(node, q.wheres)) = NamesOf(q.wheres) \ {q.from}
  BY <1>1, <1>2, ExprTree, UnboundTree
<1>4. NamesOf(q.wheres) \ {q.from} \subseteq ToSet(q.outer)
  BY BuildingIs
<1> QED BY <1>3, <1>4 DEF Subquery, node

LEMMA AlwaysIs ==
  ASSUME NEW yes \in BOOLEAN
  PROVE  Always(yes) \in Expr /\ Unbound(Always(yes)) = {}
<1> DEFINE node == AlwaysNode(yes)
           none == <<>>
<1>1. node \in Node /\ node.op = "always" /\ node.arity = 0
  BY DEF AlwaysNode, Node
<1>2. none \in Seq(Expr) /\ Len(none) = 0 /\ NamesOf(none) = {}
  <2>1. \A a, b : NamesOf(<<>>) = {}
    BY Zenon, NamesOfFew
  <2> QED BY <2>1
<1> HIDE DEF node, none
<1>3. Tree(node, none) \in Expr /\ Unbound(Tree(node, none)) = NamesOf(none)
  BY <1>1, <1>2, ExprTree, UnboundTree
<1> QED BY <1>2, <1>3 DEF Always, node, none

LEMMA FoldedIs ==
  ASSUME NEW kinds \in Seq(Expr), NEW all \in BOOLEAN
  PROVE  FoldConditions(kinds, all) \in Expr /\ Unbound(FoldConditions(kinds, all)) = NamesOf(kinds)
<1>1. CASE kinds = <<>>
  <2>1. FoldConditions(kinds, all) = Always(all) /\ NamesOf(kinds) = {}
    BY <1>1, NamesOfFew DEF FoldConditions
  <2> QED BY <2>1, AlwaysIs
<1>2. CASE kinds # <<>>
  <2> DEFINE op == IF all THEN "AND" ELSE "OR"
  <2>1. op \in {"AND", "OR"} /\ FoldConditions(kinds, all) = Joined(op, kinds)
    BY <1>2 DEF FoldConditions
  <2> HIDE DEF op
  <2> QED BY <1>2, <2>1, JoinedIsExpr, JoinedNames
<1> QED BY <1>1, <1>2

LEMMA CondsAre ==
  ASSUME IInv
  PROVE  /\ Conds(held) \in Seq(Expr) /\ Len(Conds(held)) = Len(held) /\ Len(held) \in Nat
         /\ \A i \in 1 .. Len(held) : Conds(held)[i] = held[i].cond /\ held[i] \in HeldCondition
<1>1. Len(held) \in Nat /\ DOMAIN held = 1 .. Len(held) /\ \A i \in 1 .. Len(held) : held[i] \in HeldCondition
  BY DEF IInv
<1>2. \A i \in 1 .. Len(held) : held[i].cond \in Expr
  BY <1>1 DEF HeldCondition
<1>3. Conds(held) = [i \in 1 .. Len(held) |-> held[i].cond]
  BY <1>1 DEF Conds
<1> QED BY <1>1, <1>2, <1>3

\* What a query accepts as a condition names tables of its scope.
LEMMA AcceptedNames ==
  ASSUME NEW h \in HeldCondition, NEW q \in Building, IsCondition(h, q)
  PROVE  Unbound(h.cond) \subseteq ToSet(Scope(q))
<1>1. h.on \in Seq(Table) /\ Unbound(h.cond) \subseteq ToSet(h.on)
  BY DEF HeldCondition
<1>2. CASE h.as = "predicate"
  BY <1>1, <1>2 DEF IsCondition
<1>3. CASE h.as # "predicate"
  <2>1. Superset(Scope(q), h.on)
    BY <1>3 DEF IsCondition
  <2>2. ASSUME NEW i \in DOMAIN h.on PROVE h.on[i] \in ToSet(Scope(q))
    <3> DEFINE at == {k \in DOMAIN Scope(q) : Scope(q)[k] = h.on[i]}
    <3>1. Cardinality(at) = 1
      BY <2>1 DEF Superset, Found
    <3> HIDE DEF at
    <3>2. at # {}
      BY <3>1, FS_EmptySet
    <3>3. PICK k \in DOMAIN Scope(q) : Scope(q)[k] = h.on[i]
      BY <3>2 DEF at
    <3> QED BY <3>3 DEF ToSet
  <2>3. ToSet(h.on) \subseteq ToSet(Scope(q))
    BY <2>2 DEF ToSet
  <2> QED BY <1>1, <2>3
<1> QED BY <1>2, <1>3

LEMMA LastAndFront ==
  ASSUME NEW S, NEW s \in Seq(S), s # <<>>
  PROVE  /\ Last(s) \in S /\ Front(s) \in Seq(S) /\ Len(s) >= 1
         /\ Newest(s, 1)[1] = Last(s)
<1>1. Len(s) \in Nat /\ Len(s) >= 1
  OBVIOUS
<1> DEFINE l == Len(s)
<1>2. Last(s) \in S /\ Last(s) = s[l]
  BY <1>1 DEF Last
<1>3. Front(s) \in Seq(S)
  BY <1>1 DEF Front
<1>4. l - 1 + 1 = l /\ l \in 1 .. l
  BY <1>1
<1>5. SubSeq(s, l, l)[1] = s[l]
  BY <1>1
<1> QED BY <1>1, <1>2, <1>3, <1>4, <1>5 DEF Newest

LEMMA NamesOfMore ==
  ASSUME NEW conds \in Seq(Expr), NEW c \in Expr
  PROVE  NamesOf(Append(conds, c)) = NamesOf(conds) \cup Unbound(c)
<1> DEFINE N == Len(conds)
           more == Append(conds, c)
<1>1. N \in Nat
  OBVIOUS
<1>2. Len(more) = N + 1 /\ more[N + 1] = c /\ \A i \in 1 .. N : more[i] = conds[i]
  BY <1>1, AppendProperties
<1> HIDE DEF N, more
<1>3. 1 .. (N + 1) = (1 .. N) \cup {N + 1}
  BY <1>1
<1>4. NamesOf(more) = (UNION {Unbound(more[i]) : i \in 1 .. N}) \cup Unbound(c)
  <2>1. {Unbound(more[i]) : i \in 1 .. (N + 1)} = {Unbound(more[i]) : i \in 1 .. N} \cup {Unbound(c)}
    BY <1>2, <1>3
  <2> QED BY <1>2, <2>1 DEF NamesOf
<1>5. {Unbound(more[i]) : i \in 1 .. N} = {Unbound(conds[i]) : i \in 1 .. N}
  BY <1>2
<1>6. NamesOf(conds) = UNION {Unbound(conds[i]) : i \in 1 .. N}
  BY DEF NamesOf, N
<1> QED BY <1>4, <1>5, <1>6 DEF more
-----------------------------------------------------------------------------
LEMMA HoldColumnKeeps ==
  ASSUME IInv, NEW t \in Table, HoldColumn(t)
  PROVE  IInv'
<1> DEFINE node == Column(t)
           none == <<>>
           c == Tree(node, none)
           on == <<t>>
<1>1. node \in Node /\ node.op = "column" /\ node.arity = 0 /\ node.table = t
  BY DEF Column, Node
<1>2. none \in Seq(Expr) /\ Len(none) = 0
  OBVIOUS
<1>3. on \in Seq(Table) /\ ToSet(on) = {t}
  BY DEF ToSet
<1>4. /\ held' = Append(held, Held(c, "expr", on)) /\ asked' = NotAsked /\ queries' = queries
  BY DEF HoldColumn
<1> HIDE DEF node, none, on
<1>5. c \in Expr /\ Unbound(c) = {t}
  BY <1>1, <1>2, ExprTree, UnboundTree
<1> HIDE DEF c
<1>6. Held(c, "expr", on) \in HeldCondition
  BY <1>3, <1>5, HeldIs
<1>7. held' \in Seq(HeldCondition)
  BY <1>4, <1>6, AppendProperties DEF IInv
<1> QED BY <1>4, <1>7 DEF IInv, WasAsked

LEMMA BuildKeeps ==
  ASSUME IInv, NEW node \in Node, node.op \notin {"column", "query"}, Build(node)
  PROVE  IInv'
<1> DEFINE n == node.arity
           c == Tree(node, Operands(n))
<1>1. n \in Nat /\ n <= Len(held)
  <2>1. n \in Nat /\ Len(held) \in Nat /\ Len(held) >= n
    BY NodeIs DEF Build, AreExprs, IInv
  <2> QED BY <2>1
<1>2. /\ Operands(n) \in Seq(Expr) /\ Len(Operands(n)) = n
      /\ ReqOf(n) \in Seq(Table)
      /\ NamesOf(Operands(n)) \subseteq ToSet(ReqOf(n))
      /\ Below(held, n) \in Seq(HeldCondition)
  BY <1>1, OperandsAre
<1>3. c \in Expr /\ Unbound(c) = NamesOf(Operands(n))
  BY <1>2, ExprTree, UnboundTree
<1>4. /\ held' = Append(Below(held, n), Held(c, "expr", ReqOf(n)))
      /\ asked' = NotAsked /\ queries' = queries
  BY DEF Build, Replacing
<1> HIDE DEF c, n
<1>5. Held(c, "expr", ReqOf(n)) \in HeldCondition
  BY <1>2, <1>3, HeldIs
<1>6. held' \in Seq(HeldCondition)
  BY <1>2, <1>4, <1>5, AppendProperties
<1> QED BY <1>4, <1>6 DEF IInv, WasAsked

LEMMA EqualityIs ==
  ASSUME NEW lhs \in Expr, NEW yes \in BOOLEAN
  PROVE  Tree(Op("="), <<lhs, Always(yes)>>) \in Expr
<1> DEFINE of == <<lhs, Always(yes)>>
<1>1. of \in Seq(Expr) /\ Len(of) = 2
  BY AlwaysIs
<1>2. Op("=") \in Node /\ Op("=").arity = 2
  BY OpNodes DEF BinaryOp
<1> HIDE DEF of
<1>3. Tree(Op("="), of) \in Expr
  BY <1>1, <1>2, ExprTree
<1> QED BY <1>3 DEF of

LEMMA ListIs ==
  ASSUME NEW values \in Seq(BOOLEAN)
  PROVE  /\ List(values) \in Node /\ List(values).op = "IN LIST"
         /\ List(values).arity = 1 /\ List(values).values = values
<1>1. List(values) \in [op : {"IN LIST"}, arity : {1}, values : Seq(BOOLEAN)]
  BY Zenon DEF List
<1> QED BY <1>1 DEF Node, List

LEMMA InListIs ==
  ASSUME NEW lhs \in Expr, NEW values \in Seq(BOOLEAN)
  PROVE  InList(lhs, values) \in Expr /\ Unbound(InList(lhs, values)) \subseteq Unbound(lhs)
<1>1. CASE values = <<>>
  BY <1>1, AlwaysIs DEF InList
<1>2. CASE values # <<>>
  <2> DEFINE of == <<lhs>>
             node == List(values)
  <2>0. NamesOf(of) = Unbound(lhs)
    BY Zenon, NamesOfFew
  <2>1. of \in Seq(Expr) /\ Len(of) = 1 /\ NamesOf(of) = Unbound(lhs)
    BY <2>0
  <2>2. node \in Node /\ node.op = "IN LIST" /\ node.arity = 1
    BY ListIs
  <2>3. InList(lhs, values) = Tree(node, of)
    BY <1>2 DEF InList
  <2> HIDE DEF of, node
  <2>4. Tree(node, of) \in Expr /\ Unbound(Tree(node, of)) = NamesOf(of)
    BY <2>1, <2>2, ExprTree, UnboundTree
  <2> QED BY <2>1, <2>3, <2>4
<1> QED BY <1>1, <1>2

LEMMA IsInKeeps ==
  ASSUME IInv, NEW values \in Seq(BOOLEAN), IsIn(values)
  PROVE  IInv'
<1> DEFINE lhs == Last(held).cond
           kind == InList(lhs, values)
<1>1. 1 <= Len(held) /\ held \in Seq(HeldCondition) /\ held # <<>> /\ Len(held) \in Nat
  <2>1. Len(held) \in Nat /\ Len(held) >= 1 /\ held \in Seq(HeldCondition)
    BY DEF IsIn, AreExprs, IInv
  <2> QED BY <2>1
<1>2. /\ Operands(1) \in Seq(Expr) /\ Len(Operands(1)) = 1
      /\ ReqOf(1) \in Seq(Table)
      /\ NamesOf(Operands(1)) \subseteq ToSet(ReqOf(1))
      /\ Below(held, 1) \in Seq(HeldCondition)
  BY <1>1, OperandsAre
<1>3. Operands(1)[1] = lhs
  <2>1. Newest(held, 1)[1] = Last(held) /\ Len(Newest(held, 1)) = 1 /\ Newest(held, 1) \in Seq(HeldCondition)
    BY <1>1, LastAndFront, Parts
  <2>2. 1 \in DOMAIN Newest(held, 1)
    BY <2>1
  <2> QED BY <2>1, <2>2 DEF Operands, Conds
<1>4. lhs \in Expr /\ Unbound(lhs) \subseteq ToSet(ReqOf(1))
  <2>0. 1 \in 1 .. 1
    OBVIOUS
  <2>1. 1 \in 1 .. Len(Operands(1))
    BY Zenon, <1>2, <2>0
  <2> HIDE DEF lhs
  <2>2. lhs \in Expr
    BY <1>2, <1>3, <2>1
  <2>3. Unbound(lhs) \subseteq NamesOf(Operands(1))
    BY <1>3, <2>1 DEF NamesOf
  <2> QED BY <1>2, <2>2, <2>3
<1>5. /\ held' = Append(Below(held, 1), Held(kind, "expr", ReqOf(1)))
      /\ asked' = AskedIn(lhs, values) /\ queries' = queries
  BY DEF IsIn, Replacing, AskedIn
<1> HIDE DEF lhs
<1>6. kind \in Expr /\ Unbound(kind) \subseteq Unbound(lhs)
  BY <1>4, InListIs
<1> HIDE DEF kind
<1>7. Held(kind, "expr", ReqOf(1)) \in HeldCondition
  BY <1>2, <1>4, <1>6, HeldIs
<1>8. held' \in Seq(HeldCondition)
  BY <1>2, <1>5, <1>7, AppendProperties
<1>9. WasAsked'
  BY <1>4, <1>5 DEF WasAsked
<1> QED BY <1>5, <1>8, <1>9 DEF IInv

LEMMA CollectedKeeps ==
  ASSUME IInv, NEW all \in BOOLEAN, NEW as \in {"expr", "subquery", "predicate"}, NEW on \in Seq(Table),
         \A i \in 1 .. Len(held) : Unbound(held[i].cond) \subseteq ToSet(on),
         Collected(all, as, on)
  PROVE  IInv'
<1> DEFINE conds == Conds(held)
           one == FoldConditions(conds, all)
<1>1. /\ conds \in Seq(Expr) /\ Len(conds) = Len(held)
      /\ \A i \in 1 .. Len(held) : conds[i] = held[i].cond
  BY CondsAre
<1>2. held' = <<Held(one, as, on)>> /\ asked' = AskedOf(conds, all) /\ queries' = queries
  BY DEF Collected, AskedOf
<1> HIDE DEF conds
<1>3. NamesOf(conds) \subseteq ToSet(on)
  BY <1>1 DEF NamesOf
<1>4. one \in Expr /\ Unbound(one) = NamesOf(conds)
  BY <1>1, FoldedIs
<1> HIDE DEF one
<1>5. Held(one, as, on) \in HeldCondition
  BY <1>3, <1>4, HeldIs
<1>6. held' \in Seq(HeldCondition)
  <2> DEFINE h == Held(one, as, on)
  <2>1. h \in HeldCondition /\ held' = <<h>>
    BY <1>2, <1>5
  <2> HIDE DEF h
  <2> QED BY <2>1
<1>7. WasAsked'
  BY <1>1, <1>2 DEF WasAsked
<1> QED BY <1>2, <1>6, <1>7 DEF IInv

LEMMA CollectKeeps ==
  ASSUME IInv, NEW all \in BOOLEAN, Collect(all)
  PROVE  IInv'
<1> DEFINE on == IF held = <<>> THEN <<>> ELSE Head(held).on
<1>1. Len(held) \in Nat /\ DOMAIN held = 1 .. Len(held)
      /\ \A i \in 1 .. Len(held) : held[i] \in HeldCondition
  BY DEF IInv
<1>2. on \in Seq(Table) /\ \A i \in 1 .. Len(held) : held[i].on = on
  <2>1. CASE held = <<>>
    BY <2>1
  <2>2. CASE held # <<>>
    <3>1. on = held[1].on /\ 1 \in 1 .. Len(held) /\ Head(held) = held[1]
      BY <1>1, <2>2 DEF IInv
    <3>2. held[1].on \in Seq(Table)
      BY <1>1, <3>1 DEF HeldCondition
    <3>3. \A i \in 1 .. Len(held) : held[i].on = Head(held).on
      BY <1>1 DEF Collect
    <3> QED BY <3>1, <3>2, <3>3
  <2> QED BY <2>1, <2>2
<1>3. Collected(all, "expr", on)
  BY DEF Collect
<1> HIDE DEF on
<1>4. \A i \in 1 .. Len(held) : Unbound(held[i].cond) \subseteq ToSet(on)
  BY <1>1, <1>2 DEF HeldCondition
<1> QED BY <1>2, <1>3, <1>4, CollectedKeeps

LEMMA CollectPredicatesKeeps ==
  ASSUME IInv, NEW all \in BOOLEAN, CollectPredicates(all)
  PROVE  IInv'
<1> DEFINE q == Last(queries)
<1>1. q \in Building
  BY LastAndFront DEF CollectPredicates, IInv
<1>2. /\ Len(held) \in Nat /\ DOMAIN held = 1 .. Len(held)
      /\ \A i \in 1 .. Len(held) : held[i] \in HeldCondition /\ IsCondition(held[i], q)
  BY DEF IInv, CollectPredicates
<1>3. Collected(all, "predicate", Scope(q))
  BY DEF CollectPredicates
<1> HIDE DEF q
<1>4. Scope(q) \in Seq(Table)
  BY <1>1, BuildingIs
<1>5. \A i \in 1 .. Len(held) : Unbound(held[i].cond) \subseteq ToSet(Scope(q))
  BY <1>1, <1>2, AcceptedNames
<1> QED BY <1>3, <1>4, <1>5, CollectedKeeps

LEMMA FilterKeeps ==
  ASSUME IInv, Filter
  PROVE  IInv'
<1> DEFINE q == Last(queries)
           h == Last(held)
           more == [q EXCEPT !.wheres = Append(@, h.cond)]
<1>1. q \in Building /\ Front(queries) \in Seq(Building) /\ h \in HeldCondition /\ Front(held) \in Seq(HeldCondition)
  BY LastAndFront DEF Filter, IInv
<1>2. /\ IsCondition(h, q)
      /\ queries' = Append(Front(queries), more) /\ held' = Front(held) /\ asked' = NotAsked
  BY DEF Filter
<1> HIDE DEF q, h
<1>3. h.cond \in Expr /\ Unbound(h.cond) \subseteq ToSet(Scope(q))
  BY <1>1, <1>2, AcceptedNames DEF HeldCondition
<1>4. /\ q.from \in Table /\ q.outer \in Seq(Table) /\ q.wheres \in Seq(Expr)
      /\ NamesOf(q.wheres) \subseteq ToSet(Scope(q))
      /\ q \in [from : Table, outer : Seq(Table), wheres : Seq(Expr)]
  BY <1>1, BuildingIs DEF Building
<1> DEFINE filters == Append(q.wheres, h.cond)
<1>5. filters \in Seq(Expr) /\ NamesOf(filters) = NamesOf(q.wheres) \cup Unbound(h.cond)
  BY <1>3, <1>4, NamesOfMore, AppendProperties
<1>6. more = [q EXCEPT !.wheres = filters]
  OBVIOUS
<1> HIDE DEF more, filters
<1>7. /\ more \in [from : Table, outer : Seq(Table), wheres : Seq(Expr)]
      /\ more.wheres = filters /\ more.from = q.from /\ more.outer = q.outer
  BY <1>4, <1>5, <1>6
<1>8. Scope(more) = Scope(q)
  BY <1>7 DEF Scope
<1>9. more \in Building
  BY <1>3, <1>4, <1>5, <1>7, <1>8 DEF Building
<1>10. queries' \in Seq(Building)
  BY <1>1, <1>2, <1>9, AppendProperties
<1> QED BY <1>1, <1>2, <1>10 DEF IInv, WasAsked

LEMMA NewQueryIs ==
  ASSUME NEW t \in Table, NEW outer \in Seq(Table)
  PROVE  NewQuery(t, outer) \in Building
<1> DEFINE none == <<>>
           q == NewQuery(t, outer)
<1>1. none \in Seq(Expr) /\ NamesOf(none) = {}
  <2>1. \A a, b : NamesOf(<<>>) = {}
    BY Zenon, NamesOfFew
  <2> QED BY <2>1
<1>2. q = [from |-> t, outer |-> outer, wheres |-> none]
  BY DEF NewQuery
<1> HIDE DEF none, q
<1>3. q \in [from : Table, outer : Seq(Table), wheres : Seq(Expr)] /\ q.wheres = none
  BY <1>1, <1>2
<1>4. q \in Building
  BY <1>1, <1>3 DEF Building
<1> QED BY <1>4 DEF q

LEMMA FromKeeps ==
  ASSUME IInv, NEW t \in Table, From(t)
  PROVE  IInv'
<1> DEFINE none == <<>>
           q == NewQuery(t, none)
<1>1. none \in Seq(Table)
  OBVIOUS
<1>2. queries' = <<q>> /\ held' = held /\ asked' = NotAsked
  BY DEF From
<1> HIDE DEF none
<1>3. q \in Building
  BY <1>1, NewQueryIs
<1> HIDE DEF q
<1>4. queries' \in Seq(Building)
  BY <1>2, <1>3
<1> QED BY <1>2, <1>4 DEF IInv, WasAsked

LEMMA CorrelatedKeeps ==
  ASSUME IInv, NEW t \in Table, Correlated(t)
  PROVE  IInv'
<1> DEFINE q == NewQuery(t, Scope(Last(queries)))
<1>1. Scope(Last(queries)) \in Seq(Table)
  BY LastAndFront, BuildingIs DEF Correlated, IInv
<1>2. queries' = Append(queries, q) /\ held' = held /\ asked' = NotAsked
  BY DEF Correlated
<1>3. q \in Building
  BY <1>1, NewQueryIs
<1> HIDE DEF q
<1>4. queries' \in Seq(Building)
  BY <1>2, <1>3, AppendProperties DEF IInv
<1> QED BY <1>2, <1>4 DEF IInv, WasAsked

LEMMA EmbedKeeps ==
  ASSUME IInv, NEW n \in Nat, NEW op \in {"EXISTS", "NOT EXISTS", "IN", "NOT IN"},
         Op(op).arity = n + 1, Embed(op, n)
  PROVE  IInv'
<1> DEFINE q == Last(queries)
           sub == Subquery(q)
           of == Append(Operands(n), sub)
           req == SubqueryReq(q, ReqOf(n))
           c == Tree(Op(op), of)
<1>1. q \in Building /\ Front(queries) \in Seq(Building)
  BY LastAndFront DEF Embed, IInv
<1>2. n <= Len(held)
  <2>1. Len(held) \in Nat /\ Len(held) >= n
    <3>1. AreExprs(n)
      BY DEF Embed
    <3>2. Len(held) >= n
      BY Zenon, <3>1 DEF AreExprs
    <3>3. Len(held) \in Nat
      BY Zenon, CondsAre
    <3> QED BY <3>2, <3>3
  <2> QED BY <2>1
<1>3. /\ Operands(n) \in Seq(Expr) /\ Len(Operands(n)) = n
      /\ ReqOf(n) \in Seq(Table)
      /\ NamesOf(Operands(n)) \subseteq ToSet(ReqOf(n))
      /\ Below(held, n) \in Seq(HeldCondition)
  BY <1>2, OperandsAre
<1>4. /\ held' = Append(Below(held, n), Held(c, "subquery", req))
      /\ queries' = Front(queries) /\ asked' = NotAsked
  BY DEF Embed, Replacing
<1> HIDE DEF q
<1>5. sub \in Expr /\ Unbound(sub) \subseteq ToSet(q.outer) /\ q.outer \in Seq(Table)
  BY <1>1, SubqueryIs, BuildingIs
<1> HIDE DEF sub
<1>6. of \in Seq(Expr) /\ Len(of) = n + 1 /\ NamesOf(of) = NamesOf(Operands(n)) \cup Unbound(sub)
  <2> DEFINE own == Operands(n)
  <2>1. own \in Seq(Expr) /\ Len(own) = n
    BY <1>3
  <2> HIDE DEF own
  <2>2. Append(own, sub) \in Seq(Expr) /\ Len(Append(own, sub)) = n + 1
    BY <1>5, <2>1, AppendProperties
  <2>3. NamesOf(Append(own, sub)) = NamesOf(own) \cup Unbound(sub)
    BY <1>5, <2>1, NamesOfMore
  <2> QED BY <2>2, <2>3 DEF own
<1>7. req \in Seq(Table) /\ ToSet(req) = ToSet(q.outer) \cup ToSet(ReqOf(n))
  <2> DEFINE outer == q.outer
             own == ReqOf(n)
  <2>1. outer \in Seq(Table) /\ own \in Seq(Table) /\ req = outer \o own
    BY <1>3, <1>5 DEF SubqueryReq
  <2> HIDE DEF outer, own, req
  <2>2. req \in Seq(Table) /\ ToSet(req) = ToSet(outer) \cup ToSet(own)
    BY <2>1, TogetherHave
  <2> QED BY <2>2 DEF outer, own
<1>8. Op(op) \in Node /\ Op(op).op \notin {"column", "query"}
  <2>1. op \in BinaryOp \cup UnaryOp
    BY DEF BinaryOp, UnaryOp
  <2> QED BY <2>1, OpNodes
<1> HIDE DEF of, req
<1>9. c \in Expr /\ Unbound(c) = NamesOf(of)
  BY <1>6, <1>8, ExprTree, UnboundTree
<1> HIDE DEF c
<1>10. Held(c, "subquery", req) \in HeldCondition
  <2>1. Unbound(c) \subseteq ToSet(req)
    BY <1>3, <1>5, <1>6, <1>7, <1>9
  <2> QED BY <1>7, <1>9, <2>1, HeldIs
<1>11. held' \in Seq(HeldCondition)
  BY <1>3, <1>4, <1>10, AppendProperties
<1> QED BY <1>1, <1>4, <1>11 DEF IInv, WasAsked

LEMMA InvInit == ASSUME Init PROVE IInv
<1>1. held = <<>> /\ queries = <<>> /\ asked = NotAsked
  BY DEF Init
<1>2. <<>> \in Seq(HeldCondition) /\ <<>> \in Seq(Building)
  OBVIOUS
<1> QED BY <1>1, <1>2 DEF IInv, WasAsked

LEMMA Sums == 0 + 1 = 1 /\ 1 + 1 = 2
OBVIOUS

LEMMA InvNext == ASSUME IInv, Next PROVE IInv'
<1>1. CASE \E t \in Table : HoldColumn(t) \/ From(t) \/ Correlated(t)
  BY <1>1, HoldColumnKeeps, FromKeeps, CorrelatedKeeps
<1>2. CASE \E op \in {"AND", "OR", "="} : Combine(op)
  <2>1. PICK op \in {"AND", "OR", "="} : Build(Op(op))
    BY <1>2 DEF Combine
  <2>2. Op(op) \in Node /\ Op(op).op = op
    BY OpNodes DEF BinaryOp
  <2>3. Op(op).op \notin {"column", "query"}
    BY <2>2
  <2> QED BY <2>1, <2>2, <2>3, BuildKeeps
<1>3. CASE \E op \in {"NOT"} \cup IsNull : Wrap(op)
  <2>1. PICK op \in {"NOT"} \cup IsNull : Build(Op(op))
    BY <1>3 DEF Wrap
  <2>2. Op(op) \in Node /\ Op(op).op = op
    BY OpNodes DEF UnaryOp
  <2>3. Op(op).op \notin {"column", "query"}
    BY <2>2 DEF IsNull
  <2> QED BY <2>1, <2>2, <2>3, BuildKeeps
<1>4. CASE \E text \in Fragments : Fragment(text)
  <2>1. PICK text \in Fragments : Build(Template(text))
    BY <1>4 DEF Fragment
  <2>2. Template(text) \in Node
    BY DEF Node
  <2>3. Template(text).op \notin {"column", "query"}
    BY DEF Template
  <2> QED BY <2>1, <2>2, <2>3, BuildKeeps
<1>5. CASE \E values \in Lists : IsIn(values)
  BY <1>5, ConditionsAssumption, IsInKeeps
<1>6. CASE \E all \in BOOLEAN : Collect(all) \/ CollectPredicates(all)
  BY <1>6, CollectKeeps, CollectPredicatesKeeps
<1>7. CASE \E op \in {"EXISTS", "NOT EXISTS"} : Exists(op)
  <2>1. PICK op \in {"EXISTS", "NOT EXISTS"} : Embed(op, 0)
    BY <1>7 DEF Exists
  <2>2. Op(op).arity = 0 + 1
    <3>1. op \in UnaryOp
      BY DEF UnaryOp
    <3>2. Op(op).arity = 1
      BY Zenon, <3>1, OpNodes
    <3> QED BY Zenon, <3>2, Sums
  <2> QED BY <2>1, <2>2, EmbedKeeps
<1>8. CASE \E op \in {"IN", "NOT IN"} : InSubquery(op)
  <2>1. PICK op \in {"IN", "NOT IN"} : Embed(op, 1)
    BY <1>8 DEF InSubquery
  <2>2. Op(op).arity = 1 + 1
    <3>1. op \in BinaryOp
      BY DEF BinaryOp
    <3>2. Op(op).arity = 2
      BY Zenon, <3>1, OpNodes
    <3> QED BY Zenon, <3>2, Sums
  <2> QED BY <2>1, <2>2, EmbedKeeps
<1>9. CASE Filter
  BY <1>9, FilterKeeps
<1> QED BY <1>1, <1>2, <1>3, <1>4, <1>5, <1>6, <1>7, <1>8, <1>9 DEF Next

LEMMA InvStutters == ASSUME IInv, UNCHANGED vars PROVE IInv'
BY DEF IInv, WasAsked, vars

\* Whatever a program does with its conditions, each names tables of its type
\* alone: a condition held those it requires, a filter those of its query.
THEOREM Invariance == Spec => []IInv
BY InvInit, InvNext, InvStutters, PTL DEF Spec
-----------------------------------------------------------------------------
\* Every query reads back from its text as it was built, whatever it is made of
\* and however deep: the parentheses are enough (render_expr).
THEOREM EveryQueryReadsAsBuilt == Spec => []ReadsAsBuilt
<1>1. ASSUME IInv PROVE ReadsAsBuilt
  <2> SUFFICES ASSUME NEW i \in DOMAIN queries
               PROVE  Read(Render(Subquery(queries[i]))) = Meaning(Subquery(queries[i]))
    BY DEF ReadsAsBuilt
  <2>1. queries[i] \in Building
    BY <1>1 DEF IInv
  <2> QED BY <2>1, SubqueryIs, ReadBack
<1> QED BY <1>1, Invariance, PTL

\* No name in a query's text is nobody's, however the parts of its conditions
\* came there (Superset, over what the types carry).
THEOREM NamesAreInScope == Spec => []EveryNameIsInScope
<1>1. ASSUME IInv PROVE EveryNameIsInScope
  <2> SUFFICES ASSUME NEW i \in DOMAIN queries
               PROVE  Unbound(Read(Render(Subquery(queries[i])))) \subseteq ToSet(queries[i].outer)
    BY DEF EveryNameIsInScope
  <2>1. queries[i] \in Building
    BY <1>1 DEF IInv
  <2> DEFINE c == Subquery(queries[i])
  <2>2. c \in Expr /\ Unbound(c) \subseteq ToSet(queries[i].outer)
    BY <2>1, SubqueryIs
  <2> HIDE DEF c
  <2>3. Read(Render(c)) = Meaning(c) /\ Unbound(Meaning(c)) = Unbound(c)
    BY <2>2, ReadBack, MeaningKeepsNames
  <2> QED BY <2>2, <2>3 DEF c
<1> QED BY <1>1, Invariance, PTL-----------------------------------------------------------------------------
(***************************************************************************)
(* What a row says of conditions put together.                             *)
(***************************************************************************)
Row == [columns : [Table -> Truth], subquery : Truth]
Judging(row) == [x \in Node \X Seq(Truth) |-> TruthHere(x[1], x[2], row)]

LEMMA TruthIs == ASSUME NEW e, NEW row PROVE TruthOf(e, row) = Evaluate(Judging(row), e)
BY DEF TruthOf, Judging

LEMMA DecidedIs ==
  ASSUME NEW of, NEW by \in Truth, NEW otherwise \in Truth
  PROVE  Decided(of, by, otherwise) \in Truth
BY DEF Decided, Truth

LEMMA TruthHereIs ==
  ASSUME NEW row \in Row, NEW node \in Node, NEW of \in Seq(Truth), Len(of) = node.arity
  PROVE  TruthHere(node, of, row) \in Truth
<1>2. row.columns \in [Table -> Truth] /\ row.subquery \in Truth
  BY DEF Row
<1>3. "true" \in Truth /\ "false" \in Truth /\ "null" \in Truth
  BY DEF Truth
<1>4. CASE node.op = "column"
  <2>1. TruthHere(node, of, row) = row.columns[node.table] /\ node.table \in Table
    BY <1>4, NodeByOp DEF TruthHere
  <2> QED BY <1>2, <2>1
<1>5. CASE node.op = "always"
  <2>1. TruthHere(node, of, row) = IF node.yes THEN "true" ELSE "false"
    BY <1>5 DEF TruthHere
  <2> QED BY <1>3, <2>1
<1>6. CASE node.op = "AND"
  <2>1. TruthHere(node, of, row) = Decided(ToSet(of), "false", "true")
    BY <1>6 DEF TruthHere
  <2> QED BY <1>3, <2>1, DecidedIs
<1>7. CASE node.op = "OR"
  <2>1. TruthHere(node, of, row) = Decided(ToSet(of), "true", "false")
    BY <1>7 DEF TruthHere
  <2> QED BY <1>3, <2>1, DecidedIs
<1>8. CASE node.op = "="
  <2>1. TruthHere(node, of, row) = IF "null" \in ToSet(of) THEN "null" ELSE IF of[1] = of[2] THEN "true" ELSE "false"
    BY <1>8 DEF TruthHere
  <2> QED BY <1>3, <2>1
<1>9. CASE node.op = "NOT"
  <2>1. TruthHere(node, of, row) = Negated(of[1])
    BY <1>9 DEF TruthHere
  <2>2. node.arity = 1
    <3>1. "NOT" \in UnaryOp
      BY DEF UnaryOp
    <3>2. node = Op("NOT")
      BY Zenon, <1>9, <3>1, NodeByOp
    <3> QED BY Zenon, <3>1, <3>2, OpNodes
  <2>3. Len(of) = 1
    BY Zenon, <2>2
  <2>4. of[1] \in Truth
    BY Zenon, <2>3, ShortSequences
  <2> QED BY <2>1, <2>4 DEF Negated, Truth
<1>10. CASE node.op = "IS NULL"
  <2>1. TruthHere(node, of, row) = IF of[1] = "null" THEN "true" ELSE "false"
    BY <1>10 DEF TruthHere
  <2> QED BY <1>3, <2>1
<1>11. CASE node.op = "IS NOT NULL"
  <2>1. TruthHere(node, of, row) = IF of[1] = "null" THEN "false" ELSE "true"
    BY <1>11 DEF TruthHere
  <2> QED BY <1>3, <2>1
<1>12. CASE node.op = "IN LIST"
  <2>1. TruthHere(node, of, row) =
          IF of[1] = "null" THEN "null"
          ELSE IF (of[1] = "true") \in ToSet(node.values) THEN "true" ELSE "false"
    BY <1>12 DEF TruthHere
  <2> QED BY <1>3, <2>1
<1>13. CASE node.op \notin {"column", "always", "AND", "OR", "=", "NOT", "IS NULL", "IS NOT NULL", "IN LIST"}
  <2>1. TruthHere(node, of, row) = row.subquery
    BY <1>13 DEF TruthHere
  <2> QED BY <1>2, <2>1
<1> QED BY <1>4, <1>5, <1>6, <1>7, <1>8, <1>9, <1>10, <1>11, <1>12, <1>13

LEMMA JudgingIsAlgebra == ASSUME NEW row \in Row PROVE Algebra(Judging(row), Truth)
<1> SUFFICES ASSUME NEW node \in Node, NEW of \in Seq(Truth), Len(of) = node.arity
             PROVE  Judging(row)[<<node, of>>] \in Truth
  BY DEF Algebra
<1>1. Judging(row)[<<node, of>>] = TruthHere(node, of, row)
  BY DEF Judging
<1> QED BY <1>1, TruthHereIs

LEMMA TruthTree ==
  ASSUME NEW row \in Row, NEW node \in Node, NEW of \in Seq(Expr), Len(of) = node.arity
  PROVE  TruthOf(Tree(node, of), row) = TruthHere(node, [i \in 1 .. Len(of) |-> TruthOf(of[i], row)], row)
<1> DEFINE make == Judging(row)
<1>1. Algebra(make, Truth)
  BY JudgingIsAlgebra
<1> HIDE DEF make
<1>2. /\ Evaluate(make, Tree(node, of)) = make[<<node, Values(make, of)>>]
      /\ Values(make, of) \in Seq(Truth)
  BY <1>1, EvaluateTree
<1>3. Values(make, of) = [i \in 1 .. Len(of) |-> TruthOf(of[i], row)]
  BY TruthIs DEF Values, make
<1>4. make[<<node, Values(make, of)>>] = TruthHere(node, Values(make, of), row)
  BY <1>2 DEF Judging, make
<1>5. TruthOf(Tree(node, of), row) = Evaluate(make, Tree(node, of))
  BY TruthIs DEF make
<1> QED BY <1>2, <1>3, <1>4, <1>5

\* What a row says of a condition, read as it is meant.
Says(c, row) == TruthOf(Meaning(c), row)

LEMMA SaysTruth ==
  ASSUME NEW row \in Row, NEW c \in Expr
  PROVE  Says(c, row) \in Truth
<1>1. Meaning(c) \in Expr
  BY MeaningIsExpr
<1>2. Settles(Judging(row), Truth, Meaning(c))
  BY <1>1, JudgingIsAlgebra, EverySettles
<1> QED BY <1>2, TruthIs DEF Says, Settles

LEMMA MeaningsOf ==
  ASSUME NEW of, NEW n \in Nat
  PROVE  /\ Len([i \in 1 .. n |-> Meaning(of[i])]) = n
         /\ \A k \in 1 .. n : [i \in 1 .. n |-> Meaning(of[i])][k] = Meaning(of[k])
OBVIOUS

LEMMA SaysTree ==
  ASSUME NEW row \in Row, NEW node \in Node, NEW of \in Seq(Expr), Len(of) = node.arity,
         node.op \notin {"template", "NOT EXISTS", "query"}
  PROVE  Says(Tree(node, of), row) = TruthHere(node, [i \in 1 .. Len(of) |-> Says(of[i], row)], row)
<1> DEFINE ms == [i \in 1 .. Len(of) |-> Meaning(of[i])]
<1>1. Meaning(Tree(node, of)) = MeantNode(node, ms) /\ ms \in Seq(Expr)
  BY MeantTree
<1>2. Len(of) \in Nat /\ Len(ms) = Len(of) /\ \A i \in 1 .. Len(of) : ms[i] = Meaning(of[i])
  <2>1. Len(of) \in Nat
    BY LenProperties
  <2> QED BY <2>1, MeaningsOf
<1> HIDE DEF ms
<1>3. MeantNode(node, ms) = Tree(node, ms)
  BY DEF MeantNode
<1>4. TruthOf(Tree(node, ms), row) = TruthHere(node, [i \in 1 .. Len(ms) |-> TruthOf(ms[i], row)], row)
  BY <1>1, <1>2, TruthTree
<1>5. [i \in 1 .. Len(ms) |-> TruthOf(ms[i], row)] = [i \in 1 .. Len(of) |-> Says(of[i], row)]
  BY <1>2 DEF Says
<1> QED BY <1>1, <1>3, <1>4, <1>5 DEF Says

LEMMA SaysBoth ==
  ASSUME NEW row \in Row, NEW op \in {"AND", "OR", "="}, NEW a \in Expr, NEW b \in Expr
  PROVE  Says(Tree(Op(op), <<a, b>>), row) = TruthHere(Op(op), <<Says(a, row), Says(b, row)>>, row)
<1> DEFINE of == <<a, b>>
           both == <<Says(a, row), Says(b, row)>>
<1>1. op \in BinaryOp
  BY DEF BinaryOp
<1>2. Op(op) \in Node /\ Op(op).op = op /\ Op(op).arity = 2
  BY <1>1, OpNodes
<1>3. Op(op).op \notin {"template", "NOT EXISTS", "query"}
  BY <1>2
<1>4. of \in Seq(Expr) /\ Len(of) = 2 /\ of[1] = a /\ of[2] = b
  OBVIOUS
<1>5. Len(both) = 2 /\ both[1] = Says(a, row) /\ both[2] = Says(b, row) /\ both \in Seq({Says(a, row), Says(b, row)})
  OBVIOUS
<1> HIDE DEF of
<1> DEFINE says == [i \in 1 .. Len(of) |-> Says(of[i], row)]
<1>6. says = both
  <2>1. Len(says) = 2 /\ says[1] = Says(a, row) /\ says[2] = Says(b, row) /\ says \in Seq({Says(a, row), Says(b, row)})
    BY <1>4
  <2> HIDE DEF says, both
  <2> QED BY <1>5, <2>1, SeqEqual
<1>7. Says(Tree(Op(op), of), row) = TruthHere(Op(op), says, row)
  BY <1>2, <1>3, <1>4, SaysTree
<1> QED BY <1>6, <1>7 DEF of

LEMMA SaysAlways ==
  ASSUME NEW row \in Row, NEW yes \in BOOLEAN
  PROVE  Says(Always(yes), row) = IF yes THEN "true" ELSE "false"
<1> DEFINE node == AlwaysNode(yes)
           none == <<>>
<1>1. node \in Node /\ node.op = "always" /\ node.arity = 0 /\ node.yes = yes
  BY DEF AlwaysNode, Node
<1>2. none \in Seq(Expr) /\ Len(none) = 0
  OBVIOUS
<1> HIDE DEF node, none
<1>3. Says(Tree(node, none), row) = TruthHere(node, [i \in 1 .. Len(none) |-> Says(none[i], row)], row)
  BY <1>1, <1>2, SaysTree
<1>4. \A of : TruthHere(node, of, row) = IF yes THEN "true" ELSE "false"
  BY <1>1 DEF TruthHere
<1> QED BY <1>3, <1>4 DEF Always, node, none

LEMMA PairHas == ASSUME NEW x, NEW y PROVE ToSet(<<x, y>>) = {x, y}
<1> DEFINE w == <<x, y>>
<1>1. DOMAIN w = {1, 2} /\ w[1] = x /\ w[2] = y
  OBVIOUS
<1> HIDE DEF w
<1>2. ToSet(w) = {x, y}
  BY <1>1 DEF ToSet
<1> QED BY <1>2 DEF w

\* AND is true of a row when both of its sides are, OR false when both are.
LEMMA BothSay ==
  ASSUME NEW row \in Row, NEW a \in Expr, NEW b \in Expr
  PROVE  /\ Says(Tree(Op("AND"), <<a, b>>), row) = "true" <=> Says(a, row) = "true" /\ Says(b, row) = "true"
         /\ Says(Tree(Op("OR"), <<a, b>>), row) = "false" <=> Says(a, row) = "false" /\ Says(b, row) = "false"
<1> DEFINE x == Says(a, row)
           y == Says(b, row)
           both == <<x, y>>
<1>1. x \in Truth /\ y \in Truth
  BY SaysTruth
<1>2. ToSet(both) = {x, y}
  BY PairHas
<1>3. Op("AND").op = "AND" /\ Op("OR").op = "OR"
  BY DEF Op
<1>4. /\ Says(Tree(Op("AND"), <<a, b>>), row) = TruthHere(Op("AND"), both, row)
      /\ Says(Tree(Op("OR"), <<a, b>>), row) = TruthHere(Op("OR"), both, row)
  BY SaysBoth
<1> HIDE DEF both
<1>5. /\ TruthHere(Op("AND"), both, row) = Decided({x, y}, "false", "true")
      /\ TruthHere(Op("OR"), both, row) = Decided({x, y}, "true", "false")
  BY <1>2, <1>3 DEF TruthHere
<1> HIDE DEF x, y
<1>6. /\ Decided({x, y}, "false", "true") = "true" <=> x = "true" /\ y = "true"
      /\ Decided({x, y}, "true", "false") = "false" <=> x = "false" /\ y = "false"
  BY <1>1 DEF Decided, Truth
<1> QED BY <1>4, <1>5, <1>6 DEF x, y

\* A collection's condition: all of them, or any of them.
LEMMA AllSay ==
  ASSUME NEW row \in Row, NEW kinds \in Seq(Expr), kinds # <<>>, NEW op, NEW truth,
         \/ op = "AND" /\ truth = "true"
         \/ op = "OR" /\ truth = "false"
  PROVE  Says(Joined(op, kinds), row) = truth <=> \A i \in 1 .. Len(kinds) : Says(kinds[i], row) = truth
<1> DEFINE N == Len(kinds)
<1>1. N \in Nat /\ N # 0 /\ \A n \in 1 .. N : kinds[n] \in Expr
  OBVIOUS
<1>2. op \in {"AND", "OR"}
  OBVIOUS
<1>3. PICK j : JoinsUp(op, kinds, j)
  BY <1>2, JoinedStepwise
<1>4. \A n \in 1 .. N : j[n] \in Expr
  BY <1>2, <1>3, ExprIsClosed, JoinedStays
<1>5. \A a, b \in Expr : Says(Tree(Op(op), <<a, b>>), row) = truth <=> Says(a, row) = truth /\ Says(b, row) = truth
  <2>1. CASE op = "AND" /\ truth = "true"
    BY Zenon, <2>1, BothSay
  <2>2. CASE op = "OR" /\ truth = "false"
    BY Zenon, <2>2, BothSay
  <2> QED BY <2>1, <2>2
<1> DEFINE S == {n \in 0 .. N : n # 0 => (Says(j[n], row) = truth <=> \A i \in 1 .. n : Says(kinds[i], row) = truth)}
<1>6. 0 \in S
  BY <1>1
<1>7. ASSUME NEW n \in 1 .. N, n - 1 \in S PROVE n \in S
  <2>1. n \in 0 .. N /\ n # 0
    BY <1>1
  <2>2. CASE n = 1
    <3>1. j[1] = kinds[1] /\ 1 .. 1 = {1}
      BY <1>3 DEF JoinsUp
    <3> QED BY <2>1, <2>2, <3>1
  <2>3. CASE n # 1
    <3>1. n \in 2 .. N /\ n - 1 \in 1 .. N /\ n - 1 # 0 /\ 1 .. n = (1 .. (n - 1)) \cup {n}
      BY <1>1, <2>3
    <3> DEFINE a == j[n - 1]
               b == kinds[n]
    <3>2. a \in Expr /\ b \in Expr
      BY <1>1, <1>4, <3>1
    <3>3. j[n] = Tree(Op(op), <<a, b>>)
      BY <1>3, <3>1 DEF JoinsUp
    <3>4. Says(a, row) = truth <=> \A i \in 1 .. (n - 1) : Says(kinds[i], row) = truth
      BY <1>7, <3>1
    <3>5. Says(j[n], row) = truth <=> Says(a, row) = truth /\ Says(b, row) = truth
      BY Zenon, <1>5, <3>2, <3>3
    <3> HIDE DEF a
    <3>6. Says(j[n], row) = truth <=> \A i \in 1 .. n : Says(kinds[i], row) = truth
      BY <3>1, <3>4, <3>5
    <3> QED BY <2>1, <3>6
  <2> QED BY <2>2, <2>3
<1>8. N \in S
  <2>1. N \in 0 .. N
    BY <1>1
  <2> HIDE DEF S, N
  <2> QED BY <1>1, <1>6, <1>7, <2>1, Upwards
<1> QED BY <1>1, <1>3, <1>8 DEF JoinsUp
\* x = v, and x in a list, of a row that says x.
LEMMA EqualitySays ==
  ASSUME NEW row \in Row, NEW lhs \in Expr, NEW yes \in BOOLEAN
  PROVE  Says(Tree(Op("="), <<lhs, Always(yes)>>), row) = "false"
           <=> Says(lhs, row) # "null" /\ (Says(lhs, row) = "true") # yes
<1> DEFINE x == Says(lhs, row)
           y == Says(Always(yes), row)
           both == <<x, y>>
<1>1. x \in Truth
  BY SaysTruth
<1>2. y = IF yes THEN "true" ELSE "false"
  BY SaysAlways
<1>3. ToSet(both) = {x, y} /\ both[1] = x /\ both[2] = y
  BY PairHas
<1>4. Op("=").op = "="
  BY DEF Op
<1>5. Says(Tree(Op("="), <<lhs, Always(yes)>>), row) = TruthHere(Op("="), both, row)
  BY AlwaysIs, SaysBoth
<1> HIDE DEF both
<1>6. TruthHere(Op("="), both, row) = IF "null" \in {x, y} THEN "null" ELSE IF x = y THEN "true" ELSE "false"
  BY <1>3, <1>4 DEF TruthHere
<1> DEFINE says == TruthHere(Op("="), both, row)
<1> HIDE DEF x, y, says
<1>7. says = "false" <=> x # "null" /\ (x = "true") # yes
  <2>1. says = IF "null" \in {x, y} THEN "null" ELSE IF x = y THEN "true" ELSE "false"
    BY <1>6 DEF says
  <2>2. CASE yes = TRUE
    <3>1. y = "true"
      BY <1>2, <2>2
    <3> QED BY <1>1, <2>1, <2>2, <3>1 DEF Truth
  <2>3. CASE yes = FALSE
    <3>1. y = "false"
      BY <1>2, <2>3
    <3> QED BY <1>1, <2>1, <2>3, <3>1 DEF Truth
  <2> QED BY <2>2, <2>3
<1> QED BY <1>5, <1>7 DEF says, x

LEMMA ListSays ==
  ASSUME NEW row \in Row, NEW lhs \in Expr, NEW values \in Seq(BOOLEAN), values # <<>>
  PROVE  Says(InList(lhs, values), row) = "false"
           <=> Says(lhs, row) # "null" /\ (Says(lhs, row) = "true") \notin ToSet(values)
<1> DEFINE node == List(values)
           of == <<lhs>>
           x == Says(lhs, row)
<1>1. node \in Node /\ node.op = "IN LIST" /\ node.arity = 1 /\ node.values = values
  BY ListIs
<1>2. of \in Seq(Expr) /\ Len(of) = 1 /\ of[1] = lhs
  OBVIOUS
<1>3. InList(lhs, values) = Tree(node, of)
  BY DEF InList
<1> HIDE DEF node, of
<1> DEFINE says == [i \in 1 .. Len(of) |-> Says(of[i], row)]
<1>4. Says(Tree(node, of), row) = TruthHere(node, says, row)
  BY <1>1, <1>2, SaysTree
<1>5. says[1] = x
  <2>1. 1 \in 1 .. Len(of)
    BY <1>2
  <2> QED BY <1>2, <2>1
<1> HIDE DEF says, x
<1>6. TruthHere(node, says, row) =
        IF x = "null" THEN "null" ELSE IF (x = "true") \in ToSet(values) THEN "true" ELSE "false"
  BY <1>1, <1>5 DEF TruthHere
<1>7. TruthHere(node, says, row) = "false" <=> x # "null" /\ (x = "true") \notin ToSet(values)
  BY <1>6
<1> QED BY <1>3, <1>4, <1>7 DEF x

\* The comments' claims, of the conditions themselves.
Answers(given, all, folded) ==
  \A row \in Row :
    IF all THEN (Says(folded, row) = "true") <=> ({Says(given[i], row) : i \in DOMAIN given} \subseteq {"true"})
           ELSE (Says(folded, row) = "false") <=> ({Says(given[i], row) : i \in DOMAIN given} \subseteq {"false"})

LEMMA FoldedAnswers ==
  ASSUME NEW given \in Seq(Expr), NEW all \in BOOLEAN
  PROVE  Answers(given, all, FoldConditions(given, all))
<1> SUFFICES ASSUME NEW row \in Row
             PROVE  IF all THEN (Says(FoldConditions(given, all), row) = "true")
                                  <=> ({Says(given[i], row) : i \in DOMAIN given} \subseteq {"true"})
                           ELSE (Says(FoldConditions(given, all), row) = "false")
                                  <=> ({Says(given[i], row) : i \in DOMAIN given} \subseteq {"false"})
  BY DEF Answers
<1>1. DOMAIN given = 1 .. Len(given)
  OBVIOUS
<1>2. \A truth : {Says(given[i], row) : i \in DOMAIN given} \subseteq {truth}
                   <=> \A i \in 1 .. Len(given) : Says(given[i], row) = truth
  BY <1>1
<1>3. CASE given = <<>>
  <2>1. FoldConditions(given, all) = Always(all)
    BY <1>3 DEF FoldConditions
  <2>2. Says(Always(all), row) = IF all THEN "true" ELSE "false"
    BY SaysAlways
  <2>3. {Says(given[i], row) : i \in DOMAIN given} = {}
    BY <1>3
  <2> QED BY <2>1, <2>2, <2>3
<1>4. CASE given # <<>> /\ all
  <2>1. FoldConditions(given, all) = Joined("AND", given)
    BY <1>4 DEF FoldConditions
  <2>2. Says(Joined("AND", given), row) = "true" <=> \A i \in 1 .. Len(given) : Says(given[i], row) = "true"
    BY <1>4, AllSay
  <2> QED BY <1>2, <1>4, <2>1, <2>2
<1>5. CASE given # <<>> /\ ~all
  <2>1. FoldConditions(given, all) = Joined("OR", given)
    BY <1>5 DEF FoldConditions
  <2>2. Says(Joined("OR", given), row) = "false" <=> \A i \in 1 .. Len(given) : Says(given[i], row) = "false"
    BY <1>5, AllSay
  <2> QED BY <1>2, <1>5, <2>1, <2>2
<1> QED BY <1>3, <1>4, <1>5

LEMMA ListAnswers ==
  ASSUME NEW lhs \in Expr, NEW values \in Seq(BOOLEAN)
  PROVE  /\ AskedIn(lhs, values).given \in Seq(Expr)
         /\ Answers(AskedIn(lhs, values).given, FALSE, InList(lhs, values))
<1> DEFINE given == [i \in DOMAIN values |-> Tree(Op("="), <<lhs, Always(values[i])>>)]
<1>1. AskedIn(lhs, values).given = given
  BY DEF AskedIn
<1>2. Len(values) \in Nat /\ DOMAIN values = 1 .. Len(values) /\ \A i \in DOMAIN values : values[i] \in BOOLEAN
  OBVIOUS
<1>3. /\ DOMAIN given = DOMAIN values
      /\ \A i \in DOMAIN values : given[i] = Tree(Op("="), <<lhs, Always(values[i])>>) /\ given[i] \in Expr
  BY <1>2, EqualityIs
<1>4. given \in Seq(Expr)
  BY <1>2, <1>3
<1> HIDE DEF given
<1>5. ASSUME NEW row \in Row
      PROVE  (Says(InList(lhs, values), row) = "false")
               <=> ({Says(given[i], row) : i \in DOMAIN given} \subseteq {"false"})
  <2> DEFINE x == Says(lhs, row)
  <2>1. \A i \in DOMAIN values : Says(given[i], row) = "false" <=> x # "null" /\ (x = "true") # values[i]
    <3> SUFFICES ASSUME NEW i \in DOMAIN values
                 PROVE  Says(given[i], row) = "false" <=> x # "null" /\ (x = "true") # values[i]
      OBVIOUS
    <3> DEFINE yes == values[i]
    <3>1. yes \in BOOLEAN /\ given[i] = Tree(Op("="), <<lhs, Always(yes)>>)
      BY <1>2, <1>3
    <3> HIDE DEF yes
    <3>2. Says(Tree(Op("="), <<lhs, Always(yes)>>), row) = "false" <=> x # "null" /\ (x = "true") # yes
      BY <3>1, EqualitySays
    <3>3. Says(given[i], row) = "false" <=> x # "null" /\ (x = "true") # yes
      BY Zenon, <3>1, <3>2
    <3> QED BY Zenon, <3>3 DEF yes
  <2>2. {Says(given[i], row) : i \in DOMAIN given} \subseteq {"false"}
          <=> \A i \in DOMAIN values : Says(given[i], row) = "false"
    BY <1>3
  <2>3. CASE values = <<>>
    <3>1. InList(lhs, values) = Always(FALSE) /\ DOMAIN values = {}
      BY <2>3 DEF InList
    <3>2. Says(Always(FALSE), row) = "false"
      BY SaysAlways
    <3> QED BY <2>2, <3>1, <3>2
  <2>4. CASE values # <<>>
    <3>1. Says(InList(lhs, values), row) = "false" <=> x # "null" /\ (x = "true") \notin ToSet(values)
      BY <2>4, ListSays
    <3> HIDE DEF x
    <3>2. 1 \in DOMAIN values
      BY <1>2, <2>4
    <3>3. (x = "true") \notin ToSet(values) <=> \A i \in DOMAIN values : (x = "true") # values[i]
      BY DEF ToSet
    <3> QED BY <2>1, <2>2, <3>1, <3>2, <3>3
  <2> QED BY <2>3, <2>4
<1> QED BY <1>1, <1>4, <1>5 DEF Answers

\* A collection answers for its members, as many as there are and none among
\* them, by any_of, all_of and is_in, whatever the conditions are.
THEOREM CollectionsAnswer == Spec => []CollectionsAnswerForTheirMembers
<1>1. ASSUME NEW given \in Seq(Expr), NEW all, NEW folded \in Expr, Answers(given, all, folded),
             asked = [given |-> given, all |-> all, folded |-> folded]
      PROVE  CollectionsAnswerForTheirMembers
  <2>1. asked.given = given /\ asked.all = all /\ asked.folded = folded
    BY <1>1
  <2>2. Read(Render(folded)) = Meaning(folded)
    BY ReadBack
  <2>3. \A row : TruthOf(Read(Render(folded)), row) = Says(folded, row)
    BY <2>2 DEF Says
  <2>4. \A row : {TruthOf(Meaning(given[i]), row) : i \in DOMAIN given} = {Says(given[i], row) : i \in DOMAIN given}
    BY DEF Says
  <2> SUFFICES ASSUME NEW row \in Row
               PROVE  IF all THEN (TruthOf(Read(Render(folded)), row) = "true")
                                    <=> ({TruthOf(Meaning(given[i]), row) : i \in DOMAIN given} \subseteq {"true"})
                             ELSE (TruthOf(Read(Render(folded)), row) = "false")
                                    <=> ({TruthOf(Meaning(given[i]), row) : i \in DOMAIN given} \subseteq {"false"})
    BY Zenon, <2>1 DEF CollectionsAnswerForTheirMembers, Row
  <2>5. IF all THEN (Says(folded, row) = "true") <=> ({Says(given[i], row) : i \in DOMAIN given} \subseteq {"true"})
               ELSE (Says(folded, row) = "false") <=> ({Says(given[i], row) : i \in DOMAIN given} \subseteq {"false"})
    BY Zenon, <1>1 DEF Answers
  <2>6. /\ TruthOf(Read(Render(folded)), row) = Says(folded, row)
        /\ {TruthOf(Meaning(given[i]), row) : i \in DOMAIN given} = {Says(given[i], row) : i \in DOMAIN given}
    BY <2>3, <2>4
  <2> DEFINE said == {Says(given[i], row) : i \in DOMAIN given}
             judged == {TruthOf(Meaning(given[i]), row) : i \in DOMAIN given}
  <2>7. judged = said
    BY <2>6
  <2>8. IF all THEN (Says(folded, row) = "true") <=> (said \subseteq {"true"})
               ELSE (Says(folded, row) = "false") <=> (said \subseteq {"false"})
    BY <2>5
  <2> HIDE DEF said, judged
  <2>9. IF all THEN (TruthOf(Read(Render(folded)), row) = "true") <=> (judged \subseteq {"true"})
               ELSE (TruthOf(Read(Render(folded)), row) = "false") <=> (judged \subseteq {"false"})
    BY <2>6, <2>7, <2>8
  <2> QED BY <2>9 DEF judged
<1>2. ASSUME IInv PROVE CollectionsAnswerForTheirMembers
  <2>1. CASE asked = NotAsked
    BY <2>1 DEF CollectionsAnswerForTheirMembers
  <2>2. CASE \E given \in Seq(Expr), all \in BOOLEAN : asked = AskedOf(given, all)
    <3>1. PICK given \in Seq(Expr), all \in BOOLEAN : asked = AskedOf(given, all)
      BY <2>2
    <3>2. Answers(given, all, FoldConditions(given, all)) /\ FoldConditions(given, all) \in Expr
      BY FoldedAnswers, FoldedIs
    <3> QED BY <1>1, <3>1, <3>2 DEF AskedOf
  <2>3. CASE \E lhs \in Expr, values \in Seq(BOOLEAN) : asked = AskedIn(lhs, values)
    <3>1. PICK lhs \in Expr, values \in Seq(BOOLEAN) : asked = AskedIn(lhs, values)
      BY <2>3
    <3> DEFINE given == AskedIn(lhs, values).given
    <3>2. given \in Seq(Expr) /\ Answers(given, FALSE, InList(lhs, values)) /\ InList(lhs, values) \in Expr
      BY ListAnswers, InListIs
    <3>3. asked = [given |-> given, all |-> FALSE, folded |-> InList(lhs, values)]
      BY <3>1 DEF AskedIn
    <3> HIDE DEF given
    <3> QED BY <1>1, <3>2, <3>3
  <2> QED BY <1>2, <2>1, <2>2, <2>3 DEF IInv, WasAsked
<1> QED BY <1>2, Invariance, PTL
=============================================================================
