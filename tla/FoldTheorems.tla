---------------------------- MODULE FoldTheorems ----------------------------
(***************************************************************************)
(* Induction over the numbers, and with it that a fold of the community    *)
(* modules has a value at every length: what a proof about FoldLeft or     *)
(* FoldRight starts from.                                                  *)
(***************************************************************************)
EXTENDS Lists, SequenceTheorems, WellFoundedInduction, TLAPS

LEMMA Least ==
  ASSUME NEW T, T \subseteq Nat, T # {}
  PROVE  \E x \in T : \A y \in T : x <= y
<1> DEFINE R == {ss \in Nat \X Nat : ss[1] < ss[2]}
<1>1. R = OpToRel(<, Nat)
  BY Zenon DEF OpToRel
<1>2. IsWellFoundedOn(R, Nat)
  BY <1>1, Zenon, NatLessThanWellFounded
<1>3. \A x, y \in Nat : x < y => <<x, y>> \in R
  OBVIOUS
<1> HIDE DEF R
<1>4. PICK x \in T : \A y \in T : ~ (<<y, x>> \in R)
  BY <1>2, WFMin
<1>5. ASSUME NEW y \in T PROVE x <= y
  <2>1. x \in Nat /\ y \in Nat
    OBVIOUS
  <2>2. ~(y < x)
    BY <1>3, <1>4, <2>1
  <2> QED BY <2>1, <2>2
<1> QED BY <1>5

\* Induction, for a set of numbers.
LEMMA EveryNumber ==
  ASSUME NEW S, 0 \in S, \A n \in Nat : n \in S => n + 1 \in S
  PROVE  Nat \subseteq S
<1> SUFFICES ASSUME Nat \ S # {} PROVE FALSE
  OBVIOUS
<1>1. PICK n \in Nat \ S : \A m \in Nat \ S : n <= m
  BY Least
<1>2. n # 0 /\ n - 1 \in Nat
  BY <1>1
<1>3. n - 1 \in S
  BY <1>1, <1>2
<1> QED BY <1>1, <1>2, <1>3

\* The greatest of some numbers, none past a bound, and of a set of indices.
LEMMA GreatestBelow ==
  ASSUME NEW s, s \subseteq Nat, s # {}, NEW bound \in Nat, \A i \in s : i <= bound
  PROVE  Max(s) \in s /\ \A i \in s : i <= Max(s)
<1> DEFINE Above == {u \in Nat : \A i \in s : i <= u}
<1>1. bound \in Above
  OBVIOUS
<1>2. PICK u \in Above : \A v \in Above : u <= v
  BY <1>1, Least
<1>3. u \in s
  <2> SUFFICES ASSUME u \notin s PROVE FALSE
    OBVIOUS
  <2>1. \A i \in s : i <= u - 1
    BY <1>2
  <2>2. PICK i \in s : TRUE
    OBVIOUS
  <2>3. u \in Nat /\ u - 1 \in Nat
    BY <1>2, <2>1, <2>2
  <2>4. u - 1 \in Above
    BY <2>1, <2>3
  <2>5. u <= u - 1
    BY <1>2, <2>4
  <2> QED BY <2>3, <2>5
<1> QED BY <1>2, <1>3 DEF Max

LEMMA Greatest ==
  ASSUME NEW n \in Nat, NEW s \in SUBSET (1 .. n), s # {}
  PROVE  Max(s) \in s /\ \A i \in s : i <= Max(s)
<1>1. s \subseteq Nat /\ \A i \in s : i <= n
  OBVIOUS
<1> QED BY <1>1, GreatestBelow

LEMMA Intervals ==
  ASSUME NEW n \in Nat, n # 0
  PROVE  /\ n - 1 \in Nat /\ 1 .. n # {}
         /\ Max(1 .. n) = n
         /\ (1 .. n) \ {n} = 1 .. (n - 1)
<1>1. 1 .. n \in SUBSET (1 .. n) /\ n \in 1 .. n
  OBVIOUS
<1>2. Max(1 .. n) \in 1 .. n /\ n <= Max(1 .. n)
  BY <1>1, Greatest
<1> QED BY <1>1, <1>2

\* A fold, as the community modules define it: over the sets of indices, the
\* greatest taken last.
Folded(it, N, base, step) ==
  it = [s \in SUBSET (1 .. N) |-> IF s = {} THEN base ELSE step[<<Max(s), it[s \ {Max(s)}]>>]]

Folds(N, T, base, step) == \E it \in [SUBSET (1 .. N) -> T] : Folded(it, N, base, step)

\* A step that stays among the accumulators folds any number of times.
LEMMA FoldExists ==
  ASSUME NEW N \in Nat, NEW T, NEW base \in T, NEW step \in [(1 .. N) \X T -> T]
  PROVE  Folds(N, T, base, step)
<1> DEFINE S == {n \in Nat : n <= N => Folds(n, T, base, step)}
<1>1. 0 \in S
  <2> DEFINE it == [s \in SUBSET (1 .. 0) |-> base]
  <2>1. it \in [SUBSET (1 .. 0) -> T]
    OBVIOUS
  <2>2. \A s \in SUBSET (1 .. 0) : s = {}
    OBVIOUS
  <2>3. Folded(it, 0, base, step)
    BY <2>2 DEF Folded
  <2> HIDE DEF it
  <2> QED BY <2>1, <2>3 DEF Folds
<1>2. ASSUME NEW n \in Nat, n \in S PROVE n + 1 \in S
  <2> SUFFICES ASSUME n + 1 <= N
               PROVE  Folds(n + 1, T, base, step)
    OBVIOUS
  <2>0. Folds(n, T, base, step)
    BY <1>2
  <2>1. PICK it \in [SUBSET (1 .. n) -> T] : Folded(it, n, base, step)
    BY <2>0 DEF Folds
  <2> DEFINE more == [s \in SUBSET (1 .. (n + 1)) |->
                        IF n + 1 \in s THEN step[<<n + 1, it[s \ {n + 1}]>>] ELSE it[s]]
  <2>2. ASSUME NEW s \in SUBSET (1 .. (n + 1))
        PROVE  /\ s \ {n + 1} \in SUBSET (1 .. n)
               /\ n + 1 \notin s => s \in SUBSET (1 .. n)
    OBVIOUS
  <2>3. more \in [SUBSET (1 .. (n + 1)) -> T]
    BY <2>2
  <2>4. ASSUME NEW s \in SUBSET (1 .. (n + 1))
        PROVE  more[s] = IF s = {} THEN base ELSE step[<<Max(s), more[s \ {Max(s)}]>>]
    <3>1. CASE n + 1 \in s
      <4>1. Max(s) = n + 1
        <5>1. n + 1 \in Nat /\ s # {}
          BY <3>1
        <5>2. Max(s) \in s /\ n + 1 <= Max(s)
          BY <3>1, <5>1, Greatest
        <5>3. Max(s) \in 1 .. (n + 1)
          BY <5>2
        <5> HIDE DEF more
        <5> QED BY <5>2, <5>3
      <4>2. s \ {n + 1} \in SUBSET (1 .. (n + 1)) /\ n + 1 \notin s \ {n + 1}
        OBVIOUS
      <4>3. more[s \ {n + 1}] = it[s \ {n + 1}]
        BY <4>2
      <4> QED BY <3>1, <4>1, <4>3
    <3>2. CASE n + 1 \notin s
      <4>1. s \in SUBSET (1 .. n) /\ more[s] = it[s]
        BY <2>2, <3>2
      <4>2. it[s] = IF s = {} THEN base ELSE step[<<Max(s), it[s \ {Max(s)}]>>]
        BY <2>1, <4>1 DEF Folded
      <4>3. s \ {Max(s)} \in SUBSET (1 .. (n + 1)) /\ n + 1 \notin s \ {Max(s)}
        BY <3>2
      <4>4. more[s \ {Max(s)}] = it[s \ {Max(s)}]
        BY <4>3
      <4> QED BY <4>1, <4>2, <4>4
    <3> QED BY <3>1, <3>2
  <2>5. more = [s \in SUBSET (1 .. (n + 1)) |-> more[s]]
    OBVIOUS
  <2> HIDE DEF more
  <2>6. Folded(more, n + 1, base, step)
    BY <2>4, <2>5 DEF Folded
  <2> QED BY <2>3, <2>6 DEF Folds
<1> HIDE DEF S
<1>3. N \in S
  BY <1>1, <1>2, EveryNumber
<1> QED BY <1>3 DEF S

\* Induction from 0 up to N, and from N + 1 down to 1.
LEMMA Upwards ==
  ASSUME NEW N \in Nat, NEW S, 0 \in S, \A n \in 1 .. N : n - 1 \in S => n \in S
  PROVE  0 .. N \subseteq S
<1> DEFINE R == {n \in Nat : n <= N => n \in S}
<1>1. 0 \in R
  OBVIOUS
<1>2. ASSUME NEW n \in Nat, n \in R PROVE n + 1 \in R
  <2> SUFFICES ASSUME n + 1 <= N PROVE n + 1 \in S
    OBVIOUS
  <2>1. n + 1 \in 1 .. N /\ (n + 1) - 1 = n /\ n \in S
    BY <1>2
  <2> QED BY <2>1
<1> HIDE DEF R
<1>3. Nat \subseteq R
  BY <1>1, <1>2, EveryNumber
<1> QED BY <1>3 DEF R

LEMMA Downwards ==
  ASSUME NEW N \in Nat, NEW S, N + 1 \in S, \A n \in 1 .. N : n + 1 \in S => n \in S
  PROVE  1 .. (N + 1) \subseteq S
<1> DEFINE R == {k \in 0 .. N : (N + 1) - k \in S}
<1>1. 0 \in R
  OBVIOUS
<1>2. ASSUME NEW k \in 1 .. N, k - 1 \in R PROVE k \in R
  <2>1. (N + 1) - k \in 1 .. N /\ ((N + 1) - k) + 1 = (N + 1) - (k - 1)
    OBVIOUS
  <2> QED BY <1>2, <2>1
<1>3. 0 .. N \subseteq R
  <2> HIDE DEF R
  <2> QED BY <1>1, <1>2, Upwards
<1>4. ASSUME NEW n \in 1 .. (N + 1) PROVE n \in S
  <2>1. (N + 1) - n \in 0 .. N /\ (N + 1) - ((N + 1) - n) = n
    OBVIOUS
  <2> QED BY <1>3, <2>1
<1> QED BY <1>4
-----------------------------------------------------------------------------
(***************************************************************************)
(* Folds from the right: over the sets of indices, the least taken last.   *)
(***************************************************************************)
LEMMA Smallest ==
  ASSUME NEW n \in Nat, NEW s \in SUBSET (1 .. n), s # {}
  PROVE  Min(s) \in s /\ \A i \in s : Min(s) <= i
<1>1. s \subseteq Nat
  OBVIOUS
<1>2. \E x \in s : \A y \in s : x <= y
  BY <1>1, Least
<1> QED BY <1>2 DEF Min

LEMMA Remainders ==
  ASSUME NEW N \in Nat, NEW n \in 1 .. N
  PROVE  /\ n .. N # {} /\ n .. N \in SUBSET (1 .. N)
         /\ Min(n .. N) = n
         /\ (n .. N) \ {n} = (n + 1) .. N
<1>1. n .. N \in SUBSET (1 .. N) /\ n \in n .. N
  OBVIOUS
<1>2. Min(n .. N) \in n .. N /\ Min(n .. N) <= n
  BY <1>1, Smallest
<1> QED BY <1>1, <1>2

FoldedRight(it, N, base, step) ==
  it = [s \in SUBSET (1 .. N) |-> IF s = {} THEN base ELSE step[<<Min(s), it[s \ {Min(s)}]>>]]

FoldsRight(N, T, base, step) == \E it \in [SUBSET (1 .. N) -> T] : FoldedRight(it, N, base, step)

\* A fold from the right is the fold from the left of the sequence reversed.
LEMMA FoldRightExists ==
  ASSUME NEW N \in Nat, NEW T, NEW base \in T, NEW step \in [(1 .. N) \X T -> T]
  PROVE  FoldsRight(N, T, base, step)
<1> DEFINE back == [x \in (1 .. N) \X T |-> step[<<(N + 1) - x[1], x[2]>>]]
           Mirror(s) == {(N + 1) - i : i \in s}
<1>1. back \in [(1 .. N) \X T -> T]
  <2>1. \A x \in (1 .. N) \X T : <<(N + 1) - x[1], x[2]>> \in (1 .. N) \X T
    OBVIOUS
  <2> QED BY <2>1
<1>2. Folds(N, T, base, back)
  <2> HIDE DEF back
  <2> QED BY <1>1, FoldExists
<1>3. PICK it \in [SUBSET (1 .. N) -> T] : Folded(it, N, base, back)
  BY <1>2 DEF Folds
<1> DEFINE mirrored == [s \in SUBSET (1 .. N) |-> it[Mirror(s)]]
<1>4. \A s \in SUBSET (1 .. N) : Mirror(s) \in SUBSET (1 .. N)
  OBVIOUS
<1>5. mirrored \in [SUBSET (1 .. N) -> T]
  BY <1>3, <1>4
<1>6. ASSUME NEW s \in SUBSET (1 .. N)
      PROVE  mirrored[s] = IF s = {} THEN base ELSE step[<<Min(s), mirrored[s \ {Min(s)}]>>]
  <2>1. CASE s = {}
    <3>1. Mirror(s) = {} /\ Mirror(s) \in SUBSET (1 .. N)
      BY <2>1
    <3> QED BY <1>3, <2>1, <3>1 DEF Folded
  <2>2. CASE s # {}
    <3> DEFINE m == Min(s)
               g == Max(Mirror(s))
    <3>1. m \in s /\ \A i \in s : m <= i
      BY <2>2, Smallest
    <3>2. Mirror(s) # {} /\ g \in Mirror(s) /\ \A i \in Mirror(s) : i <= g
      <4>1. Mirror(s) # {}
        BY <2>2
      <4>2. Mirror(s) \in SUBSET (1 .. N)
        BY <1>4
      <4> HIDE DEF Mirror
      <4> QED BY <4>1, <4>2, Greatest
    <3> HIDE DEF m, g
    <3>3. g = (N + 1) - m /\ (N + 1) - g = m
      <4>1. PICK i \in s : g = (N + 1) - i
        BY <3>2
      <4>2. (N + 1) - m \in Mirror(s)
        BY <3>1
      <4>3. (N + 1) - m <= g
        BY <3>2, <4>2
      <4>4. m <= i /\ m \in Nat /\ i \in Nat
        BY <3>1, <4>1
      <4> QED BY <4>1, <4>3, <4>4
    <3>4. Mirror(s) \ {g} = Mirror(s \ {m})
      <4>1. \A i \in s : (N + 1) - i = g <=> i = m
        BY SMTT(30), <3>1, <3>3
      <4> QED BY <4>1
    <3>5. it[Mirror(s)] = back[<<g, it[Mirror(s) \ {g}]>>]
      BY ZenonT(30), <1>3, <1>4, <3>2 DEF Folded, g
    <3>6. s \ {m} \in SUBSET (1 .. N) /\ Mirror(s \ {m}) \in SUBSET (1 .. N) /\ g \in 1 .. N
      BY <1>4, <3>2
    <3>7. it[Mirror(s \ {m})] \in T
      BY <1>3, <3>6
    <3> HIDE DEF Mirror
    <3>8. mirrored[s] = it[Mirror(s)] /\ mirrored[s \ {m}] = it[Mirror(s \ {m})]
      BY <3>6
    <3>9. back[<<g, it[Mirror(s \ {m})]>>] = step[<<m, it[Mirror(s \ {m})]>>]
      BY <3>3, <3>6, <3>7
    <3> QED BY <2>2, <3>4, <3>5, <3>8, <3>9 DEF m
  <2> QED BY <2>1, <2>2
<1>7. mirrored = [s \in SUBSET (1 .. N) |-> mirrored[s]]
  OBVIOUS
<1> HIDE DEF mirrored
<1>8. FoldedRight(mirrored, N, base, step)
  BY <1>6, <1>7 DEF FoldedRight
<1> QED BY <1>5, <1>8 DEF FoldsRight
-----------------------------------------------------------------------------
(***************************************************************************)
(* What is chosen of a sequence.                                           *)
(***************************************************************************)
\* A chosen element is added, another left out.
OrLeave(chosen, acc, x) == IF x \in chosen THEN Append(acc, x) ELSE acc

ChoosingTable(w, chosen, it, N) ==
  it = [s \in SUBSET (1 .. N) |->
          IF s = {} THEN <<>> ELSE OrLeave(chosen, it[s \ {Max(s)}], w[Max(s)])]

LEMMA ChoosingTables ==
  ASSUME NEW w, NEW chosen, NEW N \in Nat
  PROVE  \E it : ChoosingTable(w, chosen, it, N)
<1> DEFINE S == {n \in Nat : \E it : ChoosingTable(w, chosen, it, n)}
<1>1. 0 \in S
  <2>1. \A s \in SUBSET (1 .. 0) : s = {}
    OBVIOUS
  <2>2. ChoosingTable(w, chosen, [s \in SUBSET (1 .. 0) |-> <<>>], 0)
    BY <2>1 DEF ChoosingTable
  <2> QED BY <2>2
<1>2. ASSUME NEW n \in Nat, n \in S PROVE n + 1 \in S
  <2>1. PICK it : ChoosingTable(w, chosen, it, n)
    BY <1>2
  <2> DEFINE more == [s \in SUBSET (1 .. (n + 1)) |->
                        IF n + 1 \in s THEN OrLeave(chosen, it[s \ {n + 1}], w[n + 1]) ELSE it[s]]
  <2>2. ASSUME NEW s \in SUBSET (1 .. (n + 1))
        PROVE  more[s] = IF s = {} THEN <<>> ELSE OrLeave(chosen, more[s \ {Max(s)}], w[Max(s)])
    <3>1. CASE n + 1 \in s
      <4>1. Max(s) = n + 1
        <5>1. n + 1 \in Nat /\ s # {}
          BY <3>1
        <5>2. Max(s) \in s /\ n + 1 <= Max(s)
          BY <3>1, <5>1, Greatest
        <5>3. Max(s) \in 1 .. (n + 1)
          BY <5>2
        <5> HIDE DEF more
        <5> QED BY <5>2, <5>3
      <4>2. s \ {n + 1} \in SUBSET (1 .. (n + 1)) /\ n + 1 \notin s \ {n + 1}
        OBVIOUS
      <4>3. more[s \ {n + 1}] = it[s \ {n + 1}]
        BY <4>2
      <4> QED BY <3>1, <4>1, <4>3
    <3>2. CASE n + 1 \notin s
      <4>1. s \in SUBSET (1 .. n) /\ more[s] = it[s]
        BY <3>2
      <4>2. it[s] = IF s = {} THEN <<>> ELSE OrLeave(chosen, it[s \ {Max(s)}], w[Max(s)])
        BY <2>1, <4>1 DEF ChoosingTable
      <4>3. s \ {Max(s)} \in SUBSET (1 .. (n + 1)) /\ n + 1 \notin s \ {Max(s)}
        BY <3>2
      <4>4. more[s \ {Max(s)}] = it[s \ {Max(s)}]
        BY <4>3
      <4> QED BY <4>1, <4>2, <4>4
    <3> QED BY <3>1, <3>2
  <2>3. more = [s \in SUBSET (1 .. (n + 1)) |-> more[s]]
    OBVIOUS
  <2> HIDE DEF more
  <2>4. ChoosingTable(w, chosen, more, n + 1)
    BY <2>2, <2>3 DEF ChoosingTable
  <2> QED BY <2>4
<1> HIDE DEF S
<1>3. N \in S
  BY <1>1, <1>2, EveryNumber
<1> QED BY <1>3 DEF S

\* What is chosen of the elements, one at a time.
Choosing(w, chosen, acc) ==
  /\ acc[0] = <<>> /\ acc[Len(w)] = Only(w, chosen)
  /\ \A n \in 1 .. Len(w) : acc[n] = OrLeave(chosen, acc[n - 1], w[n])

LEMMA ChoosingSteps ==
  ASSUME NEW w, NEW chosen, w = [i \in 1 .. Len(w) |-> w[i]], Len(w) \in Nat
  PROVE  \E acc : Choosing(w, chosen, acc)
<1> DEFINE N == Len(w)
<1>1. N \in Nat /\ DOMAIN w = 1 .. N
  OBVIOUS
<1> HIDE DEF N
<1>2. PICK it : ChoosingTable(w, chosen, it, N)
  BY <1>1, ChoosingTables
<1> DEFINE iter == CHOOSE iter : iter = [s \in SUBSET DOMAIN w |->
           IF s = {} THEN <<>> ELSE OrLeave(chosen, iter[s \ {Max(s)}], w[Max(s)])]
<1>3. it = [s \in SUBSET DOMAIN w |->
           IF s = {} THEN <<>> ELSE OrLeave(chosen, it[s \ {Max(s)}], w[Max(s)])]
  BY <1>1, <1>2 DEF ChoosingTable
<1>4. iter = [s \in SUBSET DOMAIN w |->
           IF s = {} THEN <<>> ELSE OrLeave(chosen, iter[s \ {Max(s)}], w[Max(s)])]
  BY <1>3
<1>5. Only(w, chosen) = iter[DOMAIN w]
  BY Zenon DEF FoldLeft, MapThenFoldSet, Only, OrLeave
<1> HIDE DEF iter
<1> DEFINE acc == [n \in 0 .. N |-> iter[1 .. n]]
<1>6. acc[0] = <<>> /\ acc[N] = Only(w, chosen)
  <2>1. {} \in SUBSET DOMAIN w /\ 1 .. 0 = {} /\ 0 \in 0 .. N /\ N \in 0 .. N
    BY <1>1
  <2>2. iter[{}] = <<>>
    BY <1>4, <2>1
  <2> QED BY <1>1, <1>5, <2>1, <2>2
<1>7. ASSUME NEW n \in 1 .. N
      PROVE  acc[n] = OrLeave(chosen, acc[n - 1], w[n])
  <2>1. n \in Nat /\ n # 0 /\ n \in 0 .. N /\ n - 1 \in 0 .. N
    BY <1>1
  <2>2. 1 .. n # {} /\ Max(1 .. n) = n /\ (1 .. n) \ {n} = 1 .. (n - 1)
    BY <2>1, Intervals
  <2>3. 1 .. n \in SUBSET DOMAIN w
    BY <1>1
  <2>4. iter[1 .. n] = OrLeave(chosen, iter[1 .. (n - 1)], w[n])
    BY <1>4, <2>2, <2>3
  <2> QED BY <2>1, <2>4
<1> HIDE DEF acc
<1> QED BY <1>6, <1>7 DEF Choosing, N

LEMMA WordIs == ASSUME NEW T, NEW w \in Seq(T) PROVE w = [i \in 1 .. Len(w) |-> w[i]] /\ Len(w) \in Nat
OBVIOUS

LEMMA OneMore ==
  ASSUME NEW T, NEW w \in Seq(T), NEW x \in T
  PROVE  Append(w, x) \in Seq(T) /\ Append(w, x) # <<>>
BY AppendProperties

\* What is chosen is of both.
LEMMA ChosenOfBoth ==
  ASSUME NEW T, NEW w \in Seq(T), NEW chosen
  PROVE  Only(w, chosen) \in Seq(T \cap chosen)
<1> DEFINE N == Len(w)
           B == T \cap chosen
<1>1. N \in Nat /\ \A n \in 1 .. N : w[n] \in T
  OBVIOUS
<1>2. PICK acc : Choosing(w, chosen, acc)
  BY WordIs, ChoosingSteps
<1> DEFINE S == {n \in 0 .. N : acc[n] \in Seq(B)}
<1>3. 0 \in S
  <2>1. <<>> \in Seq(B) /\ 0 \in 0 .. N
    BY <1>1
  <2> QED BY <1>2, <2>1 DEF Choosing
<1>4. ASSUME NEW n \in 1 .. N, n - 1 \in S PROVE n \in S
  <2>1. acc[n] = OrLeave(chosen, acc[n - 1], w[n]) /\ acc[n - 1] \in Seq(B)
    BY <1>2, <1>4 DEF Choosing
  <2>2. n \in 0 .. N
    BY <1>1
  <2>3. w[n] \in chosen => w[n] \in B
    BY <1>1
  <2> HIDE DEF B
  <2>4. acc[n] \in Seq(B)
    BY <2>1, <2>3, OneMore DEF OrLeave
  <2> QED BY <2>2, <2>4
<1>5. N \in S
  <2>1. N \in 0 .. N
    BY <1>1
  <2> HIDE DEF S, N
  <2> QED BY <1>1, <1>3, <1>4, <2>1, Upwards
<1> QED BY <1>2, <1>5 DEF Choosing

\* ... and all that is there to choose.
LEMMA SomeChosen ==
  ASSUME NEW T, NEW w \in Seq(T), NEW chosen, NEW i \in DOMAIN w, w[i] \in chosen
  PROVE  Only(w, chosen) # <<>>
<1> DEFINE N == Len(w)
<1>1. N \in Nat /\ i \in 1 .. N /\ \A n \in 1 .. N : w[n] \in T
  OBVIOUS
<1>2. PICK acc : Choosing(w, chosen, acc)
  BY WordIs, ChoosingSteps
<1> DEFINE S == {n \in 0 .. N : acc[n] \in Seq(T) /\ (n >= i => acc[n] # <<>>)}
<1>3. 0 \in S
  <2>1. <<>> \in Seq(T) /\ 0 \in 0 .. N /\ ~(0 >= i)
    BY <1>1
  <2> QED BY <1>2, <2>1 DEF Choosing
<1>4. ASSUME NEW n \in 1 .. N, n - 1 \in S PROVE n \in S
  <2>1. /\ acc[n] = OrLeave(chosen, acc[n - 1], w[n]) /\ acc[n - 1] \in Seq(T)
        /\ n - 1 >= i => acc[n - 1] # <<>>
    BY <1>2, <1>4 DEF Choosing
  <2>2. n \in 0 .. N /\ w[n] \in T /\ (n >= i => n = i \/ n - 1 >= i)
    BY <1>1
  <2>3. acc[n] \in Seq(T) /\ (w[n] \in chosen => acc[n] # <<>>) /\ (w[n] \notin chosen => acc[n] = acc[n - 1])
    BY <2>1, <2>2, OneMore DEF OrLeave
  <2>4. acc[n - 1] # <<>> => acc[n] # <<>>
    BY <2>1, <2>2, <2>3, OneMore DEF OrLeave
  <2> QED BY <2>1, <2>2, <2>3, <2>4
<1>5. N \in S
  <2>1. N \in 0 .. N
    BY <1>1
  <2> HIDE DEF S, N
  <2> QED BY <1>1, <1>3, <1>4, <2>1, Upwards
<1> QED BY <1>1, <1>2, <1>5 DEF Choosing

LEMMA ChosenAlone ==
  ASSUME NEW x, NEW chosen, x \in chosen
  PROVE  Only(<<x>>, chosen) = <<x>>
<1> DEFINE w == <<x>>
<1>1. w = [i \in 1 .. Len(w) |-> w[i]] /\ Len(w) = 1 /\ w[1] = x /\ 1 \in 1 .. 1
  OBVIOUS
<1> HIDE DEF w
<1>2. PICK acc : Choosing(w, chosen, acc)
  BY <1>1, ChoosingSteps
<1>3. acc[0] = <<>> /\ acc[1] = Only(w, chosen) /\ acc[1] = OrLeave(chosen, acc[1 - 1], x)
  BY <1>1, <1>2 DEF Choosing
<1>4. Append(<<>>, x) = <<x>>
  OBVIOUS
<1> QED BY <1>3, <1>4 DEF OrLeave, w

LEMMA ChosenOf ==
  ASSUME NEW T, NEW w \in Seq(T), NEW chosen
  PROVE  Only(w, chosen) \in Seq(T)
<1> DEFINE c == Only(w, chosen)
<1>1. c \in Seq(T \cap chosen)
  BY ChosenOfBoth
<1> HIDE DEF c
<1>2. c = [i \in 1 .. Len(c) |-> c[i]] /\ Len(c) \in Nat /\ \A i \in 1 .. Len(c) : c[i] \in T
  BY <1>1
<1>3. c \in Seq(T)
  BY <1>2
<1> QED BY <1>3 DEF c

\* They are all of them, in their order: each stands for a place of its own.
InOrder(c, w, at, n) ==
  /\ at \in [1 .. Len(c) -> 1 .. n]
  /\ \A k \in 1 .. Len(c) : c[k] = w[at[k]]
  /\ \A j, k \in 1 .. Len(c) : j < k => at[j] < at[k]

LEMMA ChosenInOrder ==
  ASSUME NEW T, NEW w \in Seq(T), NEW chosen
  PROVE  /\ \E at : InOrder(Only(w, chosen), w, at, Len(w))
         /\ \A i \in DOMAIN w : w[i] \in chosen => w[i] \in ToSet(Only(w, chosen))
<1> DEFINE N == Len(w)
<1>1. N \in Nat /\ DOMAIN w = 1 .. N /\ \A n \in 1 .. N : w[n] \in T
  OBVIOUS
<1>2. PICK acc : Choosing(w, chosen, acc)
  BY WordIs, ChoosingSteps
<1> DEFINE Sofar(n) == /\ acc[n] \in Seq(T)
                       /\ \E at : InOrder(acc[n], w, at, n)
                       /\ \A i \in 1 .. n : w[i] \in chosen => w[i] \in ToSet(acc[n])
           S == {n \in 0 .. N : Sofar(n)}
<1>3. 0 \in S
  <2>1. <<>> \in Seq(T) /\ Len(<<>>) = 0 /\ 0 \in 0 .. N /\ acc[0] = <<>>
    BY <1>1, <1>2 DEF Choosing
  <2> DEFINE none == [k \in 1 .. 0 |-> 0]
  <2>2. \A k \in 1 .. 0 : FALSE
    OBVIOUS
  <2>3. none \in [1 .. 0 -> 1 .. 0]
    BY <2>2
  <2> HIDE DEF none
  <2>4. InOrder(acc[0], w, none, 0)
    BY <2>1, <2>2, <2>3 DEF InOrder
  <2> QED BY <2>1, <2>2, <2>4
<1>4. ASSUME NEW n \in 1 .. N, n - 1 \in S PROVE n \in S
  <2>1. /\ acc[n] = OrLeave(chosen, acc[n - 1], w[n])
        /\ Sofar(n - 1)
    BY <1>2, <1>4 DEF Choosing
  <2>2. n \in 0 .. N /\ w[n] \in T /\ n - 1 \in Nat /\ \A i \in 1 .. n : i = n \/ i \in 1 .. (n - 1)
    BY <1>1
  <2>3. PICK at : InOrder(acc[n - 1], w, at, n - 1)
    BY <2>1
  <2> DEFINE c == acc[n - 1]
             L == Len(c)
             more == Append(c, w[n])
  <2>4. CASE w[n] \notin chosen
    <3>1. acc[n] = acc[n - 1]
      BY <2>1, <2>4 DEF OrLeave
    <3>2. InOrder(acc[n], w, at, n)
      BY <2>2, <2>3, <3>1 DEF InOrder
    <3> QED BY <2>1, <2>2, <2>4, <3>1, <3>2
  <2>5. CASE w[n] \in chosen
    <3>1. acc[n] = more /\ c \in Seq(T) /\ L \in Nat
      BY <2>1, <2>5 DEF OrLeave
    <3>2. /\ more \in Seq(T) /\ Len(more) = L + 1 /\ more[L + 1] = w[n]
          /\ \A k \in 1 .. L : more[k] = c[k]
      BY <2>2, <3>1, AppendProperties
    <3> DEFINE to == [k \in 1 .. (L + 1) |-> IF k = L + 1 THEN n ELSE at[k]]
    <3>3. InOrder(c, w, at, n - 1)
      BY <2>3
    <3> HIDE DEF more, c, L
    <3>4. \A k \in 1 .. (L + 1) : k = L + 1 \/ k \in 1 .. L
      BY <3>1
    <3>5. \A k \in 1 .. L : at[k] \in 1 .. (n - 1) /\ c[k] = w[at[k]]
      BY <3>3 DEF InOrder, L
    <3>6. \A j, k \in 1 .. L : j < k => at[j] < at[k]
      BY <3>3 DEF InOrder, L
    <3>7. InOrder(more, w, to, n)
      <4>1. to \in [1 .. (L + 1) -> 1 .. n]
        BY <2>2, <3>4, <3>5
      <4>2. \A k \in 1 .. (L + 1) : more[k] = w[to[k]]
        <5> TAKE k \in 1 .. (L + 1)
        <5>1. CASE k = L + 1
          BY <3>2, <5>1
        <5>2. CASE k \in 1 .. L
          <6>1. to[k] = at[k]
            BY <3>1, <5>2
          <6> QED BY <3>2, <3>5, <5>2, <6>1
        <5> QED BY <3>4, <5>1, <5>2
      <4>3. \A j, k \in 1 .. (L + 1) : j < k => to[j] < to[k]
        <5> TAKE j, k \in 1 .. (L + 1)
        <5> HAVE j < k
        <5>1. j \in 1 .. L /\ to[j] = at[j]
          BY <3>1
        <5>2. CASE k = L + 1
          <6>1. to[k] = n /\ at[j] \in 1 .. (n - 1)
            BY <3>5, <5>1, <5>2
          <6> QED BY <2>2, <5>1, <6>1
        <5>3. CASE k \in 1 .. L
          <6>1. to[k] = at[k]
            BY <3>1, <5>3
          <6> QED BY <3>6, <5>1, <5>3, <6>1
        <5> QED BY <3>4, <5>2, <5>3
      <4> HIDE DEF to
      <4> QED BY <3>2, <4>1, <4>2, <4>3 DEF InOrder
    <3>8. \A i \in 1 .. n : w[i] \in chosen => w[i] \in ToSet(more)
      <4>1. DOMAIN more = 1 .. (L + 1) /\ L + 1 \in 1 .. (L + 1)
        BY <3>1, <3>2
      <4>2. w[n] \in ToSet(more)
        BY <3>2, <4>1 DEF ToSet
      <4>3. ToSet(c) \subseteq ToSet(more)
        <5>1. DOMAIN c = 1 .. L
          BY <3>1 DEF L
        <5>2. \A k \in DOMAIN c : k \in DOMAIN more /\ c[k] = more[k]
          BY <3>1, <3>2, <4>1, <5>1
        <5> HIDE DEF c
        <5> QED BY <5>2 DEF ToSet
      <4>4. \A i \in 1 .. (n - 1) : w[i] \in chosen => w[i] \in ToSet(c)
        BY <2>1 DEF c
      <4> QED BY <2>2, <4>2, <4>3, <4>4
    <3>9. Sofar(n)
      BY <3>1, <3>2, <3>7, <3>8
    <3> QED BY <2>2, <3>9
  <2> QED BY <2>4, <2>5
<1>5. N \in S
  <2>1. N \in 0 .. N
    BY <1>1
  <2> HIDE DEF S, N
  <2> QED BY <1>1, <1>3, <1>4, <2>1, Upwards
<1> QED BY <1>1, <1>2, <1>5 DEF Choosing

LEMMA ChosenAre ==
  ASSUME NEW T, NEW w \in Seq(T), NEW chosen
  PROVE  ToSet(Only(w, chosen)) = ToSet(w) \cap chosen
<1> DEFINE c == Only(w, chosen)
<1>1. c \in Seq(T \cap chosen)
  BY ChosenOfBoth
<1>2. PICK at : InOrder(c, w, at, Len(w))
  BY ChosenInOrder
<1>3. \A i \in DOMAIN w : w[i] \in chosen => w[i] \in ToSet(c)
  BY ChosenInOrder
<1> HIDE DEF c
<1>4. ASSUME NEW k \in DOMAIN c PROVE c[k] \in ToSet(w) \cap chosen
  <2>1. k \in 1 .. Len(c) /\ c[k] \in chosen
    BY <1>1
  <2>2. at[k] \in DOMAIN w /\ c[k] = w[at[k]]
    BY <1>2, <2>1 DEF InOrder
  <2> QED BY <2>1, <2>2 DEF ToSet
<1>5. ToSet(c) \subseteq ToSet(w) \cap chosen
  BY <1>4 DEF ToSet
<1>6. ToSet(w) \cap chosen \subseteq ToSet(c)
  BY <1>3 DEF ToSet
<1> QED BY <1>5, <1>6 DEF c
-----------------------------------------------------------------------------
\* Sequences one after the other.
FlatTable(w, f, N) == f = [i \in 1 .. N |-> IF i = 1 THEN w[i] ELSE f[i - 1] \o w[i]]

LEMMA FlatTables ==
  ASSUME NEW w, NEW N \in Nat
  PROVE  \E f : FlatTable(w, f, N)
<1> DEFINE S == {n \in Nat : \E f : FlatTable(w, f, n)}
<1>1. 0 \in S
  <2>1. 1 .. 0 = {}
    OBVIOUS
  <2>2. FlatTable(w, [i \in 1 .. 0 |-> {}], 0)
    BY <2>1 DEF FlatTable
  <2> QED BY <2>2
<1>2. ASSUME NEW n \in Nat, n \in S PROVE n + 1 \in S
  <2>1. PICK f : FlatTable(w, f, n)
    BY <1>2
  <2> DEFINE more == [i \in 1 .. (n + 1) |->
                        IF i = n + 1 THEN IF i = 1 THEN w[i] ELSE f[n] \o w[i] ELSE f[i]]
  <2>2. ASSUME NEW i \in 1 .. (n + 1)
        PROVE  more[i] = IF i = 1 THEN w[i] ELSE more[i - 1] \o w[i]
    <3>1. CASE i = n + 1
      <4>1. i # 1 => i - 1 \in 1 .. (n + 1) /\ i - 1 # n + 1 /\ i - 1 = n
        BY <3>1
      <4> QED BY <3>1, <4>1
    <3>2. CASE i # n + 1
      <4>1. i \in 1 .. n /\ (i # 1 => i - 1 \in 1 .. (n + 1) /\ i - 1 # n + 1)
        BY <3>2
      <4>2. f[i] = IF i = 1 THEN w[i] ELSE f[i - 1] \o w[i]
        BY <2>1, <4>1 DEF FlatTable
      <4> QED BY <3>2, <4>1, <4>2
    <3> QED BY <3>1, <3>2
  <2>3. more = [i \in 1 .. (n + 1) |-> more[i]]
    OBVIOUS
  <2> HIDE DEF more
  <2>4. FlatTable(w, more, n + 1)
    BY <2>2, <2>3 DEF FlatTable
  <2> QED BY <2>4
<1> HIDE DEF S
<1>3. N \in S
  BY <1>1, <1>2, EveryNumber
<1> QED BY <1>3 DEF S

LEMMA FlatSteps ==
  ASSUME NEW w, Len(w) \in Nat, Len(w) # 0
  PROVE  \E f : /\ FlattenSeq(w) = f[Len(w)] /\ f[1] = w[1]
                /\ \A n \in 1 .. Len(w) : n # 1 => f[n] = f[n - 1] \o w[n]
<1> DEFINE g == CHOOSE g : g = [i \in 1 .. Len(w) |-> IF i = 1 THEN w[i] ELSE g[i - 1] \o w[i]]
<1>1. g = [i \in 1 .. Len(w) |-> IF i = 1 THEN w[i] ELSE g[i - 1] \o w[i]]
  BY ZenonT(30), FlatTables DEF FlatTable
<1>2. FlattenSeq(w) = g[Len(w)]
  BY Zenon DEF FlattenSeq
<1> HIDE DEF g
<1>3. 1 \in 1 .. Len(w)
  OBVIOUS
<1>4. g[1] = w[1] /\ \A n \in 1 .. Len(w) : n # 1 => g[n] = g[n - 1] \o w[n]
  BY <1>1, <1>3
<1> QED BY ZenonT(30), <1>2, <1>4

LEMMA TwoAsOne ==
  ASSUME NEW T, NEW a \in Seq(T), NEW b \in Seq(T)
  PROVE  a \o b \in Seq(T) /\ Len(a \o b) = Len(a) + Len(b)
OBVIOUS

\* They make one of as many elements, where each has one.
LEMMA Flattened ==
  ASSUME NEW T, NEW w \in Seq(Seq(T))
  PROVE  /\ FlattenSeq(w) \in Seq(T)
         /\ (\A i \in DOMAIN w : Len(w[i]) = 1) => Len(FlattenSeq(w)) = Len(w)
<1> DEFINE N == Len(w)
<1>1. N \in Nat /\ \A n \in 1 .. N : w[n] \in Seq(T)
  OBVIOUS
<1>2. CASE N = 0
  <2>1. w = <<>> /\ FlattenSeq(w) = w
    BY <1>2 DEF FlattenSeq
  <2>2. <<>> \in Seq(T) /\ FlattenSeq(w) = <<>> /\ Len(w) = Len(<<>>)
    BY <2>1
  <2> QED BY <2>1, <2>2
<1>3. CASE N # 0
  <2>1. PICK f : /\ FlattenSeq(w) = f[N] /\ f[1] = w[1]
                 /\ \A n \in 1 .. N : n # 1 => f[n] = f[n - 1] \o w[n]
    BY <1>1, <1>3, FlatSteps
  <2> DEFINE Ones == \A n \in 1 .. N : Len(w[n]) = 1
             S == {n \in 0 .. N : n # 0 => f[n] \in Seq(T) /\ (Ones => Len(f[n]) = n)}
  <2>2. 0 \in S
    BY <1>1
  <2>3. ASSUME NEW n \in 1 .. N, n - 1 \in S PROVE n \in S
    <3>1. n \in 0 .. N /\ n # 0 /\ w[n] \in Seq(T) /\ (Ones => Len(w[n]) = 1) /\ n \in Int
      BY <1>1
    <3>2. CASE n = 1
      BY <2>1, <3>1, <3>2
    <3>3. CASE n # 1
      <4>1. f[n] = f[n - 1] \o w[n]
        BY <2>1, <3>3
      <4>0. n - 1 # 0
        BY <3>1, <3>3
      <4>2. f[n - 1] \in Seq(T) /\ (Ones => Len(f[n - 1]) = n - 1)
        BY <2>3, <4>0
      <4> HIDE DEF Ones
      <4>3. f[n] \in Seq(T) /\ Len(f[n]) = Len(f[n - 1]) + Len(w[n])
        BY <3>1, <4>1, <4>2, TwoAsOne
      <4>4. Ones => Len(f[n]) = n
        <5> SUFFICES ASSUME Ones PROVE Len(f[n]) = n
          OBVIOUS
        <5>1. Len(f[n]) = (n - 1) + 1
          BY <3>1, <4>2, <4>3
        <5>2. (n - 1) + 1 = n
          BY <3>1
        <5> QED BY <5>1, <5>2
      <4> QED BY <3>1, <4>3, <4>4
    <3> QED BY <3>2, <3>3
  <2>4. N \in S
    <3>1. N \in 0 .. N
      BY <1>1
    <3> HIDE DEF S, N
    <3> QED BY <1>1, <2>2, <2>3, <3>1, Upwards
  <2>5. FlattenSeq(w) \in Seq(T) /\ (Ones => Len(FlattenSeq(w)) = N)
    BY <1>3, <2>1, <2>4
  <2> QED BY <2>5
<1> QED BY <1>2, <1>3

\* The element appended is the last, and those before it the front.
LEMMA FrontAndLast ==
  ASSUME NEW S, NEW s \in Seq(S), NEW x
  PROVE  /\ Append(s, x) # <<>> /\ Front(Append(s, x)) = s /\ Last(Append(s, x)) = x
<1> DEFINE e == Append(s, x)
<1>1. s \in Seq(S \cup {x}) /\ Len(s) \in Nat
  <2>1. Len(s) \in Nat /\ s \in [1 .. Len(s) -> S]
    BY LenProperties
  <2> QED BY <2>1
<1>2. /\ e \in Seq(S \cup {x}) /\ Len(e) = Len(s) + 1 /\ e[Len(s) + 1] = x
      /\ \A i \in 1 .. Len(s) : e[i] = s[i]
  BY <1>1, AppendProperties
<1>3. e # <<>>
  BY <1>1, <1>2
<1> DEFINE f == SubSeq(e, 1, Len(e) - 1)
<1>4. f \in Seq(S \cup {x}) /\ Len(f) = Len(s) /\ \A i \in 1 .. Len(s) : f[i] = e[i]
  <2>1. Len(e) - 1 = Len(s) /\ Len(e) - 1 \in 0 .. Len(e)
    BY <1>1, <1>2
  <2> HIDE DEF e
  <2> QED BY <1>1, <1>2, <2>1, SubSeqProperties
<1> HIDE DEF f
<1>5. f = s
  BY <1>1, <1>2, <1>4, SeqEqual
<1>6. Front(e) = f /\ Last(e) = x
  BY <1>1, <1>2 DEF Front, Last, f
<1> QED BY <1>3, <1>5, <1>6
=============================================================================
