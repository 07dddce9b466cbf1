-------------------------- MODULE QuerySink_proofs --------------------------
(***************************************************************************)
(* The sink, and the two that write through it: templates prepared once    *)
(* and fragments rendered beforehand.                                      *)
(***************************************************************************)
EXTENDS Prepared, Fragments, FiniteSetTheorems, SequenceTheorems, TLAPS

USE DEF sinkVars
-----------------------------------------------------------------------------
(***************************************************************************)
(* The sink keeps every bind true to its value, for any set of values, any *)
(* text, any hash function and either placeholder style.                   *)
(*                                                                         *)
(* The inductive invariant.  What is read back relates sql, params and     *)
(* written; what keeps it true of the next bind is about the index: it     *)
(* holds every parameter, under its own key, once.                         *)
(***************************************************************************)
Aligned ==
  /\ Len(sql) = Len(written)
  /\ \A i \in 1..Len(sql) : IF IsPlaceholder(sql[i]) THEN written[i] \in Value
                                                     ELSE written[i] = sql[i]

PlaceholdersHold ==
  \A i \in Occurrences :
    /\ ParameterAt(i) \in 1..Len(params)
    /\ DatabaseValue(params[ParameterAt(i)]) = DatabaseValue(written[i])

OnePlaceholderPerParameter == ~Numbered => Cardinality(Occurrences) = Len(params)

ParametersDistinct ==
  \A p, q \in 1..Len(params) :
    DatabaseValue(params[p]) = DatabaseValue(params[q]) => p = q

BucketsHoldTheirKey ==
  \A k \in Keys : \A j \in 1..Len(bound[k]) :
    /\ bound[k][j] + 1 \in 1..Len(params)
    /\ Key(params[bound[k][j] + 1]) = k

BucketsHoldOnce ==
  \A k \in Keys : \A i, j \in 1..Len(bound[k]) : bound[k][i] = bound[k][j] => i = j

EveryParameterIndexed ==
  \A p \in 1..Len(params) :
    \E j \in 1..Len(bound[Key(params[p])]) : bound[Key(params[p])][j] + 1 = p

IndexExact == Numbered => /\ ParametersDistinct
                          /\ BucketsHoldTheirKey
                          /\ BucketsHoldOnce
                          /\ EveryParameterIndexed

IInv == /\ TypeOK
        /\ Aligned
        /\ PlaceholdersHold
        /\ OnePlaceholderPerParameter
        /\ IndexExact
        /\ EveryParameterIsNamed
-----------------------------------------------------------------------------
(***************************************************************************)
(* The relations on values.                                                *)
(***************************************************************************)

\* binds_same_as is exactly "stored alike": sharing a parameter loses nothing.
LEMMA BindsSameAsIsStoredAlike ==
  ASSUME NEW a \in Value, NEW b \in Value
  PROVE  BindsSameAs(a, b) <=> DatabaseValue(a) = DatabaseValue(b)
BY ValueAssumption DEF BindsSameAs, Equal, DatabaseValue

\* hash_into agrees with binds_same_as: values bound alike share a bucket.
LEMMA StoredAlikeHashAlike ==
  ASSUME NEW a \in Value, NEW b \in Value, DatabaseValue(a) = DatabaseValue(b)
  PROVE  HashInput(a) = HashInput(b)
BY ValueAssumption DEF HashInput, DatabaseValue

LEMMA KeyType ==
  ASSUME NEW v \in Value, TypeOK
  PROVE  Key(v) \in Keys
BY DEF Key, TypeOK, HashInputs
-----------------------------------------------------------------------------
(***************************************************************************)
(* Looking a value up in the index.                                        *)
(***************************************************************************)

\* The placeholder style is the dialect's.
LEMMA StyleKept == ASSUME dialect' = dialect PROVE (Numbered' <=> Numbered)
BY DEF Numbered

\* A value has at most one hit, so "the first hit" is the hit.
LEMMA AtMostOneHit ==
  ASSUME Numbered, TypeOK, IndexExact, NEW v \in Value,
         NEW i \in Hits(v), NEW j \in Hits(v)
  PROVE  i = j
<1> DEFINE k == Key(v)
<1>1. k \in Keys
  BY KeyType
<1>2. bound[k] \in Seq(Nat) /\ i \in 1..Len(bound[k]) /\ j \in 1..Len(bound[k])
  BY <1>1 DEF Hits, TypeOK
<1>3. /\ bound[k][i] + 1 \in 1..Len(params)
      /\ bound[k][j] + 1 \in 1..Len(params)
  BY <1>1, <1>2 DEF IndexExact, BucketsHoldTheirKey
<1>4. /\ params[bound[k][i] + 1] \in Value
      /\ params[bound[k][j] + 1] \in Value
  BY <1>3 DEF TypeOK
<1>5. DatabaseValue(params[bound[k][i] + 1]) = DatabaseValue(params[bound[k][j] + 1])
  BY <1>4, BindsSameAsIsStoredAlike DEF Hits
<1>6. bound[k][i] + 1 = bound[k][j] + 1
  BY <1>3, <1>5 DEF IndexExact, ParametersDistinct
<1>7. bound[k][i] = bound[k][j]
  BY <1>2, <1>6, ElementOfSeq
<1> QED
  BY <1>1, <1>2, <1>7 DEF IndexExact, BucketsHoldOnce

\* The number a hit gives is that of a parameter stored as the value is.
LEMMA ExistingNumberIsRight ==
  ASSUME Numbered, TypeOK, IndexExact, NEW v \in Value, Hits(v) # {}
  PROVE  /\ ExistingPlaceholderNumber(v) \in 1..Len(params)
         /\ DatabaseValue(params[ExistingPlaceholderNumber(v)]) = DatabaseValue(v)
<1> DEFINE k == Key(v)
           first == CHOOSE i \in Hits(v) : \A j \in Hits(v) : i <= j
<1>1. k \in Keys
  BY KeyType
<1>2. PICK h \in Hits(v) : TRUE
  OBVIOUS
<1>3. h \in 1..Len(bound[k]) /\ h \in Nat
  BY <1>1 DEF Hits, TypeOK
<1>4. \A j \in Hits(v) : h <= j
  BY <1>3, AtMostOneHit
<1>5. first \in Hits(v)
  BY <1>4
<1>6. first \in 1..Len(bound[k])
  BY <1>1, <1>5 DEF Hits, TypeOK
<1>7. bound[k][first] + 1 \in 1..Len(params)
  BY <1>1, <1>6 DEF IndexExact, BucketsHoldTheirKey
<1>8. params[bound[k][first] + 1] \in Value
  BY <1>7 DEF TypeOK
<1>9. DatabaseValue(params[bound[k][first] + 1]) = DatabaseValue(v)
  BY <1>5, <1>8, BindsSameAsIsStoredAlike DEF Hits
<1> QED
  BY <1>7, <1>9 DEF ExistingPlaceholderNumber

\* A miss means no parameter is stored as the value is.
LEMMA MissMeansNew ==
  ASSUME Numbered, TypeOK, IndexExact, NEW v \in Value, Hits(v) = {},
         NEW p \in 1..Len(params)
  PROVE  DatabaseValue(params[p]) # DatabaseValue(v)
<1> SUFFICES ASSUME DatabaseValue(params[p]) = DatabaseValue(v)
             PROVE  FALSE
  OBVIOUS
<1>1. params[p] \in Value
  BY DEF TypeOK
<1>2. Key(params[p]) = Key(v)
  BY <1>1, StoredAlikeHashAlike DEF Key
<1>3. PICK j \in 1..Len(bound[Key(v)]) : bound[Key(v)][j] + 1 = p
  BY <1>2 DEF IndexExact, EveryParameterIndexed
<1>4. BindsSameAs(params[p], v)
  BY <1>1, BindsSameAsIsStoredAlike
<1>5. DOMAIN bound[Key(v)] = 1..Len(bound[Key(v)])
  BY KeyType DEF TypeOK
<1> QED
  BY <1>3, <1>4, <1>5 DEF Hits
-----------------------------------------------------------------------------
(***************************************************************************)
(* What one call adds to the text.                                         *)
(***************************************************************************)

LEMMA OccurrencesFinite ==
  ASSUME TypeOK
  PROVE  /\ Occurrences \subseteq 1..Len(sql)
         /\ IsFiniteSet(Occurrences)
         /\ Cardinality(Occurrences) \in Nat
<1>1. Occurrences \subseteq 1..Len(sql)
  BY DEF Occurrences, TypeOK
<1>2. IsFiniteSet(1..Len(sql))
  BY FS_Interval DEF TypeOK
<1> QED
  BY <1>1, <1>2, FS_Subset, FS_CardinalityType

\* Text is appended: no placeholder appears, none changes its parameter.
LEMMA TextAddsNoOccurrence ==
  ASSUME TypeOK, NEW ts \in Seq(Text), PushText(ts)
  PROVE  /\ Numbered' <=> Numbered
         /\ Len(sql') = Len(sql) + Len(ts)
         /\ \A i \in 1..Len(sql) : sql'[i] = sql[i]
         /\ \A i \in 1..Len(ts) : sql'[Len(sql) + i] = ts[i]
         /\ Occurrences' = Occurrences
         /\ \A i \in Occurrences : ParameterAt(i)' = ParameterAt(i)
<1>0. Numbered' <=> Numbered
  BY StyleKept DEF PushText
<1>1. sql \in Seq(Text \cup Placeholder) /\ ts \in Seq(Text \cup Placeholder)
  BY DEF TypeOK
<1>2. /\ sql' \in Seq(Text \cup Placeholder) /\ Len(sql') = Len(sql) + Len(ts)
      /\ \A i \in 1..Len(sql) : sql'[i] = sql[i]
      /\ \A i \in 1..Len(ts) : sql'[Len(sql) + i] = ts[i]
  BY <1>1 DEF PushText
<1>3. \A i \in 1..Len(ts) : ~IsPlaceholder(ts[i])
  BY SinkAssumption DEF IsPlaceholder
<1>4. Occurrences' = Occurrences
  <2>1. ASSUME NEW i \in 1..Len(sql'), i \notin 1..Len(sql)
        PROVE  ~IsPlaceholder(sql'[i])
    <3>1. PICK k \in 1..Len(ts) : i = Len(sql) + k
      <4>1. i - Len(sql) \in 1..Len(ts) /\ i = Len(sql) + (i - Len(sql))
        BY <1>1, <1>2, <2>1
      <4> QED
        BY <4>1
    <3> QED
      BY <1>2, <1>3, <3>1
  <2>2. DOMAIN sql = 1..Len(sql) /\ DOMAIN sql' = 1..Len(sql')
    BY <1>1, <1>2
  <2>3. 1..Len(sql) \subseteq 1..Len(sql')
    BY <1>1, <1>2
  <2> QED
    BY <1>2, <2>1, <2>2, <2>3 DEF Occurrences
<1>5. \A i \in Occurrences : sql'[i] = sql[i]
  BY <1>1, <1>2 DEF Occurrences
<1> QED
  BY <1>0, <1>2, <1>4, <1>5 DEF ParameterAt

\* A placeholder is appended: it is the last occurrence, and reads the number
\* written in it or, on a positional dialect, the next parameter.
LEMMA BindAddsOneOccurrence ==
  ASSUME TypeOK, NEW n \in Nat, NEW last \in Nat, last = Len(sql) + 1,
         (Numbered' <=> Numbered),
         sql' = Append(sql, WritePlaceholder(n))
  PROVE  /\ Occurrences' = Occurrences \cup {last}
         /\ \A i \in Occurrences : i < last
         /\ \A i \in Occurrences : ParameterAt(i)' = ParameterAt(i)
         /\ ParameterAt(last)' = IF Numbered THEN n ELSE Cardinality(Occurrences) + 1
<1>1. IsPlaceholder(WritePlaceholder(n)) /\ (Numbered => WritePlaceholder(n).number = n)
  BY DEF WritePlaceholder, Positional, IsPlaceholder, Placeholder
<1>2. /\ Len(sql') = last
      /\ sql'[last] = WritePlaceholder(n)
      /\ \A i \in 1..Len(sql) : sql'[i] = sql[i]
      /\ DOMAIN sql' = 1..last
      /\ DOMAIN sql = 1..Len(sql)
      /\ Len(sql) \in Nat
  BY DEF TypeOK
<1>3. \A i \in Occurrences : i \in 1..Len(sql) /\ i < last
  BY <1>2 DEF Occurrences
<1>4. Occurrences' = Occurrences \cup {last}
  BY <1>1, <1>2 DEF Occurrences
<1>5. \A i \in Occurrences : {j \in Occurrences' : j <= i} = {j \in Occurrences : j <= i}
  BY <1>2, <1>3, <1>4
<1>6. \A i \in Occurrences : ParameterAt(i)' = ParameterAt(i)
  BY <1>2, <1>3, <1>5 DEF ParameterAt
<1>7. {j \in Occurrences' : j <= last} = Occurrences \cup {last}
  BY <1>2, <1>3, <1>4
<1>8. Cardinality(Occurrences \cup {last}) = Cardinality(Occurrences) + 1
  <2>1. last \notin Occurrences
    BY <1>3
  <2> QED
    BY <2>1, OccurrencesFinite, FS_AddElement
<1>9. ParameterAt(last)' = IF Numbered THEN n ELSE Cardinality(Occurrences) + 1
  BY <1>1, <1>2, <1>7, <1>8 DEF ParameterAt
<1> QED
  BY <1>3, <1>4, <1>6, <1>9
-----------------------------------------------------------------------------
(***************************************************************************)
(* The invariant holds initially and is kept by every call.                *)
(***************************************************************************)

LEMMA InitEstablishes == Init => IInv
<1> SUFFICES ASSUME Init PROVE IInv
  OBVIOUS
<1>1. TypeOK
  BY DEF Init, TypeOK
<1>2. Occurrences = {} /\ Cardinality(Occurrences) = 0
  BY FS_EmptySet DEF Init, Occurrences
<1>3. Aligned /\ PlaceholdersHold /\ OnePlaceholderPerParameter /\ EveryParameterIsNamed
  BY <1>2 DEF Init, Aligned, PlaceholdersHold, OnePlaceholderPerParameter,
              EveryParameterIsNamed
<1>4. IndexExact
  BY DEF Init, IndexExact, ParametersDistinct, BucketsHoldTheirKey, BucketsHoldOnce,
         EveryParameterIndexed
<1> QED
  BY <1>1, <1>3, <1>4 DEF IInv

LEMMA TextKeeps ==
  ASSUME IInv, NEW ts \in Seq(Text), PushText(ts)
  PROVE  IInv'
<1> USE DEF IInv
<1>0. dialect' = dialect /\ (Numbered' <=> Numbered)
  BY StyleKept DEF PushText
<1>1. /\ Len(sql') = Len(sql) + Len(ts)
      /\ \A i \in 1..Len(sql) : sql'[i] = sql[i]
      /\ \A i \in 1..Len(ts) : sql'[Len(sql) + i] = ts[i]
      /\ Occurrences' = Occurrences
      /\ \A i \in Occurrences : ParameterAt(i)' = ParameterAt(i)
      /\ params' = params /\ bound' = bound /\ hasher' = hasher
  BY TextAddsNoOccurrence DEF PushText
<1>2. TypeOK'
  BY <1>0 DEF TypeOK, PushText
<1>3. /\ Len(written') = Len(written) + Len(ts)
      /\ \A i \in 1..Len(written) : written'[i] = written[i]
      /\ \A i \in 1..Len(ts) : written'[Len(written) + i] = ts[i]
      /\ Len(sql) \in Nat /\ Len(ts) \in Nat /\ Len(written) = Len(sql)
  <2>1. written \in Seq(Text \cup Value) /\ ts \in Seq(Text \cup Value)
    BY DEF TypeOK
  <2> QED
    BY <2>1 DEF PushText, Aligned, TypeOK
<1>4. Aligned'
  <2> SUFFICES ASSUME NEW i \in 1..Len(sql')
               PROVE  IF IsPlaceholder(sql'[i]) THEN written'[i] \in Value
                                                ELSE written'[i] = sql'[i]
    BY <1>1, <1>3 DEF Aligned, IsPlaceholder
  <2>1. CASE i \in 1..Len(sql)
    BY <1>1, <1>3, <2>1 DEF Aligned
  <2>2. CASE i \notin 1..Len(sql)
    <3>1. i - Len(sql) \in 1..Len(ts) /\ i = Len(sql) + (i - Len(sql))
      BY <1>1, <1>3, <2>2
    <3>2. PICK k \in 1..Len(ts) : i = Len(sql) + k
      BY <3>1
    <3>3. ~IsPlaceholder(ts[k])
      BY SinkAssumption DEF IsPlaceholder
    <3> QED
      BY <1>1, <1>3, <3>2, <3>3
  <2> QED
    BY <2>1, <2>2
<1>5. \A i \in Occurrences : written'[i] = written[i]
  <2>1. \A i \in Occurrences : i \in 1..Len(written)
    BY OccurrencesFinite DEF Aligned
  <2> QED
    BY <1>3, <2>1
<1>6. PlaceholdersHold'
  BY <1>1, <1>5 DEF PlaceholdersHold
<1>7. OnePlaceholderPerParameter'
  BY <1>0, <1>1 DEF OnePlaceholderPerParameter
<1>8. IndexExact'
  BY <1>0, <1>1 DEF IndexExact, ParametersDistinct, BucketsHoldTheirKey, BucketsHoldOnce,
              EveryParameterIndexed, Key
<1>9. EveryParameterIsNamed'
  BY <1>1 DEF EveryParameterIsNamed
<1> QED
  BY <1>2, <1>4, <1>6, <1>7, <1>8, <1>9

LEMMA BindAgainKeeps ==
  ASSUME IInv, NEW v \in Value, BindAgain(v)
  PROVE  IInv'
<1> USE DEF IInv
<1>0. PICK last \in Nat : last = Len(sql) + 1
  BY DEF TypeOK
<1>1. PICK n \in 1..Len(params) :
        /\ sql' = Append(sql, WritePlaceholder(n))
        /\ DatabaseValue(params[n]) = DatabaseValue(v)
  BY ExistingNumberIsRight DEF BindAgain
<1>2. /\ Numbered /\ written' = Append(written, v) /\ dialect' = dialect
      /\ params' = params /\ bound' = bound /\ hasher' = hasher
      /\ Numbered' <=> Numbered
  BY StyleKept DEF BindAgain
<1>3. n \in Nat /\ WritePlaceholder(n) \in Placeholder
  BY DEF TypeOK, WritePlaceholder, Placeholder, Positional
<1>4. /\ Occurrences' = Occurrences \cup {last}
      /\ \A i \in Occurrences : i < last /\ i \in 1..Len(sql)
      /\ \A i \in Occurrences : ParameterAt(i)' = ParameterAt(i)
      /\ ParameterAt(last)' = n
  BY <1>0, <1>1, <1>2, <1>3, BindAddsOneOccurrence, OccurrencesFinite
<1>5. /\ Len(sql') = last /\ Len(written') = last
      /\ sql'[last] = WritePlaceholder(n) /\ written'[last] = v
      /\ \A i \in 1..Len(sql) : sql'[i] = sql[i] /\ written'[i] = written[i]
  BY <1>0, <1>1, <1>2 DEF Aligned, TypeOK
<1>6. TypeOK'
  BY <1>1, <1>2, <1>3 DEF TypeOK
<1>7. Aligned'
  <2>1. Len(sql) \in Nat
    BY DEF TypeOK
  <2> QED
    BY <1>0, <1>3, <1>5, <2>1 DEF Aligned, IsPlaceholder
<1>8. PlaceholdersHold'
  <2> SUFFICES ASSUME NEW i \in Occurrences'
               PROVE  /\ ParameterAt(i)' \in 1..Len(params)
                      /\ DatabaseValue(params[ParameterAt(i)']) = DatabaseValue(written'[i])
    BY <1>2 DEF PlaceholdersHold
  <2> QED
    BY <1>1, <1>4, <1>5 DEF PlaceholdersHold
<1>9. OnePlaceholderPerParameter'
  BY <1>2 DEF OnePlaceholderPerParameter
<1>10. IndexExact'
  BY <1>2 DEF IndexExact, ParametersDistinct, BucketsHoldTheirKey, BucketsHoldOnce,
              EveryParameterIndexed, Key
<1>11. EveryParameterIsNamed'
  BY <1>2, <1>4 DEF EveryParameterIsNamed
<1> QED
  BY <1>6, <1>7, <1>8, <1>9, <1>10, <1>11

LEMMA BindNewKeeps ==
  ASSUME IInv, NEW v \in Value, BindNew(v)
  PROVE  IInv'
<1> USE DEF IInv
<1>0. PICK last, n \in Nat : last = Len(sql) + 1 /\ n = Len(params) + 1
  BY DEF TypeOK
<1>1. /\ Numbered => Hits(v) = {}
      /\ sql' = Append(sql, WritePlaceholder(n)) /\ written' = Append(written, v)
      /\ params' = Append(params, v) /\ hasher' = hasher /\ dialect' = dialect
      /\ Numbered' <=> Numbered
  BY <1>0, StyleKept DEF BindNew, BindInto
<1>2. /\ Numbered => bound' = [bound EXCEPT ![Key(v)] = Append(@, Len(params))]
      /\ ~Numbered => bound' = bound
  BY DEF BindNew, BindInto, Record
<1>3. WritePlaceholder(n) \in Placeholder /\ Key(v) \in Keys
  BY <1>0, KeyType DEF WritePlaceholder, Placeholder, Positional
<1>4. /\ Occurrences' = Occurrences \cup {last}
      /\ \A i \in Occurrences : i < last /\ i \in 1..Len(sql)
      /\ \A i \in Occurrences : ParameterAt(i)' = ParameterAt(i)
      /\ ParameterAt(last)' = n
  <2>1. ~Numbered => Cardinality(Occurrences) + 1 = n
    BY <1>0 DEF OnePlaceholderPerParameter
  <2> QED
    BY <1>0, <1>1, <2>1, BindAddsOneOccurrence, OccurrencesFinite
<1>5. /\ Len(sql') = last /\ Len(written') = last
      /\ sql'[last] = WritePlaceholder(n) /\ written'[last] = v
      /\ \A i \in 1..Len(sql) : sql'[i] = sql[i] /\ written'[i] = written[i]
  BY <1>0, <1>1 DEF Aligned, TypeOK
<1>6. /\ Len(params') = n /\ params'[n] = v /\ Len(params) \in Nat
      /\ \A p \in 1..Len(params) : params'[p] = params[p] /\ params[p] \in Value
  BY <1>0, <1>1 DEF TypeOK
<1>7. TypeOK'
  <2>1. bound \in [Keys -> Seq(Nat)] /\ Append(bound[Key(v)], Len(params)) \in Seq(Nat)
    BY <1>3, <1>6 DEF TypeOK
  <2>2. [bound EXCEPT ![Key(v)] = Append(@, Len(params))] \in [Keys -> Seq(Nat)]
    BY <2>1
  <2>3. bound' \in [Keys -> Seq(Nat)]
    BY <1>2, <2>1, <2>2
  <2> QED
    BY <1>1, <1>3, <2>3 DEF TypeOK
<1>8. Aligned'
  <2> SUFFICES ASSUME NEW i \in 1..last
               PROVE  IF IsPlaceholder(sql'[i]) THEN written'[i] \in Value
                                                ELSE written'[i] = sql'[i]
    BY <1>5 DEF Aligned, IsPlaceholder
  <2>1. CASE i = last
    BY <1>3, <1>5, <2>1 DEF IsPlaceholder
  <2>2. CASE i \in 1..Len(sql)
    BY <1>5, <2>2 DEF Aligned
  <2> QED
    BY <1>0, <2>1, <2>2 DEF TypeOK
<1>9. PlaceholdersHold'
  BY <1>0, <1>4, <1>5, <1>6 DEF PlaceholdersHold
<1>10. OnePlaceholderPerParameter'
  <2>1. last \notin Occurrences
    BY <1>4
  <2>2. Cardinality(Occurrences') = Cardinality(Occurrences) + 1
    BY <1>4, <2>1, OccurrencesFinite, FS_AddElement
  <2> QED
    BY <1>0, <1>1, <1>6, <2>2 DEF OnePlaceholderPerParameter
<1>11. IndexExact'
  <2> SUFFICES ASSUME Numbered
               PROVE  /\ ParametersDistinct' /\ BucketsHoldTheirKey'
                      /\ BucketsHoldOnce' /\ EveryParameterIndexed'
    BY <1>1 DEF IndexExact
  <2> USE DEF IndexExact
  <2>1. \A p \in 1..Len(params) : DatabaseValue(params[p]) # DatabaseValue(v)
    BY <1>1, MissMeansNew
  <2>2. ParametersDistinct'
    BY <1>0, <1>6, <2>1 DEF ParametersDistinct
  <2>3. PICK size \in Nat : size = Len(bound[Key(v)])
    BY <1>3 DEF TypeOK
  <2>4. /\ \A k \in Keys \ {Key(v)} : bound'[k] = bound[k]
        /\ Len(bound'[Key(v)]) = size + 1
        /\ bound'[Key(v)][size + 1] = Len(params)
        /\ \A j \in 1..size : bound'[Key(v)][j] = bound[Key(v)][j]
    <3>1. bound' = [bound EXCEPT ![Key(v)] = Append(@, Len(params))]
      BY <1>2
    <3>2. bound \in [Keys -> Seq(Nat)] /\ bound[Key(v)] \in Seq(Nat)
      BY <1>3 DEF TypeOK
    <3>3. bound'[Key(v)] = Append(bound[Key(v)], Len(params))
      BY <1>3, <3>1, <3>2
    <3>4. \A k \in Keys \ {Key(v)} : bound'[k] = bound[k]
      BY <3>1, <3>2
    <3> QED
      BY <1>6, <2>3, <3>2, <3>3, <3>4
  <2>5. \A w \in Value : Key(w)' = Key(w)
    BY <1>1 DEF Key
  <2>6. \A k \in Keys : \A j \in 1..Len(bound[k]) :
          bound[k][j] + 1 \in 1..Len(params) /\ bound[k][j] \in Nat
    BY DEF BucketsHoldTheirKey, TypeOK
  <2>7. BucketsHoldTheirKey'
    <3> SUFFICES ASSUME NEW k \in Keys, NEW j \in 1..Len(bound'[k])
                 PROVE  /\ bound'[k][j] + 1 \in 1..Len(params')
                        /\ Key(params'[bound'[k][j] + 1]) = k
      BY <1>1 DEF BucketsHoldTheirKey, Key
    <3>1. CASE k # Key(v) \/ j \in 1..size
      <4>1. bound'[k][j] = bound[k][j] /\ j \in 1..Len(bound[k])
        BY <2>3, <2>4, <3>1
      <4>2. bound[k][j] + 1 \in 1..Len(params) /\ Key(params[bound[k][j] + 1]) = k
        BY <4>1 DEF BucketsHoldTheirKey
      <4> QED
        BY <1>0, <1>6, <4>1, <4>2
    <3>2. CASE k = Key(v) /\ j = size + 1
      BY <1>0, <1>6, <2>4, <3>2
    <3> QED
      BY <2>3, <2>4, <3>1, <3>2
  <2>8. BucketsHoldOnce'
    <3> SUFFICES ASSUME NEW k \in Keys, NEW i \in 1..Len(bound'[k]),
                        NEW j \in 1..Len(bound'[k]), bound'[k][i] = bound'[k][j]
                 PROVE  i = j
      BY DEF BucketsHoldOnce
    <3>1. CASE k # Key(v)
      BY <2>4, <3>1 DEF BucketsHoldOnce
    <3>2. CASE k = Key(v)
      <4>1. \A m \in 1..size : bound[k][m] # Len(params)
        BY <1>6, <2>3, <2>6, <3>2
      <4>2. i \in 1..(size + 1) /\ j \in 1..(size + 1)
        BY <2>4, <3>2
      <4>3. CASE i \in 1..size /\ j \in 1..size
        <5>1. bound[k][i] = bound[k][j] /\ i \in 1..Len(bound[k]) /\ j \in 1..Len(bound[k])
          BY <2>3, <2>4, <3>2, <4>3
        <5> QED
          BY <5>1 DEF BucketsHoldOnce
      <4>4. CASE i = size + 1 /\ j \in 1..size
        BY <2>4, <3>2, <4>1, <4>4
      <4>5. CASE i \in 1..size /\ j = size + 1
        BY <2>4, <3>2, <4>1, <4>5
      <4> QED
        BY <2>3, <4>2, <4>3, <4>4, <4>5
    <3> QED
      BY <3>1, <3>2
  <2>9. EveryParameterIndexed'
    <3> SUFFICES ASSUME NEW p \in 1..n
                 PROVE  \E j \in 1..Len(bound'[Key(params'[p])]) :
                          bound'[Key(params'[p])][j] + 1 = p
      BY <1>6, <2>5, <1>0, SMTT(30) DEF EveryParameterIndexed, Key
    <3>1. CASE p = n
      BY <1>0, <1>6, <2>3, <2>4, <3>1, SMTT(30)
    <3>2. CASE p \in 1..Len(params)
      <4>1. PICK j \in 1..Len(bound[Key(params[p])]) : bound[Key(params[p])][j] + 1 = p
        BY <3>2 DEF EveryParameterIndexed
      <4>2. params'[p] = params[p] /\ Key(params[p]) \in Keys
        BY <1>6, <3>2, KeyType
      <4>3. /\ Len(bound'[Key(params[p])]) >= Len(bound[Key(params[p])])
            /\ bound'[Key(params[p])][j] = bound[Key(params[p])][j]
        BY <2>3, <2>4, <4>1, <4>2
      <4> QED
        BY <2>3, <2>4, <4>1, <4>2, <4>3
    <3> QED
      BY <1>0, <1>6, <3>1, <3>2
  <2> QED
    BY <2>2, <2>7, <2>8, <2>9
<1>12. EveryParameterIsNamed'
  <2> SUFFICES ASSUME NEW p \in 1..n
               PROVE  \E i \in Occurrences' : /\ ParameterAt(i)' = p
                                              /\ \A j \in Occurrences' :
                                                   j < i => ParameterAt(j)' < p
    BY <1>6, <1>7 DEF EveryParameterIsNamed, TypeOK
  <2>1. CASE p = n
    BY <1>0, <1>4, <1>6, <2>1 DEF PlaceholdersHold
  <2>2. CASE p \in 1..Len(params)
    <3>1. p \in DOMAIN params
      BY <2>2 DEF TypeOK
    <3>2. PICK i \in Occurrences : /\ ParameterAt(i) = p
                                   /\ \A j \in Occurrences : j < i => ParameterAt(j) < p
      BY <3>1 DEF EveryParameterIsNamed
    <3> QED
      BY <1>4, <3>2
  <2> QED
    BY <1>0, <1>6, <2>1, <2>2
<1> QED
  BY <1>7, <1>8, <1>9, <1>10, <1>11, <1>12

LEMMA StepKeeps == IInv /\ [Next]_sinkVars => IInv'
<1> SUFFICES ASSUME IInv, [Next]_sinkVars PROVE IInv'
  OBVIOUS
<1>1. CASE \E t \in Text : PushText(<<t>>)
  <2>1. \A t \in Text : <<t>> \in Seq(Text)
    OBVIOUS
  <2> QED
    BY <1>1, <2>1, TextKeeps
<1>2. CASE \E v \in Value : Bind(v)
  BY <1>2, BindAgainKeeps, BindNewKeeps DEF Bind
<1>3. CASE UNCHANGED sinkVars
  <2>1. /\ sql' = sql /\ params' = params /\ bound' = bound /\ hasher' = hasher
        /\ written' = written /\ dialect' = dialect /\ (Numbered' <=> Numbered)
    BY <1>3, StyleKept
  <2>2. Occurrences' = Occurrences /\ \A i \in Occurrences : ParameterAt(i)' = ParameterAt(i)
    BY <2>1 DEF Occurrences, ParameterAt
  <2>3. TypeOK' /\ Aligned'
    BY <2>1 DEF IInv, TypeOK, Aligned
  <2>4. PlaceholdersHold' /\ OnePlaceholderPerParameter' /\ EveryParameterIsNamed'
    BY <2>1, <2>2 DEF IInv, PlaceholdersHold, OnePlaceholderPerParameter, EveryParameterIsNamed
  <2>5. IndexExact'
    BY <2>1 DEF IInv, IndexExact, ParametersDistinct, BucketsHoldTheirKey, BucketsHoldOnce,
                EveryParameterIndexed, Key
  <2> QED
    BY <2>3, <2>4, <2>5 DEF IInv
<1> QED
  BY <1>1, <1>2, <1>3 DEF Next

\* The inductive invariant holds of every behaviour of the sink.
THEOREM Invariance == Spec => []IInv
<1> QED
  BY InitEstablishes, StepKeeps, PTL DEF Spec
-----------------------------------------------------------------------------
(***************************************************************************)
(* What it implies.                                                        *)
(***************************************************************************)

LEMMA IInvReadsWhatWasAsked == IInv => ServerReadsWhatWasAsked
<1> SUFFICES ASSUME IInv PROVE ServerReadsWhatWasAsked
  OBVIOUS
<1> USE DEF IInv
<1>1. DOMAIN sql = 1..Len(sql) /\ DOMAIN written = DOMAIN sql /\ DOMAIN params = 1..Len(params)
  BY DEF Aligned, TypeOK
<1>2. \A i \in Occurrences : ParameterAt(i) \in DOMAIN params
  BY <1>1 DEF PlaceholdersHold
<1>3. ASSUME NEW i \in DOMAIN sql PROVE ReadAt(i) = AskedAt(i)
  <2>1. CASE IsPlaceholder(sql[i])
    BY <1>1, <2>1 DEF Aligned, PlaceholdersHold, Occurrences, ReadAt, AskedAt
  <2>2. CASE ~IsPlaceholder(sql[i])
    <3>1. sql[i] \in Text /\ written[i] = sql[i]
      BY <1>1, <2>2 DEF Aligned, TypeOK, IsPlaceholder
    <3> QED
      BY <2>2, <3>1, SinkAssumption DEF ReadAt, AskedAt
  <2> QED
    BY <2>1, <2>2
<1> QED
  BY <1>1, <1>2, <1>3 DEF ServerReadsWhatWasAsked, ReadByServer, Asked

LEMMA IInvSameText == IInv => SameTextExactlyForSameValue
<1> SUFFICES ASSUME IInv, Numbered, NEW i \in Occurrences, NEW j \in Occurrences
             PROVE  sql[i] = sql[j] <=> AskedAt(i) = AskedAt(j)
  BY DEF SameTextExactlyForSameValue
<1> USE DEF IInv
<1>1. /\ AskedAt(i) = DatabaseValue(params[sql[i].number])
      /\ AskedAt(j) = DatabaseValue(params[sql[j].number])
      /\ sql[i].number \in 1..Len(params) /\ sql[j].number \in 1..Len(params)
  <2>1. i \in 1..Len(sql) /\ j \in 1..Len(sql)
    BY OccurrencesFinite
  <2>2. written[i] \in Value /\ written[j] \in Value
    BY <2>1 DEF Aligned, Occurrences
  <2> QED
    BY <2>2 DEF PlaceholdersHold, ParameterAt, AskedAt
<1>2. sql[i].number = sql[j].number => sql[i] = sql[j]
  BY DEF Occurrences, IsPlaceholder, Placeholder
<1> QED
  BY <1>1, <1>2 DEF IndexExact, ParametersDistinct

\* The sink's fields keep their types.
THEOREM TypeCorrect == Spec => []TypeOK
BY Invariance, PTL DEF IInv

\* The server executes the statement that was built, whatever the values, the
\* hash function and the placeholder style.
THEOREM ReadsWhatWasAsked == Spec => []ServerReadsWhatWasAsked
BY Invariance, IInvReadsWhatWasAsked, PTL

\* A value's text is one wherever it recurs, and its own.
THEOREM SameText == Spec => []SameTextExactlyForSameValue
BY Invariance, IInvSameText, PTL

\* No parameter is sent that no placeholder names.
THEOREM ParametersNamed == Spec => []EveryParameterIsNamed
BY Invariance, PTL DEF IInv
-----------------------------------------------------------------------------
(***************************************************************************)
(* The sink implements inlining.                                           *)
(***************************************************************************)

\* Under the invariant, what is read is what was asked for; so a step that
\* appends a piece to written appends its reading to what is read.
LEMMA AskedGrows ==
  ASSUME IInv, IInv', NEW piece \in Text \cup Value, written' = Append(written, piece)
  PROVE  ReadByServer' = Append(ReadByServer, IF piece \in Value THEN DatabaseValue(piece)
                                                                 ELSE piece)
<1> DEFINE reading == IF piece \in Value THEN DatabaseValue(piece) ELSE piece
<1>0. ServerReadsWhatWasAsked /\ ServerReadsWhatWasAsked'
  BY IInvReadsWhatWasAsked, PTL
<1>1. ReadByServer = Asked /\ ReadByServer' = Asked'
  BY <1>0 DEF ServerReadsWhatWasAsked
<1>2. written \in Seq(Text \cup Value)
  BY DEF IInv, TypeOK
<1>3. Asked' = Append(Asked, reading)
  BY <1>2 DEF Asked, AskedAt
<1> QED
  BY <1>1, <1>3

LEMMA StepInlines ==
  IInv /\ IInv' /\ [Next]_sinkVars => [Inlining!Next]_<<ReadByServer, written>>
<1> SUFFICES ASSUME IInv, IInv', [Next]_sinkVars
             PROVE  [Inlining!Next]_<<ReadByServer, written>>
  OBVIOUS
<1>1. CASE \E t \in Text : PushText(<<t>>)
  <2>1. PICK t \in Text : PushText(<<t>>)
    BY <1>1
  <2>2. written' = Append(written, t) /\ t \notin Value
    BY <2>1, AppendIsConcat, SinkAssumption DEF PushText, IInv, TypeOK
  <2>3. ReadByServer' = Append(ReadByServer, t)
    BY <2>2, AskedGrows
  <2>4. Inlining!Write(t)
    BY <2>2, <2>3 DEF Inlining!Write
  <2> QED
    BY <2>4 DEF Inlining!Next
<1>2. CASE \E v \in Value : Bind(v)
  <2>1. PICK v \in Value : Bind(v)
    BY <1>2
  <2>2. written' = Append(written, v)
    BY <2>1 DEF Bind, BindAgain, BindNew, BindInto
  <2>3. ReadByServer' = Append(ReadByServer, DatabaseValue(v))
    BY <2>2, AskedGrows
  <2>4. Inlining!Inline(v)
    BY <2>2, <2>3 DEF Inlining!Inline, DatabaseValue, Inlining!DatabaseValue
  <2> QED
    BY <2>4 DEF Inlining!Next
<1>3. CASE UNCHANGED sinkVars
  BY <1>3, StyleKept DEF ReadByServer, ReadAt, ParameterAt, Occurrences
<1> QED
  BY <1>1, <1>2, <1>3 DEF Next

\* Every behaviour of the sink, read as a server reads it, is a behaviour of
\* the specification that writes values into the text.
THEOREM SinkImplementsInlining == Spec => ImplementsInlining
<1>1. Init => Inlining!Init
  BY DEF Init, Inlining!Init, ReadByServer
<1>2. IInv /\ IInv' /\ [Next]_sinkVars => [Inlining!Next]_<<ReadByServer, written>>
  BY StepInlines
<1> QED
  BY <1>1, <1>2, Invariance, PTL DEF Spec, ImplementsInlining, Inlining!Spec
-----------------------------------------------------------------------------
(***************************************************************************)
(* What a prepared query sends, for any structs, values, text, callers and *)
(* interleaving of their calls.                                            *)
(***************************************************************************)
USE DEF sinkVars, preparedVars

\* What was written at i is the field of the slot there, or a piece of text or
\* a literal where there is none.
SlotHolds(i) ==
  IF slots[i] = None THEN written[i] \in Text \cup Literal
  ELSE /\ slots[i] \in Slot
       /\ slots[i].field \in slots[i].of.fields
       /\ written[i] = PlaceholderOf(slots[i].of, slots[i].field)

SlotsAligned ==
  /\ slots \in Seq({None} \cup Slot)
  /\ Len(slots) = Len(written)
  /\ \A i \in 1 .. Len(slots) : SlotHolds(i)

\* What a call with the values of d sends for an entry of the template.
Answered(call, d, entry, sent) ==
  IF IsNamed(entry)
  THEN \E field \in d.fields : QualifiedName(d, field) = entry.eq /\ sent = call.args[field]
  ELSE sent = entry

\* How far a call has come through the list of entries.
Progress(call, d, list) ==
  /\ call = [args |-> call.args, resolved |-> call.resolved,
             status |-> call.status, missing |-> call.missing]
  /\ call.args \in [d.fields -> Literal]
  /\ call.resolved \in Seq(Value)
  /\ Len(call.resolved) <= Len(list)
  /\ \A p \in 1 .. Len(call.resolved) : Answered(call, d, list[p], call.resolved[p])
  /\ call.status = "ok" => Len(call.resolved) = Len(list)
  /\ call.status = "unresolved" =>
       LET next == Len(call.resolved) + 1
       IN /\ next \in 1 .. Len(list)
          /\ IsNamed(list[next])
          /\ call.missing = list[next].eq
          /\ \A field \in d.fields : QualifiedName(d, field) # list[next].eq

CallsProgress ==
  /\ prepared \in Declaration \cup {None}
  /\ DOMAIN calls = Caller
  /\ \A c \in Caller : calls[c] # None =>
       prepared \in Declaration /\ Progress(calls[c], prepared, params)

PreparedIInv == IInv /\ SlotsAligned /\ CallsProgress
-----------------------------------------------------------------------------
LEMMA PreparedInitHolds == PreparedInit => PreparedIInv
<1> SUFFICES ASSUME PreparedInit PROVE PreparedIInv
  OBVIOUS
<1>1. IInv
  BY InitEstablishes DEF PreparedInit
<1>2. SlotsAligned
  BY DEF PreparedInit, Init, SlotsAligned
<1>3. CallsProgress
  BY DEF PreparedInit, CallsProgress
<1> QED BY <1>1, <1>2, <1>3 DEF PreparedIInv
-----------------------------------------------------------------------------
(***************************************************************************)
(* Rendering: each piece takes its slot.                                   *)
(***************************************************************************)
LEMMA SlotTaken ==
  ASSUME SlotsAligned, written \in Seq(Text \cup Value), NEW slot, NEW piece \in Text \cup Value,
         slots' = Append(slots, slot), written' = Append(written, piece),
         \/ slot = None /\ piece \in Text \cup Literal
         \/ slot \in Slot /\ slot.field \in slot.of.fields
                          /\ piece = PlaceholderOf(slot.of, slot.field)
  PROVE  SlotsAligned'
<1>1. /\ slots \in Seq({None} \cup Slot) /\ slot \in {None} \cup Slot
      /\ Len(slots) = Len(written) /\ Len(slots) \in Nat
  BY LenProperties DEF SlotsAligned
<1>2. /\ slots' \in Seq({None} \cup Slot) /\ Len(slots') = Len(slots) + 1
      /\ \A i \in 1 .. Len(slots) : slots'[i] = slots[i]
      /\ slots'[Len(slots) + 1] = slot
  BY <1>1, AppendProperties
<1>3. /\ Len(written') = Len(written) + 1
      /\ \A i \in 1 .. Len(written) : written'[i] = written[i]
      /\ written'[Len(written) + 1] = piece
  BY AppendProperties
<1>4. ASSUME NEW i \in 1 .. Len(slots) PROVE SlotHolds(i)'
  BY <1>1, <1>2, <1>3, <1>4 DEF SlotsAligned, SlotHolds
<1>5. ASSUME NEW n \in Nat, n = Len(slots) + 1 PROVE SlotHolds(n)'
  <2>1. slots'[n] = slot /\ written'[n] = piece
    BY <1>1, <1>2, <1>3, <1>5
  <2>2. CASE slot = None
    <3>1. piece \in Text \cup Literal
      BY <2>2, DeclarationAssumption
    <3> QED BY <2>1, <2>2, <3>1 DEF SlotHolds
  <2>3. CASE slot # None
    BY <2>1, <2>3 DEF SlotHolds
  <2> QED BY <2>2, <2>3
<1>6. ASSUME NEW i \in 1 .. Len(slots') PROVE SlotHolds(i)'
  <2>1. i \in 1 .. Len(slots) \/ i = Len(slots) + 1
    BY <1>1, <1>2
  <2> QED BY <1>4, <1>5, <2>1
<1>7. Len(slots') = Len(written')
  BY <1>1, <1>2, <1>3
<1> QED BY <1>2, <1>6, <1>7 DEF SlotsAligned

\* Nobody calls a query that is being rendered.
LEMMA NoCallsYet ==
  ASSUME CallsProgress, prepared = None, UNCHANGED <<prepared, calls>>
  PROVE  CallsProgress'
BY DeclarationAssumption DEF CallsProgress

LEMMA BindAppends ==
  ASSUME NEW v, Bind(v)
  PROVE  written' = Append(written, v)
BY DEF Bind, BindAgain, BindNew, BindInto

LEMMA RenderKeeps ==
  ASSUME PreparedIInv,
         \/ \E t \in Text : WriteText(t)
         \/ \E v \in Literal : BindLiteral(v)
         \/ \E d \in Declaration : \E field \in d.fields : BindField(d, field)
  PROVE  PreparedIInv'
<1>0. SlotsAligned /\ CallsProgress /\ IInv /\ written \in Seq(Text \cup Value)
  BY DEF PreparedIInv, IInv, TypeOK
<1>1. ASSUME NEW t \in Text, WriteText(t) PROVE PreparedIInv'
  <2>1. written' = Append(written, t)
    BY <1>0, <1>1, AppendIsConcat DEF WriteText, PushText
  <2>2. SlotsAligned'
    BY <1>0, <1>1, <2>1, SlotTaken DEF WriteText
  <2>3. IInv'
    <3>1. <<t>> \in Seq(Text) /\ PushText(<<t>>)
      BY <1>1 DEF WriteText
    <3> QED BY <1>0, <3>1, TextKeeps
  <2>4. CallsProgress'
    BY <1>0, <1>1, NoCallsYet DEF WriteText
  <2> QED BY <2>2, <2>3, <2>4 DEF PreparedIInv
<1>2. ASSUME NEW v \in Literal, BindLiteral(v) PROVE PreparedIInv'
  <2>1. written' = Append(written, v) /\ v \in Value
    BY <1>2, BindAppends DEF BindLiteral, Literal
  <2>2. SlotsAligned'
    BY <1>0, <1>2, <2>1, SlotTaken DEF BindLiteral
  <2>3. IInv'
    BY <1>0, <1>2, <2>1, BindAgainKeeps, BindNewKeeps DEF BindLiteral, Bind
  <2>4. CallsProgress'
    BY <1>0, <1>2, NoCallsYet DEF BindLiteral
  <2> QED BY <2>2, <2>3, <2>4 DEF PreparedIInv
<1>3. ASSUME NEW d \in Declaration, NEW field \in d.fields, BindField(d, field)
      PROVE  PreparedIInv'
  <2> DEFINE v == PlaceholderOf(d, field)
             slot == [of |-> d, field |-> field]
  <2>1. v \in Value
    BY DeclarationAssumption
  <2>2. written' = Append(written, v) /\ slots' = Append(slots, slot)
    BY <1>3, BindAppends DEF BindField
  <2>3. slot \in Slot /\ slot.of = d /\ slot.field = field
    BY DEF Slot
  <2>4. SlotsAligned'
    <3> HIDE DEF v, slot
    <3>1. v = PlaceholderOf(slot.of, slot.field)
      BY <2>3 DEF v
    <3> QED BY <1>0, <2>1, <2>2, <2>3, <3>1, SlotTaken
  <2>5. IInv'
    BY <1>0, <1>3, <2>1, BindAgainKeeps, BindNewKeeps DEF BindField, Bind
  <2>6. CallsProgress'
    BY <1>0, <1>3, NoCallsYet DEF BindField
  <2> QED BY <2>4, <2>5, <2>6 DEF PreparedIInv
<1> QED BY <1>1, <1>2, <1>3
-----------------------------------------------------------------------------
(***************************************************************************)
(* Resolving: each turn answers one entry more.                            *)
(***************************************************************************)
LEMMA SinkStands ==
  ASSUME PreparedIInv, UNCHANGED <<sinkVars, slots>>
  PROVE  IInv' /\ SlotsAligned'
<1>1. IInv'
  BY StepKeeps DEF PreparedIInv
<1>2. SlotsAligned'
  BY DEF PreparedIInv, SlotsAligned, SlotHolds
<1> QED BY <1>1, <1>2

LEMMA PrepareKeeps ==
  ASSUME PreparedIInv, NEW d \in Declaration, Prepare(d)
  PROVE  PreparedIInv'
<1>1. CallsProgress'
  BY DeclarationAssumption DEF Prepare, PreparedIInv, CallsProgress
<1> QED BY <1>1, SinkStands DEF Prepare, PreparedIInv

\* A step of one caller that keeps its progress keeps everyone's.
LEMMA OneCallKeeps ==
  ASSUME PreparedIInv, NEW c \in Caller, UNCHANGED <<sinkVars, slots, prepared>>,
         NEW call, calls' = [calls EXCEPT ![c] = call], prepared \in Declaration,
         Progress(call, prepared, params)
  PROVE  PreparedIInv'
<1>1. params' = params /\ prepared' = prepared
  OBVIOUS
<1>2. DOMAIN calls = Caller
  BY DEF PreparedIInv, CallsProgress
<1>3. ASSUME NEW e \in Caller, calls'[e] # None
      PROVE  Progress(calls'[e], prepared, params)
  <2>1. CASE e = c
    BY <1>2, <2>1
  <2>2. CASE e # c
    BY <1>2, <1>3, <2>2 DEF PreparedIInv, CallsProgress
  <2> QED BY <2>1, <2>2
<1>4. CallsProgress'
  BY <1>1, <1>2, <1>3 DEF CallsProgress
<1> QED BY <1>4, SinkStands DEF PreparedIInv

LEMMA CallKeeps ==
  ASSUME PreparedIInv, NEW c \in Caller, prepared # None,
         NEW args \in [prepared.fields -> Literal], Call(c, args)
  PROVE  PreparedIInv'
<1> DEFINE call == [args |-> args, resolved |-> <<>>, status |-> "running", missing |-> None]
<1>1. prepared \in Declaration /\ Len(params) \in Nat
  BY LenProperties DEF PreparedIInv, CallsProgress, IInv, TypeOK
<1>2. Progress(call, prepared, params)
  BY <1>1 DEF Progress
<1>3. calls' = [calls EXCEPT ![c] = call] /\ UNCHANGED <<sinkVars, slots, prepared>>
  BY DEF Call
<1> HIDE DEF call
<1> QED BY <1>1, <1>2, <1>3, OneCallKeeps

\* What is known where a turn of the loop begins.
LEMMA RunningIs ==
  ASSUME PreparedIInv, NEW c \in Caller, Running(c)
  PROVE  /\ prepared \in Declaration /\ Progress(calls[c], prepared, params)
         /\ params \in Seq(Value) /\ Len(params) \in Nat
         /\ Len(calls[c].resolved) \in Nat
BY LenProperties DEF PreparedIInv, CallsProgress, IInv, TypeOK, Running, Progress

\* A call with one field changed, and with the two that end it.
LEMMA CallUpdated ==
  ASSUME NEW call, NEW d, NEW list, Progress(call, d, list)
  PROVE  /\ \A s : [call EXCEPT !.resolved = s] =
                     [args |-> call.args, resolved |-> s,
                      status |-> call.status, missing |-> call.missing]
         /\ \A s : [call EXCEPT !.status = s] =
                     [args |-> call.args, resolved |-> call.resolved,
                      status |-> s, missing |-> call.missing]
         /\ \A s, m : [[call EXCEPT !.status = s] EXCEPT !.missing = m] =
                        [args |-> call.args, resolved |-> call.resolved,
                         status |-> s, missing |-> m]
<1> DEFINE a == call.args  r == call.resolved  t == call.status  n == call.missing
<1>1. call = [args |-> a, resolved |-> r, status |-> t, missing |-> n]
  BY DEF Progress
<1> HIDE DEF a, r, t, n
<1>2. \A s : [call EXCEPT !.resolved = s] =
               [args |-> a, resolved |-> s, status |-> t, missing |-> n]
  BY <1>1
<1>3. \A s : [call EXCEPT !.status = s] =
               [args |-> a, resolved |-> r, status |-> s, missing |-> n]
  BY <1>1
<1>4. \A s, m : [[call EXCEPT !.status = s] EXCEPT !.missing = m] =
                  [args |-> a, resolved |-> r, status |-> s, missing |-> m]
  <2> TAKE s, m
  <2> DEFINE ended == [call EXCEPT !.status = s]
  <2>1. ended = [args |-> a, resolved |-> r, status |-> s, missing |-> n]
    BY <1>3
  <2> HIDE DEF ended
  <2>2. [ended EXCEPT !.missing = m] = [args |-> a, resolved |-> r, status |-> s, missing |-> m]
    BY <2>1
  <2> QED BY <2>2 DEF ended
<1> QED BY <1>2, <1>3, <1>4 DEF a, r, t, n

\* A value sent is one more, whichever value answers the entry.
LEMMA PushKeeps ==
  ASSUME PreparedIInv, NEW c \in Caller, Running(c), NEW v \in Value,
         Len(calls[c].resolved) < Len(params),
         Answered(calls[c], prepared, Entry(c), v),
         Push(c, v), UNCHANGED <<sinkVars, slots, prepared>>
  PROVE  PreparedIInv'
<1> DEFINE old == calls[c]
           call == [args |-> old.args, resolved |-> Append(old.resolved, v),
                    status |-> old.status, missing |-> old.missing]
<1>1. /\ prepared \in Declaration /\ Progress(old, prepared, params)
      /\ Len(old.resolved) \in Nat /\ Len(params) \in Nat /\ old.status = "running"
  BY RunningIs DEF Running
<1>2. calls' = [calls EXCEPT ![c] = call]
  <2>1. [old EXCEPT !.resolved = Append(old.resolved, v)] = call
    BY <1>1, CallUpdated
  <2> QED BY <2>1 DEF Push
<1>3. Progress(call, prepared, params)
  <2>1. old.resolved \in Seq(Value) /\ old.args \in [prepared.fields -> Literal]
    BY <1>1 DEF Progress
  <2>2. /\ call.resolved \in Seq(Value) /\ Len(call.resolved) = Len(old.resolved) + 1
        /\ \A p \in 1 .. Len(old.resolved) : call.resolved[p] = old.resolved[p]
        /\ call.resolved[Len(old.resolved) + 1] = v
        /\ call.args = old.args /\ call.status = "running"
        /\ call = [args |-> call.args, resolved |-> call.resolved,
                   status |-> call.status, missing |-> call.missing]
    BY <1>1, <2>1, AppendProperties
  <2> HIDE DEF call
  <2>3. ASSUME NEW p \in 1 .. Len(call.resolved)
        PROVE  Answered(call, prepared, params[p], call.resolved[p])
    <3>1. CASE p \in 1 .. Len(old.resolved)
      <4>1. Answered(old, prepared, params[p], old.resolved[p])
        BY <1>1, <3>1 DEF Progress
      <4> QED BY <2>2, <3>1, <4>1 DEF Answered
    <3>2. CASE p = Len(old.resolved) + 1
      BY <2>2, <3>2 DEF Answered, Entry
    <3> QED BY <1>1, <2>2, <3>1, <3>2
  <2>4. Len(call.resolved) <= Len(params)
    BY <1>1, <2>2
  <2> QED BY <2>1, <2>2, <2>3, <2>4 DEF Progress
<1> HIDE DEF call
<1> QED BY <1>1, <1>2, <1>3, OneCallKeeps

LEMMA ResolveNextKeeps ==
  ASSUME PreparedIInv, NEW c \in Caller, ResolveNext(c)
  PROVE  PreparedIInv'
<1>1. /\ Running(c) /\ Len(calls[c].resolved) < Len(params)
      /\ UNCHANGED <<sinkVars, slots, prepared>>
  BY DEF ResolveNext
<1>2. /\ Progress(calls[c], prepared, params)
      /\ params \in Seq(Value) /\ Len(params) \in Nat /\ Len(calls[c].resolved) \in Nat
  BY <1>1, RunningIs
<1>3. Entry(c) \in Value
  BY <1>1, <1>2 DEF Entry
<1>4. CASE ~IsNamed(Entry(c))
  <2>1. Push(c, Entry(c))
    BY <1>4 DEF ResolveNext
  <2> QED BY <1>1, <1>3, <1>4, <2>1, PushKeeps DEF Answered
<1>5. CASE IsNamed(Entry(c))
  <2>1. PICK field \in Matching(c) : Push(c, calls[c].args[field])
    BY <1>5 DEF ResolveNext
  <2>2. field \in prepared.fields /\ QualifiedName(prepared, field) = Entry(c).eq
    BY <2>1 DEF Matching
  <2>3. calls[c].args[field] \in Value
    BY <1>2, <2>2 DEF Progress, Literal
  <2>4. Answered(calls[c], prepared, Entry(c), calls[c].args[field])
    BY <1>5, <2>2 DEF Answered
  <2> QED BY <1>1, <2>1, <2>3, <2>4, PushKeeps
<1> QED BY <1>4, <1>5

\* A call that ends has answered every entry, or has come to one it cannot.
LEMMA EndKeeps ==
  ASSUME PreparedIInv, NEW c \in Caller, ResolveFails(c) \/ ResolveEnds(c)
  PROVE  PreparedIInv'
<1> DEFINE old == calls[c]
           Ending(status, missing) == [args |-> old.args, resolved |-> old.resolved,
                                       status |-> status, missing |-> missing]
<1>1. /\ prepared \in Declaration /\ Progress(old, prepared, params)
      /\ Len(old.resolved) \in Nat /\ Len(params) \in Nat
      /\ UNCHANGED <<sinkVars, slots, prepared>>
  BY RunningIs DEF ResolveFails, ResolveEnds
<1>2. CASE ResolveFails(c)
  <2> DEFINE call == Ending("unresolved", Entry(c).eq)
  <2>1. calls' = [calls EXCEPT ![c] = call]
    <3>1. [old EXCEPT !.status = "unresolved", !.missing = Entry(c).eq]
            = [[old EXCEPT !.status = "unresolved"] EXCEPT !.missing = Entry(c).eq]
      OBVIOUS
    <3>2. \A s, m : [[old EXCEPT !.status = s] EXCEPT !.missing = m] = Ending(s, m)
      BY <1>1, CallUpdated
    <3>3. [[old EXCEPT !.status = "unresolved"] EXCEPT !.missing = Entry(c).eq] = call
      BY <3>2, Zenon
    <3> QED BY <1>2, <3>1, <3>3 DEF ResolveFails
  <2>2. /\ Len(old.resolved) + 1 \in 1 .. Len(params) /\ IsNamed(Entry(c))
        /\ \A field \in prepared.fields : QualifiedName(prepared, field) # Entry(c).eq
    BY <1>1, <1>2 DEF ResolveFails, Matching
  <2>3. Progress(call, prepared, params)
    BY <1>1, <2>2 DEF Progress, Answered, Entry
  <2> HIDE DEF call
  <2> QED BY <1>1, <2>1, <2>3, OneCallKeeps
<1>3. CASE ResolveEnds(c)
  <2> DEFINE call == Ending("ok", old.missing)
  <2>1. calls' = [calls EXCEPT ![c] = call]
    <3>1. [old EXCEPT !.status = "ok"] = call
      BY <1>1, CallUpdated
    <3> QED BY <1>3, <3>1 DEF ResolveEnds
  <2>2. Progress(call, prepared, params)
    BY <1>1, <1>3 DEF Progress, Answered, ResolveEnds
  <2> HIDE DEF call
  <2> QED BY <1>1, <2>1, <2>2, OneCallKeeps
<1> QED BY <1>2, <1>3

LEMMA PreparedStepKeeps == PreparedIInv /\ [PreparedNext]_vars => PreparedIInv'
<1> SUFFICES ASSUME PreparedIInv, [PreparedNext]_vars PROVE PreparedIInv'
  OBVIOUS
<1>1. CASE UNCHANGED vars
  <2>1. CallsProgress'
    BY <1>1 DEF vars, PreparedIInv, CallsProgress
  <2> QED BY <1>1, <2>1, SinkStands DEF vars, PreparedIInv
<1>2. CASE \/ \E t \in Text : WriteText(t)
           \/ \E v \in Literal : BindLiteral(v)
           \/ \E d \in Declaration : \E field \in d.fields : BindField(d, field)
  BY <1>2, RenderKeeps
<1>3. CASE \E d \in Declaration : Prepare(d)
  BY <1>3, PrepareKeeps
<1>4. CASE \E c \in Caller : /\ prepared # None
                             /\ \E args \in [prepared.fields -> Literal] : Call(c, args)
  BY <1>4, CallKeeps
<1>5. CASE \E c \in Caller : ResolveNext(c) \/ ResolveFails(c) \/ ResolveEnds(c)
  BY <1>5, ResolveNextKeeps, EndKeeps
<1> QED BY <1>1, <1>2, <1>3, <1>4, <1>5 DEF PreparedNext

\* The sink's invariant, the slots' and every call's progress through the
\* template hold in every reachable state.
THEOREM PreparedInvariance == PreparedSpec => []PreparedIInv
BY PreparedInitHolds, PreparedStepKeeps, PTL DEF PreparedSpec

\* A prepared query's sink stays true to what was bound into it while callers
\* read its template (QuerySink, Prepared).
THEOREM TemplateIsTrue ==
  PreparedSpec => [](TypeOK /\ SameTextExactlyForSameValue /\ EveryParameterIsNamed)
<1>1. PreparedIInv => TypeOK /\ SameTextExactlyForSameValue /\ EveryParameterIsNamed
  BY IInvSameText DEF PreparedIInv, IInv
<1> QED BY <1>1, PreparedInvariance, PTL

LEMMA SinkSteps == [PreparedNext]_vars => [Next]_sinkVars
<1> SUFFICES ASSUME PreparedNext PROVE [Next]_sinkVars
  BY DEF vars
<1>1. CASE \E t \in Text : WriteText(t)
  BY <1>1 DEF WriteText, Next
<1>2. CASE \E v \in Literal : BindLiteral(v)
  BY <1>2 DEF BindLiteral, Literal, Next
<1>3. CASE \E d \in Declaration : \E field \in d.fields : BindField(d, field)
  BY <1>3, DeclarationAssumption DEF BindField, Next
<1>4. CASE \E d \in Declaration : Prepare(d)
  BY <1>4 DEF Prepare
<1>5. CASE \E c \in Caller : \E args \in [prepared.fields -> Literal] : Call(c, args)
  BY <1>5 DEF Call
<1>6. CASE \E c \in Caller : ResolveNext(c) \/ ResolveFails(c) \/ ResolveEnds(c)
  BY <1>6 DEF ResolveNext, ResolveFails, ResolveEnds
<1> QED BY <1>1, <1>2, <1>3, <1>4, <1>5, <1>6 DEF PreparedNext

\* A prepared query is the statement with every value written into its text,
\* a field's placeholder where the field stands, however it is called
\* (QuerySink, Prepared).
THEOREM TemplateImplementsInlining == PreparedSpec => ImplementsInlining
<1>1. PreparedInit => Init
  BY DEF PreparedInit
<1> QED BY <1>1, SinkSteps, SinkImplementsInlining, PTL DEF PreparedSpec, Spec
-----------------------------------------------------------------------------
(***************************************************************************)
(* What a caller sends.                                                    *)
(***************************************************************************)

\* A placeholder's parameter is the value written there, or one stored alike.
LEMMA ParameterIsWritten ==
  ASSUME PreparedIInv, NEW i \in Occurrences
  PROVE  /\ i \in 1 .. Len(slots) /\ written[i] \in Value
         /\ ParameterAt(i) \in 1 .. Len(params) /\ params[ParameterAt(i)] \in Value
         /\ params[ParameterAt(i)].variant = written[i].variant
         /\ params[ParameterAt(i)].repr = written[i].repr
<1>1. i \in 1 .. Len(sql) /\ Len(slots) = Len(written) /\ Len(sql) = Len(written)
  BY OccurrencesFinite DEF PreparedIInv, IInv, Aligned, SlotsAligned
<1>2. written[i] \in Value
  BY <1>1 DEF PreparedIInv, IInv, Aligned, Occurrences
<1>3. /\ ParameterAt(i) \in 1 .. Len(params)
      /\ DatabaseValue(params[ParameterAt(i)]) = DatabaseValue(written[i])
  BY DEF PreparedIInv, IInv, PlaceholdersHold
<1>4. params[ParameterAt(i)] \in Value
  BY <1>3 DEF PreparedIInv, IInv, TypeOK
<1> QED BY <1>1, <1>2, <1>3, <1>4 DEF DatabaseValue

\* A slot's parameter is a placeholder of the slot's name.
LEMMA SlotIsNamed ==
  ASSUME PreparedIInv, NEW i \in Occurrences, slots[i] # None
  PROVE  /\ IsNamed(params[ParameterAt(i)])
         /\ params[ParameterAt(i)].eq = QualifiedName(slots[i].of, slots[i].field)
         /\ slots[i].field \in slots[i].of.fields /\ slots[i].of \in Declaration
<1> DEFINE v == params[ParameterAt(i)]
<1>1. /\ v \in Value /\ v.variant = written[i].variant /\ v.repr = written[i].repr
      /\ i \in 1 .. Len(slots)
  BY ParameterIsWritten
<1>2. /\ written[i] = PlaceholderOf(slots[i].of, slots[i].field)
      /\ slots[i].field \in slots[i].of.fields /\ slots[i] \in Slot
  BY <1>1 DEF PreparedIInv, SlotsAligned, SlotHolds
<1>3. v.variant = "Placeholder" /\ v.repr = QualifiedName(slots[i].of, slots[i].field)
  BY <1>1, <1>2 DEF PlaceholderOf
<1>4. v.eq = v.repr
  BY <1>1, <1>3, ValueAssumption DEF StoredFinerThanEq
<1> QED BY <1>2, <1>3, <1>4 DEF IsNamed, Slot

LEMMA EndedProgress ==
  ASSUME PreparedIInv, NEW status, NEW c \in Ended(status)
  PROVE  /\ Progress(calls[c], prepared, params) /\ prepared \in Declaration
         /\ calls[c].status = status
BY DEF Ended, PreparedIInv, CallsProgress

\* Two fields of one name are of structs of one module and name.
LEMMA NameIsQualified ==
  ASSUME NEW d, NEW e, NEW f, NEW g, QualifiedName(d, f) = QualifiedName(e, g)
  PROVE  d.module = e.module /\ d.name = e.name /\ f = g
BY DEF QualifiedName

LEMMA AnsweredRight ==
  ASSUME PreparedIInv, NEW c \in Ended("ok"), NEW i \in Occurrences
  PROVE  DatabaseValue(calls[c].resolved[ParameterAt(i)]) =
           IF slots[i] = None THEN AskedAt(i) ELSE DatabaseValue(calls[c].args[slots[i].field])
<1> DEFINE p == ParameterAt(i)
<1>1. Answered(calls[c], prepared, params[p], calls[c].resolved[p])
  BY EndedProgress, ParameterIsWritten DEF Progress
<1>2. CASE slots[i] = None
  <2>1. written[i] \in Literal
    BY <1>2, ParameterIsWritten, SinkAssumption DEF PreparedIInv, SlotsAligned, SlotHolds
  <2>2. ~IsNamed(params[p])
    BY <2>1, ParameterIsWritten DEF Literal, IsNamed
  <2>3. calls[c].resolved[p] = params[p]
    BY <1>1, <2>2 DEF Answered
  <2> QED BY <1>2, <2>3, ParameterIsWritten DEF AskedAt, DatabaseValue
<1>3. CASE slots[i] # None
  <2>1. PICK field \in prepared.fields :
          /\ QualifiedName(prepared, field) = params[p].eq
          /\ calls[c].resolved[p] = calls[c].args[field]
    BY <1>1, <1>3, SlotIsNamed DEF Answered
  <2>2. field = slots[i].field
    BY <1>3, <2>1, SlotIsNamed, NameIsQualified
  <2> QED BY <1>3, <2>1, <2>2
<1> QED BY <1>2, <1>3

\* A resolved call sends the query with its own caller's arguments in it, for
\* any structs, values and number of callers (Prepared::resolve).
THEOREM CallersArgumentsRead == PreparedSpec => []ResolvedReadsTheCallersArguments
<1>1. PreparedIInv => ResolvedReadsTheCallersArguments
  BY AnsweredRight DEF ResolvedReadsTheCallersArguments
<1> QED BY <1>1, PreparedInvariance, PTL
-----------------------------------------------------------------------------
(***************************************************************************)
(* What a mismatch does, where a module and a name tell structs apart: not *)
(* so of structs declared in the bodies of functions.                      *)
(***************************************************************************)
NamesAreOfOneStruct ==
  \A d, e \in Declaration : d.module = e.module /\ d.name = e.name => d = e

LEMMA OkIsOfPrepared ==
  ASSUME PreparedIInv, NamesAreOfOneStruct, NEW c \in Ended("ok"), NEW i \in Bound
  PROVE  slots[i].of = prepared
<1>1. i \in 1 .. Len(slots) /\ slots[i] # None /\ Len(slots) = Len(written)
  BY DEF Bound, PreparedIInv, SlotsAligned
<1>2. written[i] \in Value
  BY <1>1, DeclarationAssumption DEF PreparedIInv, SlotsAligned, SlotHolds, Slot
<1>3. i \in Occurrences
  BY <1>1, <1>2, SinkAssumption DEF PreparedIInv, IInv, TypeOK, Aligned, Occurrences, IsPlaceholder
<1>4. Answered(calls[c], prepared, params[ParameterAt(i)], calls[c].resolved[ParameterAt(i)])
  BY <1>3, EndedProgress, ParameterIsWritten DEF Progress
<1>5. PICK field \in prepared.fields :
        QualifiedName(prepared, field) = QualifiedName(slots[i].of, slots[i].field)
  BY <1>1, <1>3, <1>4, SlotIsNamed DEF Answered
<1>6. slots[i].of \in Declaration /\ prepared \in Declaration
  BY <1>1, <1>3, SlotIsNamed, EndedProgress
<1> QED BY <1>5, <1>6, NameIsQualified DEF NamesAreOfOneStruct

LEMMA FirstLacking ==
  ASSUME PreparedIInv, NEW c \in Ended("unresolved")
  PROVE  \E p \in Lacking : /\ calls[c].missing = params[p].eq
                            /\ \A q \in Lacking : p <= q
<1> DEFINE n == Len(calls[c].resolved)
<1>1. /\ Progress(calls[c], prepared, params) /\ calls[c].status = "unresolved"
      /\ params \in Seq(Value) /\ DOMAIN params = 1 .. Len(params) /\ Len(params) \in Nat
  BY EndedProgress, LenProperties DEF PreparedIInv, IInv, TypeOK
<1>2. n \in Nat /\ n + 1 \in Lacking /\ calls[c].missing = params[n + 1].eq
  BY <1>1, LenProperties DEF Progress, Lacking
<1>3. ASSUME NEW q \in Lacking, q < n + 1 PROVE FALSE
  <2>1. q \in 1 .. n
    BY <1>1, <1>2, <1>3 DEF Lacking
  <2>2. Answered(calls[c], prepared, params[q], calls[c].resolved[q])
    BY <1>1, <2>1 DEF Progress
  <2> QED BY <2>2 DEF Lacking, Answered
<1>4. \A q \in Lacking : n + 1 <= q
  BY <1>1, <1>2, <1>3 DEF Lacking
<1> QED BY <1>2, <1>4

\* Where no two structs share a module and a name, a query run with another
\* struct's values is refused, at the first field it lacks, and one that is
\* answered was run with its own (Prepared::resolve, UnresolvedPlaceholder).
THEOREM MismatchRefused ==
  ASSUME NamesAreOfOneStruct
  PROVE  PreparedSpec => []MismatchIsUnresolved
<1>1. PreparedIInv => MismatchIsUnresolved
  BY OkIsOfPrepared, FirstLacking DEF MismatchIsUnresolved
<1> QED BY <1>1, PreparedInvariance, PTL
-----------------------------------------------------------------------------
(***************************************************************************)
(* Splicing a fragment is rendering its query in place, for any fragments, *)
(* nested to any depth and embedded any number of times.                   *)
(***************************************************************************)
USE DEF sinkVars, fragmentVars, fragmentsVars
-----------------------------------------------------------------------------
(***************************************************************************)
(* The inductive invariant.  A fragment's content grows with its segments: *)
(* upTo[f][n] is all of it through segment n.  Its whole is what its sink  *)
(* was told; a splice under way has written the part before it.            *)
(***************************************************************************)
Token == Text \cup Value
SqlToken == Text \cup Placeholder
SpanRecord == [of : Fragment, in : Fragment \cup {None}, from : Nat, to : Nat]

FragmentsTypeOK ==
  /\ fragments \in [Fragment -> FragmentRecord \cup {None}]
  /\ told \in [Fragment -> Seq(Token)]
  /\ open \in Fragment \cup {None}
  /\ open # None => fragments[open] # None
  /\ \A f \in Fragment : fragments[f] = None => told[f] = <<>>
  /\ splice \in SpliceRecord \cup {None}
  /\ spans \subseteq SpanRecord

\* What the sink of a fragment, or of the statement, was asked for.
Asking(f) == IF f = None THEN written ELSE told[f]

\* Of a fragment, the content through each segment makes its whole.
Grows(fragment, content, whole) ==
  /\ content[0] = fragment.head
  /\ \A n \in 1..Len(fragment.rest) :
       content[n] = Append(content[n - 1], fragment.rest[n].value) \o fragment.rest[n].text
  /\ whole = content[Len(fragment.rest)]

AllGrow(upTo) == \A f \in Fragment : fragments[f] # None => Grows(fragments[f], upTo[f], told[f])

\* What the splice under way has written.
SplicedSoFar(upTo) ==
  LET rest == fragments[splice.of].rest
      before == upTo[splice.of][splice.segment - 1]
  IN splice # None =>
       /\ splice.of \in Finished
       /\ splice.segment \in 1..Len(rest)
       /\ splice.from \in 1..(Len(Asking(open)) + 1)
       /\ SubSeq(Asking(open), splice.from, Len(Asking(open))) =
            IF splice.bound THEN Append(before, rest[splice.segment].value) ELSE before

SpansHold ==
  \A s \in spans : /\ s.of \in Finished
                   /\ s.from \in 1..(s.to + 1) /\ s.to <= Len(Asking(s.in))
                   /\ SubSeq(Asking(s.in), s.from, s.to) = told[s.of]

Content == [Fragment -> [Nat -> Seq(Token)]]

FragmentsIInv ==
  /\ IInv
  /\ FragmentsTypeOK
  /\ \E upTo \in Content : AllGrow(upTo) /\ SplicedSoFar(upTo)
  /\ SpansHold
-----------------------------------------------------------------------------
(***************************************************************************)
(* Sequences.                                                              *)
(***************************************************************************)

\* What is appended leaves a part as it was.
LEMMA PartStays ==
  ASSUME NEW w \in Seq(Token), NEW ts \in Seq(Token), NEW from \in Nat, NEW to \in Nat,
         from \in 1..(to + 1), to <= Len(w)
  PROVE  SubSeq(w \o ts, from, to) = SubSeq(w, from, to)
OBVIOUS

\* The part at the end grows by what is appended.
LEMMA PartGrows ==
  ASSUME NEW w \in Seq(Token), NEW ts \in Seq(Token), NEW from \in Nat, from \in 1..(Len(w) + 1)
  PROVE  SubSeq(w \o ts, from, Len(w \o ts)) = SubSeq(w, from, Len(w)) \o ts
OBVIOUS

\* Where a sequence is the same wherever another is, equal parts of the other
\* are equal parts of it.
LEMMA PartsAlike ==
  ASSUME NEW w \in Seq(Token), NEW q \in Seq(SqlToken), Len(w) = Len(q),
         NEW a \in Nat, NEW b \in Nat, NEW c \in Nat, NEW d \in Nat,
         a \in 1..(b + 1), c \in 1..(d + 1), b <= Len(w), d <= Len(w),
         SubSeq(w, a, b) = SubSeq(w, c, d),
         \A i, j \in 1..Len(q) : w[i] = w[j] => q[i] = q[j]
  PROVE  SubSeq(q, a, b) = SubSeq(q, c, d)
<1> DEFINE n == b + 1 - a
<1>1. n \in Nat /\ d + 1 - c \in Nat /\ Len(w) \in Nat
  OBVIOUS
<1>2. Len(SubSeq(w, a, b)) = n /\ Len(SubSeq(w, c, d)) = d + 1 - c
  BY <1>1
<1>3. d + 1 - c = n
  BY <1>2
<1>4. ASSUME NEW i \in 1..n
      PROVE  q[a + i - 1] = q[c + i - 1]
  <2>1. a + i - 1 \in 1..Len(q) /\ c + i - 1 \in 1..Len(q)
    BY <1>1, <1>3
  <2>2. /\ SubSeq(w, a, b)[i] = w[a + i - 1]
        /\ SubSeq(w, c, d)[i] = w[c + i - 1]
    BY <1>1, <1>3
  <2> QED BY <2>1, <2>2
<1>5. /\ SubSeq(q, a, b) \in Seq(SqlToken) /\ SubSeq(q, c, d) \in Seq(SqlToken)
      /\ Len(SubSeq(q, a, b)) = n /\ Len(SubSeq(q, c, d)) = n
      /\ \A i \in 1..n : SubSeq(q, a, b)[i] = q[a + i - 1]
      /\ \A i \in 1..n : SubSeq(q, c, d)[i] = q[c + i - 1]
  BY <1>1, <1>3
<1> DEFINE x == SubSeq(q, a, b)
           y == SubSeq(q, c, d)
<1>6. \A i \in 1..n : x[i] = y[i]
  BY <1>4, <1>5
<1>7. x \in Seq(SqlToken) /\ y \in Seq(SqlToken) /\ Len(x) = n /\ Len(y) = n
  BY <1>5
<1> HIDE DEF x, y
<1>8. x = y
  BY <1>6, <1>7, SeqEqual
<1> QED BY <1>8 DEF x, y

LEMMA Associates ==
  ASSUME NEW a \in Seq(Token), NEW b \in Seq(Token), NEW c \in Seq(Token)
  PROVE  (a \o b) \o c = a \o (b \o c)
OBVIOUS

LEMMA PutAt ==
  ASSUME NEW S, NEW f \in [Nat -> S], NEW k \in Nat, NEW x \in S
  PROVE  /\ [f EXCEPT ![k] = x] \in [Nat -> S]
         /\ [f EXCEPT ![k] = x][k] = x
         /\ \A n \in Nat : n # k => [f EXCEPT ![k] = x][n] = f[n]
OBVIOUS

LEMMA TextIsTokens ==
  ASSUME NEW ts \in Seq(Text)
  PROVE  ts \in Seq(Token)
BY DEF Token
-----------------------------------------------------------------------------
(***************************************************************************)
(* What the sink in use is asked for, and what stays.                      *)
(***************************************************************************)

\* A call of ts of the sink in use: it grows, every other sink stays, and a
\* finished fragment is what it was.
Grew(ts) ==
  /\ ts \in Seq(Token)
  /\ open' = open
  /\ Asking(open)' = Asking(open) \o ts
  /\ \A f \in (Fragment \cup {None}) \ {open} : Asking(f)' = Asking(f)
  /\ \A f \in Fragment \ {open} : fragments'[f] = fragments[f] /\ told'[f] = told[f]
  /\ \A f \in Fragment : fragments'[f] = None <=> fragments[f] = None

LEMMA TextPut ==
  ASSUME NEW segment \in Segment, NEW ts \in Seq(Text)
  PROVE  /\ [segment EXCEPT !.text = @ \o ts] = [value |-> segment.value, text |-> segment.text \o ts]
         /\ [segment EXCEPT !.text = @ \o ts] \in Segment
         /\ segment.text \in Seq(Text) /\ segment.value \in Value
<1> DEFINE whole == segment.text \o ts
<1>1. segment.text \in Seq(Text) /\ segment.value \in Value
      /\ segment = [value |-> segment.value, text |-> segment.text]
  BY DEF Segment
<1>2. whole \in Seq(Text)
  BY <1>1
<1> HIDE DEF whole
<1>3. [segment EXCEPT !.text = whole] = [value |-> segment.value, text |-> whole]
  BY <1>1
<1>4. [value |-> segment.value, text |-> whole] \in Segment
  BY <1>1, <1>2 DEF Segment
<1> QED BY <1>1, <1>3, <1>4 DEF whole

\* The record of a fragment takes text in its last segment.
LEMMA TailTakes ==
  ASSUME NEW r \in FragmentRecord, NEW ts \in Seq(Text)
  PROVE  LET k == Len(r.rest)
             new == TailWith(r, ts)
         IN /\ new \in FragmentRecord
            /\ Len(new.rest) = k
            /\ k = 0 => new.head = r.head \o ts
            /\ k # 0 => new.head = r.head
            /\ \A n \in 1..k : new.rest[n].value = r.rest[n].value
            /\ \A n \in 1..(k - 1) : new.rest[n].text = r.rest[n].text
            /\ k # 0 => new.rest[k].text = r.rest[k].text \o ts
<1> DEFINE k == Len(r.rest)
           segment == r.rest[k]
           longer == [segment EXCEPT !.text = @ \o ts]
           list == [r.rest EXCEPT ![k] = longer]
           new == TailWith(r, ts)
<1>0. k \in Nat /\ r.rest \in Seq(Segment) /\ r.head \in Seq(Text)
      /\ r = [head |-> r.head, rest |-> r.rest]
  BY DEF FragmentRecord
<1>1. CASE r.rest = <<>>
  <2>1. new = [head |-> r.head \o ts, rest |-> r.rest]
    BY <1>0, <1>1 DEF TailWith
  <2>2. k = 0 /\ r.head \o ts \in Seq(Text)
    BY <1>0, <1>1
  <2> QED
    BY <1>0, <2>1, <2>2 DEF FragmentRecord
<1>2. CASE r.rest # <<>>
  <2>1. k \in 1..k /\ k # 0
    BY <1>0, <1>2
  <2>2. segment \in Segment
    BY <1>0, <2>1, ElementOfSeq
  <2>3. longer \in Segment /\ longer.value = segment.value /\ longer.text = segment.text \o ts
    BY <2>2, TextPut, ZenonT(40)
  <2>4. new = [r EXCEPT !.rest = list]
    BY <1>2 DEF TailWith
  <2> HIDE DEF longer
  <2>5. /\ list \in Seq(Segment) /\ Len(list) = k
        /\ list[k] = longer /\ \A n \in 1..k : n # k => list[n] = r.rest[n]
    BY <1>0, <2>1, <2>3
  <2>6. new = [head |-> r.head, rest |-> list]
    BY <1>0, <2>4
  <2> HIDE DEF list
  <2>7. new.head = r.head /\ new.rest = list /\ new \in FragmentRecord
    BY <1>0, <2>5, <2>6 DEF FragmentRecord
  <2>8. \A n \in 1..(k - 1) : n \in 1..k /\ n # k
    BY <1>0
  <2> HIDE DEF new
  <2> QED
    BY <2>1, <2>3, <2>5, <2>7, <2>8 DEF new
<1> QED BY <1>1, <1>2

\* A bind begins a segment.
LEMMA BindBegins ==
  ASSUME NEW r \in FragmentRecord, NEW v \in Value
  PROVE  LET k == Len(r.rest)
             new == [r EXCEPT !.rest = Append(@, [value |-> v, text |-> <<>>])]
         IN /\ new \in FragmentRecord
            /\ Len(new.rest) = k + 1
            /\ new.head = r.head
            /\ \A n \in 1..k : new.rest[n] = r.rest[n]
            /\ new.rest[k + 1].value = v /\ new.rest[k + 1].text = <<>>
<1> DEFINE k == Len(r.rest)
           last == [value |-> v, text |-> <<>>]
           list == Append(r.rest, last)
           new == [r EXCEPT !.rest = list]
<1>1. last \in Segment /\ last.value = v /\ last.text = <<>>
  BY DEF Segment
<1>2. r.rest \in Seq(Segment) /\ r = [head |-> r.head, rest |-> r.rest] /\ r.head \in Seq(Text)
  BY DEF FragmentRecord
<1> HIDE DEF last
<1>3. /\ list \in Seq(Segment) /\ Len(list) = k + 1 /\ list[k + 1] = last
      /\ \A n \in 1..k : list[n] = r.rest[n]
  BY <1>1, <1>2
<1> HIDE DEF list
<1>4. new = [head |-> r.head, rest |-> list]
  BY <1>2
<1>5. new.head = r.head /\ new.rest = list /\ new \in FragmentRecord
  BY <1>2, <1>3, <1>4 DEF FragmentRecord
<1> HIDE DEF new
<1> QED
  BY <1>1, <1>3, <1>5 DEF new, list, last

LEMMA TextGrows ==
  ASSUME NEW r \in FragmentRecord, NEW ts \in Seq(Text), NEW content \in [Nat -> Seq(Token)],
         NEW whole, Grows(r, content, whole)
  PROVE  \E longer \in [Nat -> Seq(Token)] : Grows(TailWith(r, ts), longer, whole \o ts)
<1> DEFINE k == Len(r.rest)
           new == TailWith(r, ts)
           longer == [content EXCEPT ![k] = @ \o ts]
<1>1. k \in Nat /\ r.rest \in Seq(Segment) /\ whole = content[k] /\ content[0] = r.head
  BY DEF FragmentRecord, Grows
<1>2. ts \in Seq(Token) /\ content[k] \in Seq(Token)
  BY <1>1 DEF Token
<1>3. content[k] \o ts \in Seq(Token)
  BY <1>2
<1>4. /\ longer \in [Nat -> Seq(Token)] /\ longer[k] = content[k] \o ts
      /\ \A n \in Nat : n # k => longer[n] = content[n]
  BY <1>1, <1>3
<1>5. /\ Len(new.rest) = k
      /\ k = 0 => new.head = r.head \o ts
      /\ k # 0 => new.head = r.head
      /\ \A n \in 1..k : new.rest[n].value = r.rest[n].value
      /\ \A n \in 1..(k - 1) : new.rest[n].text = r.rest[n].text
      /\ k # 0 => new.rest[k].text = r.rest[k].text \o ts
  BY TailTakes
<1> HIDE DEF longer, new
<1>6. longer[0] = new.head
  BY <1>1, <1>4, <1>5
<1>7. ASSUME NEW n \in 1..k
      PROVE  longer[n] = Append(longer[n - 1], new.rest[n].value) \o new.rest[n].text
  <2>1. n \in Nat /\ n - 1 \in Nat /\ n - 1 # k /\ n # 0
    BY <1>1
  <2>2. longer[n - 1] = content[n - 1] /\ new.rest[n].value = r.rest[n].value
    BY <1>4, <1>5, <2>1
  <2>3. content[n] = Append(content[n - 1], r.rest[n].value) \o r.rest[n].text
    BY DEF Grows
  <2>4. CASE n = k
    <3>1. longer[n] = (Append(content[n - 1], r.rest[n].value) \o r.rest[n].text) \o ts
      BY <1>4, <2>3, <2>4
    <3>2. r.rest[n] \in Segment
      BY <1>1, ElementOfSeq
    <3>3. r.rest[n].value \in Token /\ r.rest[n].text \in Seq(Token)
      BY <3>2, TextPut, TextIsTokens DEF Token
    <3>4. content[n - 1] \in Seq(Token)
      BY <2>1
    <3>5. Append(content[n - 1], r.rest[n].value) \in Seq(Token)
      BY <3>3, <3>4
    <3> DEFINE a == Append(content[n - 1], r.rest[n].value)
               b == r.rest[n].text
    <3>6. (a \o b) \o ts = a \o (b \o ts)
      <4>1. a \in Seq(Token) /\ b \in Seq(Token) /\ ts \in Seq(Token)
        BY <1>2, <3>3, <3>5
      <4> HIDE DEF a, b
      <4> QED BY <4>1, Associates
    <3> QED BY <1>5, <2>1, <2>2, <2>4, <3>1, <3>6
  <2>5. CASE n # k
    <3>1. n \in 1..(k - 1)
      BY <1>1, <2>5
    <3> QED BY <1>4, <1>5, <2>1, <2>2, <2>3, <2>5, <3>1
  <2> QED BY <2>4, <2>5
<1>8. Grows(new, longer, whole \o ts)
  BY <1>1, <1>4, <1>5, <1>6, <1>7 DEF Grows
<1> QED BY <1>4, <1>8 DEF new

LEMMA BindGrows ==
  ASSUME NEW r \in FragmentRecord, NEW v \in Value, NEW content \in [Nat -> Seq(Token)],
         NEW whole, Grows(r, content, whole)
  PROVE  \E longer \in [Nat -> Seq(Token)] :
           Grows([r EXCEPT !.rest = Append(@, [value |-> v, text |-> <<>>])], longer, Append(whole, v))
<1> DEFINE k == Len(r.rest)
           new == [r EXCEPT !.rest = Append(@, [value |-> v, text |-> <<>>])]
           longer == [content EXCEPT ![k + 1] = Append(content[k], v)]
<1>1. k \in Nat /\ whole = content[k] /\ content[0] = r.head
  BY DEF FragmentRecord, Grows
<1>2. content[k] \in Seq(Token) /\ v \in Token
  BY <1>1 DEF Token
<1>3. Append(content[k], v) \in Seq(Token) /\ k + 1 \in Nat
  BY <1>1, <1>2
<1>4. /\ longer \in [Nat -> Seq(Token)] /\ longer[k + 1] = Append(content[k], v)
      /\ \A n \in Nat : n # k + 1 => longer[n] = content[n]
  BY <1>3, PutAt
<1>5. /\ Len(new.rest) = k + 1
      /\ new.head = r.head
      /\ \A n \in 1..k : new.rest[n] = r.rest[n]
      /\ new.rest[k + 1].value = v /\ new.rest[k + 1].text = <<>>
  BY BindBegins
<1> HIDE DEF longer, new, k
<1>6. longer[0] = new.head
  <2>1. 0 \in Nat /\ 0 # k + 1
    BY <1>1
  <2> QED BY <1>1, <1>4, <1>5, <2>1
<1>7. ASSUME NEW n \in 1..(k + 1)
      PROVE  longer[n] = Append(longer[n - 1], new.rest[n].value) \o new.rest[n].text
  <2>1. n \in Nat /\ n - 1 \in Nat /\ n - 1 # k + 1
    BY <1>1
  <2>2. CASE n = k + 1
    <3>1. longer[n - 1] = content[k] /\ longer[n] = Append(content[k], v)
      BY <1>1, <1>4, <2>2
    <3>2. Append(content[k], v) \o <<>> = Append(content[k], v)
      BY <1>3
    <3> QED BY <1>5, <2>2, <3>1, <3>2
  <2>3. CASE n # k + 1
    <3>1. n \in 1..k
      BY <1>1, <2>3
    <3>2. content[n] = Append(content[n - 1], r.rest[n].value) \o r.rest[n].text
      BY <3>1 DEF Grows, k
    <3> QED BY <1>4, <1>5, <2>1, <2>3, <3>1, <3>2
  <2> QED BY <2>2, <2>3
<1>8. Grows(new, longer, Append(whole, v))
  BY <1>1, <1>4, <1>5, <1>6, <1>7 DEF Grows, k
<1> QED BY <1>4, <1>8 DEF new

\* ... and with it everything said of the fragments.
HostGrew(ts) ==
  /\ IInv'
  /\ Grew(ts)
  /\ fragments' \in [Fragment -> FragmentRecord \cup {None}]
  /\ told' \in [Fragment -> Seq(Token)]
  /\ \A f \in Fragment : fragments'[f] = None => told'[f] = <<>>
  /\ \A upTo \in Content : AllGrow(upTo) =>
       \E longer \in Content : /\ AllGrow(longer)'
                               /\ \A f \in Fragment \ {open} : longer[f] = upTo[f]

\* A call of the statement's own sink.
LEMMA StatementGrew ==
  ASSUME FragmentsIInv, NEW ts \in Seq(Token), open = None, open' = open, IInv',
         written' = written \o ts, UNCHANGED <<fragments, told>>
  PROVE  HostGrew(ts)
<1>1. Grew(ts)
  <2>1. \A f \in Fragment : f # None
    BY FragmentsAssumption
  <2> QED BY <2>1 DEF Grew, Asking
<1>2. \A upTo \in Content : AllGrow(upTo) => AllGrow(upTo)'
  BY DEF AllGrow
<1> QED BY <1>1, <1>2 DEF HostGrew, FragmentsIInv, FragmentsTypeOK

\* A call of the open fragment's sink, of which new is what it becomes.
LEMMA FragmentGrew ==
  ASSUME FragmentsIInv, NEW ts \in Seq(Token), open # None, open' = open, UNCHANGED sinkVars,
         NEW new \in FragmentRecord,
         fragments' = [fragments EXCEPT ![open] = new],
         told' = [told EXCEPT ![open] = @ \o ts],
         \A content \in [Nat -> Seq(Token)] :
           Grows(fragments[open], content, told[open]) =>
             \E longer \in [Nat -> Seq(Token)] : Grows(new, longer, told[open] \o ts)
  PROVE  HostGrew(ts)
<1>1. /\ fragments \in [Fragment -> FragmentRecord \cup {None}]
      /\ told \in [Fragment -> Seq(Token)]
      /\ open \in Fragment /\ fragments[open] # None
      /\ new # None
  BY FragmentsAssumption DEF FragmentsIInv, FragmentsTypeOK
<1>2. told[open] \o ts \in Seq(Token)
  BY <1>1
<1>3. /\ fragments' \in [Fragment -> FragmentRecord \cup {None}]
      /\ fragments'[open] = new
      /\ \A f \in Fragment \ {open} : fragments'[f] = fragments[f]
  BY <1>1
<1>4. /\ told' \in [Fragment -> Seq(Token)]
      /\ told'[open] = told[open] \o ts
      /\ \A f \in Fragment \ {open} : told'[f] = told[f]
  BY <1>1, <1>2
<1>5. Grew(ts)
  <2>1. Asking(open)' = Asking(open) \o ts
    BY <1>4 DEF Asking
  <2>2. \A f \in (Fragment \cup {None}) \ {open} : Asking(f)' = Asking(f)
    BY <1>4 DEF Asking
  <2> QED BY <1>1, <1>3, <1>4, <2>1, <2>2 DEF Grew
<1>6. ASSUME NEW upTo \in Content, AllGrow(upTo)
      PROVE  \E longer \in Content : /\ AllGrow(longer)'
                                     /\ \A f \in Fragment \ {open} : longer[f] = upTo[f]
  <2>1. upTo[open] \in [Nat -> Seq(Token)] /\ Grows(fragments[open], upTo[open], told[open])
    BY <1>1, <1>6 DEF AllGrow, Content
  <2>2. PICK longer \in [Nat -> Seq(Token)] : Grows(new, longer, told[open] \o ts)
    BY <2>1
  <2>3. PICK all \in Content : /\ all[open] = longer
                               /\ \A f \in Fragment \ {open} : all[f] = upTo[f]
    <3> DEFINE put == [upTo EXCEPT ![open] = longer]
    <3>1. put \in Content /\ put[open] = longer /\ \A f \in Fragment \ {open} : put[f] = upTo[f]
      BY <1>1 DEF Content
    <3> QED BY <3>1
  <2>4. ASSUME NEW f \in Fragment, fragments'[f] # None
        PROVE  Grows(fragments'[f], all[f], told'[f])
    <3>1. CASE f = open
      BY <1>3, <1>4, <2>2, <2>3, <3>1
    <3>2. CASE f # open
      <4>1. fragments'[f] = fragments[f] /\ told'[f] = told[f] /\ all[f] = upTo[f]
        BY <1>3, <1>4, <2>3, <3>2
      <4> QED BY <1>6, <2>4, <4>1 DEF AllGrow
    <3> QED BY <3>1, <3>2
  <2>5. AllGrow(all)'
    BY <2>4 DEF AllGrow
  <2> QED BY <2>3, <2>5
<1>7. IInv'
  BY StepKeeps DEF FragmentsIInv
<1>8. \A f \in Fragment : fragments'[f] = None => told'[f] = <<>>
  BY <1>1, <1>3, <1>4 DEF FragmentsIInv, FragmentsTypeOK
<1> QED BY <1>3, <1>4, <1>5, <1>6, <1>7, <1>8 DEF HostGrew

LEMMA SinkTextGrew ==
  ASSUME FragmentsIInv, NEW ts \in Seq(Text), SinkText(ts), open' = open
  PROVE  HostGrew(ts)
<1>0. ts \in Seq(Token)
  BY TextIsTokens
<1>1. CASE open = None
  <2>1. PushText(ts) /\ UNCHANGED <<fragments, told>>
    BY <1>1 DEF SinkText
  <2>2. IInv' /\ written' = written \o ts
    BY <2>1, TextKeeps DEF FragmentsIInv, PushText
  <2> QED BY <1>0, <1>1, <2>1, <2>2, StatementGrew
<1>2. CASE open # None
  <2>1. FragmentText(ts)
    BY <1>2 DEF SinkText
  <2>2. fragments[open] \in FragmentRecord
    BY <1>2 DEF FragmentsIInv, FragmentsTypeOK
  <2> DEFINE new == TailWith(fragments[open], ts)
  <2>3. new \in FragmentRecord
    BY <2>2, TailTakes
  <2>4. \A content \in [Nat -> Seq(Token)] :
          Grows(fragments[open], content, told[open]) =>
            \E longer \in [Nat -> Seq(Token)] : Grows(new, longer, told[open] \o ts)
    BY <2>2, TextGrows
  <2>5. /\ fragments' = [fragments EXCEPT ![open] = new]
        /\ told' = [told EXCEPT ![open] = @ \o ts] /\ UNCHANGED sinkVars
    BY <2>1 DEF FragmentText
  <2> HIDE DEF new
  <2> QED BY <1>0, <1>2, <2>3, <2>4, <2>5, FragmentGrew
<1> QED BY <1>1, <1>2

LEMMA SinkBindGrew ==
  ASSUME FragmentsIInv, NEW v \in Value, SinkBind(v), open' = open
  PROVE  HostGrew(<<v>>)
<1>0. <<v>> \in Seq(Token) /\ v \in Token
  BY DEF Token
<1>1. CASE open = None
  <2>1. Bind(v) /\ UNCHANGED <<fragments, told>>
    BY <1>1 DEF SinkBind
  <2>2. IInv' /\ written' = Append(written, v)
    BY <2>1, BindAgainKeeps, BindNewKeeps
       DEF FragmentsIInv, Bind, BindAgain, BindNew, BindInto
  <2>3. written \in Seq(Token)
    BY DEF FragmentsIInv, IInv, TypeOK, Token
  <2>4. written' = written \o <<v>>
    BY <1>0, <2>2, <2>3, AppendIsConcat
  <2> QED BY <1>0, <1>1, <2>1, <2>2, <2>4, StatementGrew
<1>2. CASE open # None
  <2>1. FragmentBind(v)
    BY <1>2 DEF SinkBind
  <2>2. /\ fragments[open] \in FragmentRecord /\ open \in Fragment
        /\ told \in [Fragment -> Seq(Token)] /\ told[open] \in Seq(Token)
    BY <1>2 DEF FragmentsIInv, FragmentsTypeOK
  <2> DEFINE r == fragments[open]
             new == [r EXCEPT !.rest = Append(@, [value |-> v, text |-> <<>>])]
  <2>3. new \in FragmentRecord
    BY <2>2, BindBegins
  <2>4. told[open] \o <<v>> = Append(told[open], v)
    BY <1>0, <2>2, AppendIsConcat
  <2>5. \A content \in [Nat -> Seq(Token)] :
          Grows(fragments[open], content, told[open]) =>
            \E longer \in [Nat -> Seq(Token)] : Grows(new, longer, told[open] \o <<v>>)
    BY <2>2, <2>4, BindGrows
  <2>6. /\ fragments' = [fragments EXCEPT ![open] = new]
        /\ told' = [told EXCEPT ![open] = @ \o <<v>>] /\ UNCHANGED sinkVars
    BY <2>1, <2>4 DEF FragmentBind
  <2> HIDE DEF new
  <2> QED BY <1>0, <1>2, <2>3, <2>5, <2>6, FragmentGrew
<1> QED BY <1>1, <1>2
-----------------------------------------------------------------------------
(***************************************************************************)
(* Every step keeps the invariant.                                         *)
(***************************************************************************)

\* The spans left so far stay in sinks that only grow.
LEMMA SpansStay ==
  ASSUME FragmentsIInv, NEW ts, HostGrew(ts), NEW s \in spans
  PROVE  /\ s.of \in Finished' /\ s.to <= Len(Asking(s.in)')
         /\ SubSeq(Asking(s.in)', s.from, s.to) = told'[s.of]
<1>1. /\ s.of \in Finished /\ s.from \in 1..(s.to + 1) /\ s.to <= Len(Asking(s.in))
      /\ SubSeq(Asking(s.in), s.from, s.to) = told[s.of]
      /\ s.in \in Fragment \cup {None} /\ s.from \in Nat /\ s.to \in Nat
  BY DEF FragmentsIInv, SpansHold, FragmentsTypeOK, SpanRecord
<1>2. /\ s.of \in Fragment /\ s.of # open /\ open' = open
      /\ fragments'[s.of] = fragments[s.of] /\ told'[s.of] = told[s.of]
  BY <1>1 DEF Finished, HostGrew, Grew
<1>3. s.of \in Finished'
  BY <1>1, <1>2 DEF Finished
<1>4. CASE s.in = open
  <2> DEFINE w == Asking(s.in)
  <2>1. Asking(s.in)' = w \o ts /\ ts \in Seq(Token) /\ w \in Seq(Token)
    BY <1>2, <1>4 DEF HostGrew, Grew, Asking, FragmentsIInv, FragmentsTypeOK, IInv, TypeOK, Token
  <2>2. SubSeq(w \o ts, s.from, s.to) = SubSeq(w, s.from, s.to) /\ s.to <= Len(w \o ts)
    <3> HIDE DEF w
    <3>1. Len(w \o ts) = Len(w) + Len(ts) /\ Len(w) \in Nat /\ Len(ts) \in Nat
      BY <2>1
    <3>2. s.to <= Len(w)
      BY <1>1 DEF w
    <3>3. s.to <= Len(w \o ts)
      BY <1>1, <3>1, <3>2
    <3>4. SubSeq(w \o ts, s.from, s.to) = SubSeq(w, s.from, s.to)
      BY <1>1, <2>1, <3>2, PartStays
    <3> QED BY <3>3, <3>4
  <2> QED BY <1>1, <1>2, <1>3, <2>1, <2>2
<1>5. CASE s.in # open
  <2>1. Asking(s.in)' = Asking(s.in)
    BY <1>1, <1>5 DEF HostGrew, Grew
  <2> QED BY <1>1, <1>2, <1>3, <2>1
<1> QED BY <1>4, <1>5

\* A call outside a splice leaves no span and no splice.
LEMMA CallKeepsAll ==
  ASSUME FragmentsIInv, NEW ts, HostGrew(ts), splice = None, UNCHANGED <<splice, spans>>
  PROVE  FragmentsIInv'
<1>1. IInv'
  BY DEF HostGrew
<1>2. FragmentsTypeOK'
  BY DEF HostGrew, Grew, FragmentsIInv, FragmentsTypeOK
<1>3. \E upTo \in Content : (AllGrow(upTo) /\ SplicedSoFar(upTo))'
  <2>1. PICK upTo \in Content : AllGrow(upTo)
    BY DEF FragmentsIInv
  <2>2. PICK longer \in Content : AllGrow(longer)'
    BY <2>1 DEF HostGrew
  <2>3. SplicedSoFar(longer)'
    BY DEF SplicedSoFar
  <2> QED BY <2>2, <2>3
<1>4. SpansHold'
  <2>1. \A s \in spans : s.from \in 1..(s.to + 1)
    BY DEF FragmentsIInv, SpansHold
  <2> QED BY <2>1, SpansStay DEF SpansHold
<1> QED BY <1>1, <1>2, <1>3, <1>4 DEF FragmentsIInv

LEMMA WriteKeeps ==
  ASSUME FragmentsIInv,
         (\E t \in Text : AddText(t)) \/ (\E v \in Value : AddBind(v))
  PROVE  FragmentsIInv'
<1>1. ASSUME NEW t \in Text, AddText(t) PROVE FragmentsIInv'
  <2>1. <<t>> \in Seq(Text)
    OBVIOUS
  <2>2. HostGrew(<<t>>)
    BY <1>1, <2>1, SinkTextGrew DEF AddText
  <2> QED BY <1>1, <2>2, CallKeepsAll DEF AddText
<1>2. ASSUME NEW v \in Value, AddBind(v) PROVE FragmentsIInv'
  <2>1. HostGrew(<<v>>)
    BY <1>2, SinkBindGrew DEF AddBind
  <2> QED BY <1>2, <2>1, CallKeepsAll DEF AddBind
<1> QED BY <1>1, <1>2

LEMMA NewFragmentKeeps ==
  ASSUME FragmentsIInv, NEW f \in Fragment, NewFragment(f)
  PROVE  FragmentsIInv'
<1>1. /\ fragments \in [Fragment -> FragmentRecord \cup {None}] /\ told \in [Fragment -> Seq(Token)]
      /\ fragments[f] = None /\ told[f] = <<>> /\ told' = told /\ written' = written
      /\ open = None /\ open' = f /\ splice = None /\ splice' = None /\ spans' = spans
      /\ fragments' = [fragments EXCEPT ![f] = Empty]
  BY DEF FragmentsIInv, FragmentsTypeOK, NewFragment
<1>2. Empty \in FragmentRecord /\ Empty.head = <<>> /\ Len(Empty.rest) = 0
  BY DEF Empty, FragmentRecord
<1>3. /\ fragments' \in [Fragment -> FragmentRecord \cup {None}]
      /\ fragments'[f] = Empty /\ Empty # None
      /\ \A g \in Fragment \ {f} : fragments'[g] = fragments[g]
  BY <1>1, <1>2, FragmentsAssumption
<1>4. IInv'
  BY StepKeeps DEF FragmentsIInv, NewFragment
<1>5. FragmentsTypeOK'
  BY <1>1, <1>3 DEF FragmentsIInv, FragmentsTypeOK
<1>6. \E upTo \in Content : (AllGrow(upTo) /\ SplicedSoFar(upTo))'
  <2>1. PICK upTo \in Content : AllGrow(upTo)
    BY DEF FragmentsIInv
  <2> DEFINE nothing == [n \in Nat |-> <<>>]
             longer == [upTo EXCEPT ![f] = nothing]
  <2>2. nothing \in [Nat -> Seq(Token)] /\ nothing[0] = <<>>
    OBVIOUS
  <2>3. /\ longer \in Content /\ longer[f] = nothing
        /\ \A g \in Fragment \ {f} : longer[g] = upTo[g]
    BY <2>2 DEF Content
  <2> HIDE DEF nothing, longer
  <2>4. Grows(Empty, nothing, <<>>)
    BY <1>2, <2>2 DEF Grows
  <2>5. ASSUME NEW g \in Fragment, fragments'[g] # None
        PROVE  Grows(fragments'[g], longer[g], told'[g])
    <3>1. CASE g = f
      BY <1>1, <1>3, <2>3, <2>4, <3>1
    <3>2. CASE g # f
      <4>1. fragments'[g] = fragments[g] /\ told'[g] = told[g] /\ longer[g] = upTo[g]
        BY <1>1, <1>3, <2>3, <3>2
      <4> QED BY <2>1, <2>5, <4>1 DEF AllGrow
    <3> QED BY <3>1, <3>2
  <2>6. AllGrow(longer)'
    BY <2>5 DEF AllGrow
  <2>7. SplicedSoFar(longer)'
    BY <1>1 DEF SplicedSoFar
  <2> QED BY <2>3, <2>6, <2>7
<1>7. SpansHold'
  <2>1. \A g \in Finished : g \in Finished'
    BY <1>1, <1>3 DEF Finished
  <2>2. \A g \in Fragment \cup {None} : Asking(g)' = Asking(g)
    BY <1>1 DEF Asking
  <2>3. \A s \in spans : s.in \in Fragment \cup {None}
    BY DEF FragmentsIInv, FragmentsTypeOK, SpanRecord
  <2> QED BY <1>1, <2>1, <2>2, <2>3 DEF FragmentsIInv, SpansHold
<1> QED BY <1>4, <1>5, <1>6, <1>7 DEF FragmentsIInv

LEMMA FinishKeeps ==
  ASSUME FragmentsIInv, FinishFragment
  PROVE  FragmentsIInv'
<1>1. /\ fragments' = fragments /\ told' = told /\ written' = written
      /\ open # None /\ open' = None /\ splice = None /\ splice' = None /\ spans' = spans
  BY DEF FinishFragment
<1>2. IInv'
  BY StepKeeps DEF FragmentsIInv, FinishFragment
<1>3. FragmentsTypeOK'
  BY <1>1 DEF FragmentsIInv, FragmentsTypeOK
<1>4. \E upTo \in Content : (AllGrow(upTo) /\ SplicedSoFar(upTo))'
  <2>1. PICK upTo \in Content : AllGrow(upTo)
    BY DEF FragmentsIInv
  <2>2. AllGrow(upTo)' /\ SplicedSoFar(upTo)'
    BY <1>1, <2>1 DEF AllGrow, SplicedSoFar
  <2> QED BY <2>2
<1>5. SpansHold'
  <2>1. \A g \in Finished : g \in Finished'
    BY <1>1, FragmentsAssumption DEF Finished
  <2>2. \A g \in Fragment \cup {None} : Asking(g)' = Asking(g)
    BY <1>1 DEF Asking
  <2>3. \A s \in spans : s.in \in Fragment \cup {None}
    BY DEF FragmentsIInv, FragmentsTypeOK, SpanRecord
  <2> QED BY <1>1, <2>1, <2>2, <2>3 DEF FragmentsIInv, SpansHold
<1> QED BY <1>2, <1>3, <1>4, <1>5 DEF FragmentsIInv

\* What a sink was asked for is a sequence of tokens.
LEMMA AskingType ==
  ASSUME FragmentsIInv, NEW f \in Fragment \cup {None}
  PROVE  Asking(f) \in Seq(Token) /\ Len(Asking(f)) \in Nat
<1>1. written \in Seq(Token)
  BY DEF FragmentsIInv, IInv, TypeOK, Token
<1>2. f # None => told[f] \in Seq(Token)
  BY DEF FragmentsIInv, FragmentsTypeOK
<1>3. Asking(f) \in Seq(Token)
  BY <1>1, <1>2 DEF Asking
<1> QED BY <1>3

\* The text of a segment completes what was spliced before it.
LEMMA SpliceAdvances ==
  ASSUME FragmentsIInv, NEW f \in Finished, NEW n \in 0..Len(fragments[f].rest),
         NEW from \in 1..(Len(Asking(open)) + 1),
         NEW upTo \in Content, AllGrow(upTo),
         SubSeq(Asking(open), from, Len(Asking(open))) =
           IF n = 0 THEN <<>> ELSE Append(upTo[f][n - 1], fragments[f].rest[n].value),
         SinkText(SegmentText(f, n)), AfterText(f, n, from), open' = open
  PROVE  FragmentsIInv'
<1> DEFINE k == Len(fragments[f].rest)
           w == Asking(open)
           ts == SegmentText(f, n)
<1>1. /\ f \in Fragment /\ f # open /\ fragments[f] \in FragmentRecord
      /\ open \in Fragment \cup {None}
      /\ Grows(fragments[f], upTo[f], told[f])
  BY DEF Finished, FragmentsIInv, FragmentsTypeOK, AllGrow
<1>2. fragments[f].rest \in Seq(Segment) /\ fragments[f].head \in Seq(Text) /\ k \in Nat
  BY <1>1 DEF FragmentRecord
<1>3. ts \in Seq(Text)
  <2>1. n # 0 => fragments[f].rest[n] \in Segment
    BY <1>2, ElementOfSeq
  <2> QED BY <1>2, <2>1, TextPut DEF SegmentText
<1>4. HostGrew(ts)
  BY <1>3, SinkTextGrew
<1>5. w \in Seq(Token) /\ ts \in Seq(Token) /\ Len(w) \in Nat /\ from \in 1..(Len(w) + 1)
  BY <1>1, <1>3, AskingType, TextIsTokens
<1>6. Asking(open)' = w \o ts
  BY <1>4 DEF HostGrew, Grew
<1>7. SubSeq(w \o ts, from, Len(w \o ts)) = upTo[f][n]
  <2>1. SubSeq(w \o ts, from, Len(w \o ts)) = SubSeq(w, from, Len(w)) \o ts
    <3> HIDE DEF w, ts
    <3> QED BY <1>5, PartGrows, SMTT(30)
  <2>2. CASE n = 0
    <3>1. upTo[f][0] = ts
      BY <1>1, <2>2 DEF SegmentText, Grows
    <3>2. <<>> \o ts = ts
      BY <1>5
    <3> QED BY <2>1, <2>2, <3>1, <3>2
  <2>3. CASE n # 0
    <3>1. n \in 1..k
      BY <1>2, <2>3
    <3>2. upTo[f][n] = Append(upTo[f][n - 1], fragments[f].rest[n].value) \o ts
      BY <1>1, <2>3, <3>1 DEF SegmentText, Grows
    <3> QED BY <2>1, <2>3, <3>2
  <2> QED BY <2>2, <2>3
<1>8. /\ f \in Finished' /\ fragments'[f] = fragments[f] /\ told'[f] = told[f]
  BY <1>1, <1>4 DEF HostGrew, Grew, Finished
<1>9. PICK longer \in Content : AllGrow(longer)' /\ longer[f] = upTo[f]
  BY <1>1, <1>4 DEF HostGrew
<1>10. Len(w \o ts) = Len(w) + Len(ts) /\ Len(ts) \in Nat /\ from \in 1..(Len(w \o ts) + 1)
  BY <1>5
<1>11. Written = w
  BY DEF Written, Asking
<1>12. IInv' /\ open' = open
  BY <1>4 DEF HostGrew
<1>13. \A s \in spans : s.from \in 1..(s.to + 1)
  BY DEF FragmentsIInv, SpansHold
<1> HIDE DEF w, ts, k
<1>14. CASE n < k
  <2>1. splice' = [of |-> f, from |-> from, segment |-> n + 1, bound |-> FALSE] /\ spans' = spans
    BY <1>14 DEF AfterText, k
  <2>2. /\ splice' # None /\ splice'.of = f /\ splice'.from = from /\ splice'.segment = n + 1
        /\ splice'.bound = FALSE /\ splice' \in SpliceRecord /\ n + 1 \in 1..k /\ n + 1 - 1 = n
    <3>1. n \in Nat /\ from \in Nat /\ n + 1 \in 1..k /\ n + 1 - 1 = n
      BY <1>2, <1>5, <1>14
    <3> DEFINE sp == [of |-> f, from |-> from, segment |-> n + 1, bound |-> FALSE]
    <3>2. /\ sp.of = f /\ sp.from = from /\ sp.segment = n + 1 /\ sp.bound = FALSE
          /\ sp \in SpliceRecord
      BY <1>1, <3>1 DEF SpliceRecord
    <3> HIDE DEF sp
    <3>3. splice' = sp /\ sp # None
      BY <2>1, <3>2, FragmentsAssumption DEF sp
    <3> QED BY <3>1, <3>2, <3>3
  <2>3. FragmentsTypeOK'
    BY <1>4, <2>1, <2>2 DEF HostGrew, Grew, FragmentsIInv, FragmentsTypeOK
  <2>4. SplicedSoFar(longer)'
    <3>1. splice'.of \in Finished' /\ splice'.segment \in 1..Len(fragments'[splice'.of].rest)
      BY <1>8, <2>2 DEF k
    <3>2. splice'.from \in 1..(Len(Asking(open)') + 1)
      BY <1>6, <1>10, <2>2
    <3>3. SubSeq(Asking(open)', splice'.from, Len(Asking(open)')) =
            longer[splice'.of][splice'.segment - 1]
      <4>1. splice'.segment - 1 = n /\ splice'.of = f /\ splice'.from = from
        BY <2>2
      <4>2. longer[f][n] = upTo[f][n]
        BY <1>9
      <4> QED BY <1>6, <1>7, <4>1, <4>2, Zenon
    <3> QED BY <2>2, <3>1, <3>2, <3>3 DEF SplicedSoFar
  <2>5. SpansHold'
    BY <1>4, <1>13, <2>1, SpansStay DEF SpansHold
  <2> QED BY <1>9, <1>12, <2>3, <2>4, <2>5 DEF FragmentsIInv
<1>15. CASE ~(n < k)
  <2> DEFINE s == [of |-> f, in |-> open, from |-> from, to |-> Len(w) + Len(ts)]
  <2>1. splice' = None /\ spans' = spans \cup {s}
    BY <1>11, <1>15 DEF AfterText, k, ts
  <2>2. n = k /\ upTo[f][n] = told[f]
    BY <1>1, <1>2, <1>15 DEF k, Grows
  <2>3. s.of = f /\ s.in = open /\ s.from = from /\ s.to = Len(w \o ts) /\ s \in SpanRecord
    BY <1>1, <1>5, <1>10 DEF SpanRecord
  <2> HIDE DEF s
  <2>4. FragmentsTypeOK'
    BY <1>4, <2>1, <2>3 DEF HostGrew, Grew, FragmentsIInv, FragmentsTypeOK
  <2>5. SplicedSoFar(longer)'
    BY <2>1 DEF SplicedSoFar
  <2>6. SpansHold'
    <3>1. ASSUME NEW r \in spans'
          PROVE  /\ r.of \in Finished' /\ r.from \in 1..(r.to + 1)
                 /\ r.to <= Len(Asking(r.in)')
                 /\ SubSeq(Asking(r.in)', r.from, r.to) = told'[r.of]
      <4>1. CASE r \in spans
        BY <1>4, <1>13, <4>1, SpansStay
      <4>2. CASE r = s
        <5>1. Asking(r.in)' = w \o ts
          BY <1>6, <1>12, <2>3, <4>2
        <5>2. r.to <= Len(Asking(r.in)')
          BY <1>5, <1>10, <2>3, <4>2, <5>1
        <5> QED BY <1>7, <1>8, <1>10, <2>2, <2>3, <4>2, <5>1, <5>2
      <4> QED BY <2>1, <4>1, <4>2
    <3> QED BY <3>1 DEF SpansHold
  <2> QED BY <1>9, <1>12, <2>4, <2>5, <2>6 DEF FragmentsIInv
<1> QED BY <1>14, <1>15

LEMMA SpliceHeadKeeps ==
  ASSUME FragmentsIInv, NEW f \in Fragment, SpliceHead(f)
  PROVE  FragmentsIInv'
<1>1. f \in Finished /\ open' = open /\ Written = Asking(open)
  BY DEF SpliceHead, Written, Asking
<1>2. PICK upTo \in Content : AllGrow(upTo)
  BY DEF FragmentsIInv
<1> DEFINE w == Asking(open)
<1>3. w \in Seq(Token) /\ Len(w) \in Nat
  BY AskingType DEF FragmentsIInv, FragmentsTypeOK
<1>4. Len(w) + 1 \in 1..(Len(w) + 1) /\ SubSeq(w, Len(w) + 1, Len(w)) = <<>>
  <2> HIDE DEF w
  <2> QED BY <1>3
<1>5. 0 \in 0..Len(fragments[f].rest)
  <2>1. fragments[f] \in FragmentRecord
    BY <1>1 DEF Finished, FragmentsIInv, FragmentsTypeOK
  <2> QED BY <2>1 DEF FragmentRecord
<1>6. SinkText(SegmentText(f, 0)) /\ AfterText(f, 0, Len(w) + 1)
  BY <1>1 DEF SpliceHead
<1> QED BY <1>1, <1>2, <1>4, <1>5, <1>6, SpliceAdvances

LEMMA SpliceTextKeeps ==
  ASSUME FragmentsIInv, SpliceText
  PROVE  FragmentsIInv'
<1> DEFINE f == splice.of
           n == splice.segment
           from == splice.from
<1>1. /\ splice # None /\ splice.bound /\ open' = open
      /\ SinkText(SegmentText(f, n)) /\ AfterText(f, n, from)
  BY DEF SpliceText
<1>2. PICK upTo \in Content : AllGrow(upTo) /\ SplicedSoFar(upTo)
  BY DEF FragmentsIInv
<1>3. /\ f \in Finished
      /\ n \in 1..Len(fragments[f].rest)
      /\ from \in 1..(Len(Asking(open)) + 1)
      /\ SubSeq(Asking(open), from, Len(Asking(open))) =
           Append(upTo[f][n - 1], fragments[f].rest[n].value)
  BY <1>1, <1>2 DEF SplicedSoFar
<1> HIDE DEF f, n, from
<1>4. n \in 0..Len(fragments[f].rest) /\ n # 0
  BY <1>3
<1> QED BY <1>1, <1>2, <1>3, <1>4, SpliceAdvances

LEMMA SpliceBindKeeps ==
  ASSUME FragmentsIInv, SpliceBind
  PROVE  FragmentsIInv'
<1> DEFINE f == splice.of
           n == splice.segment
           from == splice.from
           w == Asking(open)
           v == fragments[f].rest[n].value
<1>1. /\ splice # None /\ ~splice.bound /\ open' = open /\ spans' = spans
      /\ SinkBind(v) /\ splice' = [splice EXCEPT !.bound = TRUE]
  BY DEF SpliceBind
<1>2. PICK upTo \in Content : AllGrow(upTo) /\ SplicedSoFar(upTo)
  BY DEF FragmentsIInv
<1>3. /\ f \in Finished
      /\ n \in 1..Len(fragments[f].rest)
      /\ from \in 1..(Len(w) + 1)
      /\ SubSeq(w, from, Len(w)) = upTo[f][n - 1]
  BY <1>1, <1>2 DEF SplicedSoFar
<1>4. f \in Fragment /\ f # open /\ fragments[f] \in FragmentRecord /\ open \in Fragment \cup {None}
      /\ splice \in SpliceRecord
  BY <1>1, <1>3 DEF Finished, FragmentsIInv, FragmentsTypeOK
<1>5. /\ splice' # None /\ splice'.of = f /\ splice'.segment = n /\ splice'.from = from
      /\ splice'.bound /\ splice' \in SpliceRecord
  BY <1>1, <1>4, FragmentsAssumption DEF SpliceRecord
<1>6. v \in Value /\ v \in Token
  <2>1. fragments[f].rest \in Seq(Segment)
    BY <1>4 DEF FragmentRecord
  <2>2. fragments[f].rest[n] \in Segment
    BY <1>3, <2>1, ElementOfSeq
  <2>3. v \in Value
    BY <2>2 DEF Segment
  <2> QED BY <2>3 DEF Token
<1> HIDE DEF v
<1>7. HostGrew(<<v>>)
  BY <1>1, <1>6, SinkBindGrew
<1>8. PICK longer \in Content : AllGrow(longer)' /\ longer[f] = upTo[f]
  BY <1>2, <1>4, <1>7 DEF HostGrew
<1>9. /\ f \in Finished' /\ fragments'[f] = fragments[f]
      /\ Asking(open)' = w \o <<v>>
  BY <1>3, <1>4, <1>7 DEF HostGrew, Grew, Finished
<1>10. w \in Seq(Token) /\ Len(w) \in Nat
  BY <1>4, AskingType
<1> HIDE DEF w, f, n, from
<1>11. /\ SubSeq(w \o <<v>>, from, Len(w \o <<v>>)) = SubSeq(w, from, Len(w)) \o <<v>>
       /\ from \in 1..(Len(w \o <<v>>) + 1)
  <2>1. <<v>> \in Seq(Token)
    BY <1>6
  <2>2. Len(w \o <<v>>) = Len(w) + 1
    BY <1>6, <1>10
  <2>3. from \in 1..(Len(w \o <<v>>) + 1)
    BY <1>3, <1>10, <2>2
  <2> DEFINE one == <<v>>
  <2>4. SubSeq(w \o one, from, Len(w \o one)) = SubSeq(w, from, Len(w)) \o one
    <3>1. one \in Seq(Token)
      BY <2>1
    <3> HIDE DEF one
    <3>2. from \in 1..(Len(w) + 1)
      BY <1>3
    <3>3. w \in Seq(Token)
      BY <1>10
    <3> QED BY <3>1, <3>2, <3>3, PartGrows
  <2> QED BY <2>3, <2>4
<1>12. upTo[f][n - 1] \o <<v>> = Append(upTo[f][n - 1], v)
  <2>1. n - 1 \in Nat
    BY <1>3
  <2>2. upTo[f][n - 1] \in Seq(Token)
    BY <1>2, <1>4, <2>1 DEF Content
  <2> QED BY <1>6, <2>2, AppendIsConcat
<1>13. SplicedSoFar(longer)'
  <2>1. splice'.of \in Finished' /\ splice'.segment \in 1..Len(fragments'[splice'.of].rest)
    BY <1>3, <1>5, <1>9
  <2>2. splice'.from \in 1..(Len(Asking(open)') + 1)
    BY <1>5, <1>9, <1>11
  <2>3. SubSeq(Asking(open)', splice'.from, Len(Asking(open)')) =
          Append(longer[splice'.of][splice'.segment - 1],
                 fragments'[splice'.of].rest[splice'.segment].value)
    BY <1>3, <1>5, <1>8, <1>9, <1>11, <1>12 DEF v
  <2> QED BY <1>5, <2>1, <2>2, <2>3 DEF SplicedSoFar
<1>14. FragmentsTypeOK'
  BY <1>1, <1>5, <1>7 DEF HostGrew, Grew, FragmentsIInv, FragmentsTypeOK
<1>15. SpansHold'
  <2>1. \A s \in spans : s.from \in 1..(s.to + 1)
    BY DEF FragmentsIInv, SpansHold
  <2> QED BY <1>1, <1>7, <2>1, SpansStay DEF SpansHold
<1> QED BY <1>7, <1>8, <1>13, <1>14, <1>15 DEF HostGrew, FragmentsIInv

LEMMA FragmentsStepKeeps == FragmentsIInv /\ [FragmentsNext]_fragmentsVars => FragmentsIInv'
<1> SUFFICES ASSUME FragmentsIInv, [FragmentsNext]_fragmentsVars PROVE FragmentsIInv'
  OBVIOUS
<1>1. CASE \E f \in Fragment : NewFragment(f)
  BY <1>1, NewFragmentKeeps
<1>2. CASE FinishFragment
  BY <1>2, FinishKeeps
<1>3. CASE (\E t \in Text : AddText(t)) \/ (\E v \in Value : AddBind(v))
  BY <1>3, WriteKeeps
<1>4. CASE \E f \in Fragment : SpliceHead(f)
  BY <1>4, SpliceHeadKeeps
<1>5. CASE SpliceBind
  BY <1>5, SpliceBindKeeps
<1>6. CASE SpliceText
  BY <1>6, SpliceTextKeeps
<1>7. CASE UNCHANGED fragmentsVars
  <2>1. IInv'
    BY <1>7, StepKeeps DEF FragmentsIInv
  <2>2. /\ fragments' = fragments /\ open' = open /\ splice' = splice /\ told' = told
        /\ spans' = spans /\ written' = written
    BY <1>7
  <2>3. FragmentsTypeOK' /\ SpansHold'
    BY <2>2 DEF FragmentsIInv, FragmentsTypeOK, SpansHold, Asking, Finished
  <2>4. PICK upTo \in Content : AllGrow(upTo) /\ SplicedSoFar(upTo)
    BY DEF FragmentsIInv
  <2>5. AllGrow(upTo)' /\ SplicedSoFar(upTo)'
    BY <2>2, <2>4 DEF AllGrow, SplicedSoFar, Asking, Finished
  <2> QED BY <2>1, <2>3, <2>5 DEF FragmentsIInv
<1> QED BY <1>1, <1>2, <1>3, <1>4, <1>5, <1>6, <1>7 DEF FragmentsNext

LEMMA FragmentsInitHolds == FragmentsInit => FragmentsIInv
<1> SUFFICES ASSUME FragmentsInit PROVE FragmentsIInv
  OBVIOUS
<1>1. IInv
  BY InitEstablishes DEF FragmentsInit
<1>2. FragmentsTypeOK /\ SpansHold
  BY DEF FragmentsInit, FragmentsTypeOK, SpansHold
<1>3. \E upTo \in Content : AllGrow(upTo) /\ SplicedSoFar(upTo)
  <2> DEFINE upTo == [f \in Fragment |-> [n \in Nat |-> <<>>]]
  <2>1. upTo \in Content
    BY DEF Content
  <2>2. AllGrow(upTo) /\ SplicedSoFar(upTo)
    BY DEF FragmentsInit, AllGrow, SplicedSoFar
  <2> QED BY <2>1, <2>2
<1> QED BY <1>1, <1>2, <1>3 DEF FragmentsIInv

\* The inductive invariant holds of every rendering with fragments.
THEOREM FragmentsInvariance == FragmentsSpec => []FragmentsIInv
BY FragmentsInitHolds, FragmentsStepKeeps, PTL DEF FragmentsSpec
-----------------------------------------------------------------------------
(***************************************************************************)
(* What it implies.                                                        *)
(***************************************************************************)

\* Splicing a fragment asks of the host exactly what rendering its query
\* there would have (Fragment::splice_into).
THEOREM SplicingIsRendering == FragmentsSpec => []SplicedAsRenderedThere
<1>1. FragmentsIInv => SplicedAsRenderedThere
  BY DEF FragmentsIInv, SpansHold, SplicedAsRenderedThere, SpannedIn, Asking
<1> QED BY <1>1, FragmentsInvariance, PTL

\* What a server reads of a statement with fragments in it is what was asked.
THEOREM FragmentsReadAsAsked == FragmentsSpec => []ServerReadsWhatWasAsked
<1>1. FragmentsIInv => ServerReadsWhatWasAsked
  BY IInvReadsWhatWasAsked DEF FragmentsIInv
<1> QED BY <1>1, FragmentsInvariance, PTL

\* At two places that ask for the same, the text is the same.
LEMMA SameAskedSameText ==
  ASSUME IInv, Numbered, NEW i \in 1..Len(sql), NEW j \in 1..Len(sql), written[i] = written[j]
  PROVE  sql[i] = sql[j]
<1>0. DOMAIN sql = 1..Len(sql)
  BY DEF IInv, TypeOK
<1>1. /\ IF IsPlaceholder(sql[i]) THEN written[i] \in Value ELSE written[i] = sql[i]
      /\ IF IsPlaceholder(sql[j]) THEN written[j] \in Value ELSE written[j] = sql[j]
  BY DEF IInv, Aligned
<1>2. sql[i] \in Text \cup Placeholder /\ sql[j] \in Text \cup Placeholder
  BY DEF IInv, TypeOK
<1>3. CASE IsPlaceholder(sql[i]) /\ IsPlaceholder(sql[j])
  <2>1. i \in Occurrences /\ j \in Occurrences
    BY <1>0, <1>3 DEF Occurrences
  <2>2. AskedAt(i) = AskedAt(j)
    BY DEF AskedAt
  <2> QED BY <2>1, <2>2, IInvSameText DEF SameTextExactlyForSameValue
<1>4. CASE ~IsPlaceholder(sql[i]) /\ ~IsPlaceholder(sql[j])
  BY <1>1, <1>4
<1>5. CASE IsPlaceholder(sql[i]) # IsPlaceholder(sql[j])
  <2>1. written[i] \in Value
    BY <1>1, <1>5
  <2>2. written[i] \in Text
    BY <1>1, <1>2, <1>5 DEF IsPlaceholder
  <2> QED BY <2>1, <2>2, SinkAssumption
<1> QED BY <1>3, <1>4, <1>5 DEF IsPlaceholder

\* One fragment spliced twice into a statement is the same text twice, on a
\* dialect that numbers, whatever was bound before or between: what a server
\* that matches a SELECT expression against GROUP BY relies on.
THEOREM SplicedTwiceIsOneText == FragmentsSpec => []SameFragmentSameText
<1>1. ASSUME FragmentsIInv, Numbered, NEW r \in spans, NEW s \in spans,
             r.of = s.of, r.in = None, s.in = None
      PROVE  SubSeq(sql, r.from, r.to) = SubSeq(sql, s.from, s.to)
  <2>1. /\ r.from \in Nat /\ r.to \in Nat /\ s.from \in Nat /\ s.to \in Nat
        /\ r.from \in 1..(r.to + 1) /\ s.from \in 1..(s.to + 1)
    BY <1>1 DEF FragmentsIInv, SpansHold, FragmentsTypeOK, SpanRecord
  <2>2. /\ r.to <= Len(written) /\ s.to <= Len(written)
        /\ SubSeq(written, r.from, r.to) = SubSeq(written, s.from, s.to)
    BY <1>1 DEF FragmentsIInv, SpansHold, Asking
  <2>3. /\ Len(written) = Len(sql) /\ Len(sql) \in Nat
        /\ written \in Seq(Token) /\ sql \in Seq(SqlToken)
    BY <1>1 DEF FragmentsIInv, IInv, Aligned, TypeOK, Token, SqlToken
  <2>4. \A i, j \in 1..Len(sql) : written[i] = written[j] => sql[i] = sql[j]
    BY <1>1, SameAskedSameText DEF FragmentsIInv
  <2> DEFINE a == r.from
             b == r.to
             c == s.from
             d == s.to
  <2>5. /\ a \in Nat /\ b \in Nat /\ c \in Nat /\ d \in Nat
        /\ a \in 1..(b + 1) /\ c \in 1..(d + 1) /\ b <= Len(written) /\ d <= Len(written)
        /\ SubSeq(written, a, b) = SubSeq(written, c, d)
    BY <2>1, <2>2
  <2> HIDE DEF a, b, c, d
  <2>6. SubSeq(sql, a, b) = SubSeq(sql, c, d)
    BY <2>3, <2>4, <2>5, PartsAlike
  <2> QED BY <2>6 DEF a, b, c, d
<1>2. FragmentsIInv => SameFragmentSameText
  BY <1>1 DEF SameFragmentSameText
<1> QED BY <1>2, FragmentsInvariance, PTL
=============================================================================
