--------------------------- MODULE Execution_proofs ---------------------------
(***************************************************************************)
(* Execution, for any tasks, any connections and any calls: what holds of  *)
(* each task's future, stream and transaction, the line for the pool, and  *)
(* where each connection is.  The three are kept apart: a step changes one *)
(* task's records, one place in line and the place of one connection.      *)
(***************************************************************************)
EXTENDS Execution, SequenceTheorems, TLAPS

\* The stages an awaited call goes through.
Underway == {"bind", "acquire", "send", "answered", "poll"}

\* ... and a stream, until it is over.
Live == {"unpolled", "acquire", "granted", "send", "refused", "open"}

\* Of the future t awaits.
CallOK(t, c) ==
  /\ c \in Future(t)
  /\ c.op # "stream" /\ c.stage \in Underway \cup {"ended"}
  /\ c.op = "none" => c.stage = "ended"
  /\ c.stage = "ended" <=> c.end # "pending"
  /\ IF c.op \in Terminal THEN c.of # None /\ c.of.op = c.op ELSE c.of = None
  /\ c.stage = "bind" => c.op \in Terminal
  /\ c.stage = "poll" => c.op = "next"
  /\ c.op = "next" => c.stage \in {"poll", "ended"}
  /\ c.stage = "answered" => c.op \in Terminal \cup {"commit"}
  /\ c.stage = "acquire" => c.op # "commit"
  /\ c.conn # None => c.stage \in {"send", "answered"} /\ c.op \in Terminal \cup {"begin"}
  /\ c.of # None /\ c.of.on = "tx" => c.conn = None /\ c.stage # "acquire"

\* What is known of the server.
CallRan(c) ==
  /\ c.stage \in {"bind", "acquire", "send"} => ~c.ran
  /\ c.stage = "answered" => c.ran
  /\ c.of # None =>
       /\ c.end \in NothingRan => ~c.ran
       /\ c.end \in ItRan => c.ran
       /\ c.of.stmt.binds # "all" => ~c.ran /\ c.stage \in {"bind", "ended"}

\* Of the stream t holds.
StreamOK(t, s) ==
  /\ s \in Future(t)
  /\ s.op \in {"stream", "none"} /\ s.stage \in Live \cup {"over", "ended"}
  /\ s.end = "pending" <=> s.stage \in Live
  /\ s.op = "stream" <=> s.of # None
  /\ s.op = "none" => s.stage = "ended" /\ s.end = "nothing"
  /\ s.conn # None => s.stage \in {"granted", "send", "refused", "open"}
  /\ s.of # None /\ s.of.on = "tx" => s.conn = None /\ s.stage # "acquire"

StreamRan(s) ==
  /\ s.stage \in Live \ {"open"} => ~s.ran
  /\ s.stage = "open" \/ s.got # <<>> => s.ran
  /\ s.of # None =>
       /\ s.end \in NothingRan => ~s.ran
       /\ s.end \in ItRan => s.ran
       /\ s.of.stmt.binds # "all" => ~s.ran /\ s.stage = "ended"

\* The rows it has given are the first of its statement's.
FirstRows(s) ==
  s.of # None =>
    /\ Len(s.got) <= Len(s.of.stmt.rows)
    /\ \A i \in 1..Len(s.got) : s.got[i] = s.of.stmt.rows[i]
    /\ s.end = "exhausted" => s.got = s.of.stmt.rows

TxOK(x) ==
  /\ x \in [conn : Connection \cup {None}, writes : Nat,
            state : {"none", "open", "aborted", "lost", "committed"}]
  /\ x.state = "none" => x.conn = None

\* A poll is of a stream that is not over, and a begin finds no connection in
\* the transaction's place.
Together(c, s, x) ==
  /\ c.stage = "poll" => s.stage \in {"acquire", "send", "refused", "open"}
  /\ c.op = "begin" /\ c.stage # "ended" => x.conn = None

\* load and load_one give what the statement's rows decode to, count a number.
Gives(c) ==
  c.end = "Ok" =>
    /\ c.op = "load" => c.got = c.of.stmt.rows
    /\ c.op = "load_one" =>
         IF c.of.stmt.rows = <<>> THEN c.got = <<>> ELSE c.got = <<c.of.stmt.rows[1]>>
    /\ c.op = "count" => Len(c.got) = Len(c.of.stmt.rows)

Local(t) ==
  /\ CallOK(t, call[t]) /\ CallRan(call[t]) /\ Gives(call[t])
  /\ StreamOK(t, stream[t]) /\ StreamRan(stream[t]) /\ FirstRows(stream[t])
  /\ TxOK(tx[t]) /\ Together(call[t], stream[t], tx[t])
  /\ stored[t] \in Nat

Domains == /\ DOMAIN call = Task /\ DOMAIN stream = Task
           /\ DOMAIN tx = Task /\ DOMAIN stored = Task
           /\ call = [t \in Task |-> call[t]] /\ stream = [t \in Task |-> stream[t]]
           /\ tx = [t \in Task |-> tx[t]] /\ stored = [t \in Task |-> stored[t]]

\* The stage of each call and of each stream.
At == [x \in Waiter |-> IF x[2] = "call" THEN call[x[1]].stage ELSE stream[x[1]].stage]

Line ==
  /\ waiting \in Seq(Waiter)
  /\ \A i, j \in DOMAIN waiting : waiting[i] = waiting[j] => i = j
  /\ \A x \in Waiter : At[x] = "acquire" <=> InLine(x)

\* Where connections are: what each task's call, stream and transaction hold.
Holder == Task \X {"call", "stream", "tx"}
Hold == [x \in Holder |-> CASE x[2] = "call"   -> call[x[1]].conn
                            [] x[2] = "stream" -> stream[x[1]].conn
                            [] x[2] = "tx"     -> tx[x[1]].conn]

Placed(free, hold) ==
  /\ free \subseteq Connection
  /\ hold \in [Holder -> Connection \cup {None}]
  /\ \A x \in Holder : hold[x] \notin free
  /\ \A x, y \in Holder : hold[x] = hold[y] /\ hold[x] # None => x = y
  /\ \A c \in Connection \ free : \E x \in Holder : hold[x] = c

IInv == Domains /\ (\A t \in Task : Local(t)) /\ Line /\ Placed(idle, Hold)
-----------------------------------------------------------------------------
(* Calls, statements and what they decode to.                              *)

\* What a task may call, field by field.
LEMMA CallShape ==
  ASSUME NEW t \in Task, NEW c \in Calls[t]
  PROVE  /\ c # None /\ c.op \in Terminal \cup {"stream"} /\ c.on \in {"pool", "tx"}
         /\ c.stmt.writes \in BOOLEAN /\ c.stmt.binds \in BindEnd
         /\ c.stmt.rows \in Seq(Row)
BY ExecutionAssumption

\* load and load_one end in Ok or in a decoding error, with rows or none.
LEMMA ResultShape ==
  ASSUME NEW t \in Task, NEW c \in Calls[t]
  PROVE  /\ Result(c).end \in {"Ok", "Decode"} /\ Result(c).got \in Seq(Row)
         /\ Gives([op |-> c.op, of |-> c, end |-> Result(c).end, got |-> Result(c).got])
<1> DEFINE rows == c.stmt.rows
           first == SubSeq(rows, 1, 1)
<1>1. rows \in Seq(Row) /\ <<>> \in Seq(Row) /\ Len(rows) \in Nat
  BY CallShape, LenProperties
<1>2. rows # <<>> => Len(rows) > 0 /\ rows[1] \in Row
  BY <1>1, EmptySeq, ElementOfSeq
<1>3. rows = <<>> => first = <<>>
  OBVIOUS
<1>4. rows # <<>> => first = <<rows[1]>> /\ first \in Seq(Row)
  <2> SUFFICES ASSUME rows # <<>> PROVE first = <<rows[1]>> /\ first \in Seq(Row)
    OBVIOUS
  <2>1. \A i \in 1..1 : rows[i] \in Row
    BY <1>2
  <2>2. /\ first \in Seq(Row) /\ Len(first) = 1
        /\ \A i \in 1..1 : first[i] = rows[i]
    BY <2>1, SubSeqProperties
  <2>3. <<rows[1]>> \in Seq(Row) /\ Len(<<rows[1]>>) = 1 /\ <<rows[1]>>[1] = rows[1]
    BY <1>2
  <2> HIDE DEF rows, first
  <2> QED BY <2>2, <2>3, SeqEqual
<1>5. first \in Seq(Row)
  BY <1>1, <1>3, <1>4
<1> HIDE DEF rows, first
<1>6. CASE c.op = "load"
  BY <1>6, <1>1 DEF Result, Decoded, Gives, rows
<1>7. CASE c.op = "load_one"
  <2>1. Result(c) = Decoded(first)
    BY <1>7 DEF Result, rows, first
  <2>2. \/ Result(c) = [end |-> "Ok", got |-> first]
        \/ Result(c) = [end |-> "Decode", got |-> <<>>]
    BY <2>1 DEF Decoded
  <2>3. Result(c).end \in {"Ok", "Decode"} /\ Result(c).got \in Seq(Row)
    <3>1. Result(c).end \in {"Ok", "Decode"} /\ Result(c).got \in {first, <<>>}
      BY <2>2
    <3> QED BY <3>1, <1>1, <1>5
  <2>4. Result(c).end = "Ok" => Result(c).got = first
    BY <2>2
  <2> QED BY <1>7, <2>3, <2>4, <1>3, <1>4 DEF Gives, rows
<1>8. CASE c.op # "load" /\ c.op # "load_one"
  BY <1>8, <1>1 DEF Result, Gives, rows
<1> QED BY <1>6, <1>7, <1>8
-----------------------------------------------------------------------------
(* Where a connection goes.                                                *)

\* A holder gives back what it has, or has nothing to give.
LEMMA Release ==
  ASSUME NEW free, NEW hold, Placed(free, hold), NEW x \in Holder
  PROVE  Placed(IF hold[x] = None THEN free ELSE free \cup {hold[x]}, [hold EXCEPT ![x] = None])
<1>1. CASE hold[x] = None
  BY <1>1 DEF Placed
<1>2. CASE hold[x] # None
  <2> DEFINE free2 == free \cup {hold[x]}
             hold2 == [hold EXCEPT ![x] = None]
  <2>1. /\ free2 \subseteq Connection /\ hold2 \in [Holder -> Connection \cup {None}]
        /\ hold2[x] = None /\ \A y \in Holder : y # x => hold2[y] = hold[y]
    BY <1>2 DEF Placed
  <2>2. \A y \in Holder : hold2[y] \notin free2
    BY <2>1, <1>2, ExecutionAssumption DEF Placed
  <2>3. \A y, z \in Holder : hold2[y] = hold2[z] /\ hold2[y] # None => y = z
    BY <2>1 DEF Placed
  <2>4. \A c \in Connection \ free2 : \E y \in Holder : hold2[y] = c
    BY <2>1 DEF Placed
  <2> QED BY <1>2, <2>1, <2>2, <2>3, <2>4 DEF Placed
<1> QED BY <1>1, <1>2

\* A holder of none takes an idle one.
LEMMA Grab ==
  ASSUME NEW free, NEW hold, Placed(free, hold), NEW x \in Holder, hold[x] = None,
         NEW c \in free
  PROVE  Placed(free \ {c}, [hold EXCEPT ![x] = c])
<1> DEFINE hold2 == [hold EXCEPT ![x] = c]
<1>1. /\ c \in Connection /\ c # None
      /\ hold2 \in [Holder -> Connection \cup {None}]
      /\ hold2[x] = c /\ \A y \in Holder : y # x => hold2[y] = hold[y]
  BY ExecutionAssumption DEF Placed
<1>2. \A y \in Holder : hold2[y] \notin free \ {c}
  BY <1>1 DEF Placed
<1>3. \A y, z \in Holder : hold2[y] = hold2[z] /\ hold2[y] # None => y = z
  BY <1>1 DEF Placed
<1>4. \A d \in Connection \ (free \ {c}) : \E y \in Holder : hold2[y] = d
  <2> SUFFICES ASSUME NEW d \in Connection \ (free \ {c}) PROVE \E y \in Holder : hold2[y] = d
    OBVIOUS
  <2>1. CASE d = c
    BY <2>1, <1>1
  <2>2. CASE d # c
    BY <2>2, <1>1, ExecutionAssumption DEF Placed
  <2> QED BY <2>1, <2>2
<1> QED BY <1>1, <1>2, <1>3, <1>4 DEF Placed

\* A connection passes from one holder to another.
LEMMA Pass ==
  ASSUME NEW free, NEW hold, Placed(free, hold), NEW x \in Holder, NEW y \in Holder,
         x # y, hold[y] = None
  PROVE  Placed(free, [hold EXCEPT ![x] = None, ![y] = hold[x]])
<1> DEFINE hold2 == [hold EXCEPT ![x] = None, ![y] = hold[x]]
<1>1. /\ hold2 \in [Holder -> Connection \cup {None}]
      /\ hold2[x] = None /\ hold2[y] = hold[x]
      /\ \A z \in Holder : z # x /\ z # y => hold2[z] = hold[z]
  BY DEF Placed
<1>2. \A z \in Holder : hold2[z] \notin free
  BY <1>1, ExecutionAssumption DEF Placed
<1>3. \A z, w \in Holder : hold2[z] = hold2[w] /\ hold2[z] # None => z = w
  BY <1>1 DEF Placed
<1>4. \A d \in Connection \ free : \E z \in Holder : hold2[z] = d
  BY <1>1, ExecutionAssumption DEF Placed
<1> QED BY <1>1, <1>2, <1>3, <1>4 DEF Placed
-----------------------------------------------------------------------------
(* A step changes one task's records, and one place in line.               *)

Touches(t) ==
  /\ call' = [call EXCEPT ![t] = call'[t]]
  /\ stream' = [stream EXCEPT ![t] = stream'[t]]
  /\ tx' = [tx EXCEPT ![t] = tx'[t]]
  /\ stored' = [stored EXCEPT ![t] = stored'[t]]

LEMMA OthersStay ==
  ASSUME IInv, NEW t \in Task, Touches(t)
  PROVE  /\ Domains'
         /\ \A u \in Task \ {t} : /\ call'[u] = call[u] /\ stream'[u] = stream[u]
                                  /\ tx'[u] = tx[u] /\ stored'[u] = stored[u]
BY DEF IInv, Domains, Touches

LEMMA LocalFrame ==
  ASSUME IInv, NEW t \in Task, Touches(t), Local(t)'
  PROVE  \A u \in Task : Local(u)'
<1> SUFFICES ASSUME NEW u \in Task, u # t PROVE Local(u)'
  OBVIOUS
<1>1. /\ call'[u] = call[u] /\ stream'[u] = stream[u]
      /\ tx'[u] = tx[u] /\ stored'[u] = stored[u]
  BY OthersStay
<1> QED BY <1>1 DEF IInv, Local

\* The stage of a task's call and of its stream, before and after.
LEMMA AtOf ==
  /\ \A t \in Task : /\ <<t, "call">> \in Waiter /\ <<t, "stream">> \in Waiter
                     /\ At[<<t, "call">>] = call[t].stage
                     /\ At[<<t, "stream">>] = stream[t].stage
                     /\ At'[<<t, "call">>] = call'[t].stage
                     /\ At'[<<t, "stream">>] = stream'[t].stage
  /\ \A x \in Waiter : \E t \in Task : x \in {<<t, "call">>, <<t, "stream">>}
BY DEF At, Waiter

LEMMA OthersAt ==
  ASSUME IInv, NEW t \in Task, Touches(t)
  PROVE  \A x \in Waiter \ {<<t, "call">>, <<t, "stream">>} : At'[x] = At[x]
<1> SUFFICES ASSUME NEW x \in Waiter, x \notin {<<t, "call">>, <<t, "stream">>}
             PROVE  At'[x] = At[x]
  OBVIOUS
<1>1. PICK u \in Task : x \in {<<u, "call">>, <<u, "stream">>}
  BY AtOf
<1>2. u # t
  BY <1>1
<1>3. call'[u] = call[u] /\ stream'[u] = stream[u]
  BY <1>2, OthersStay
<1>4. CASE x = <<u, "call">>
  <2>1. At'[x] = call'[u].stage /\ At[x] = call[u].stage
    BY <1>4, AtOf
  <2> QED BY <1>3, <2>1
<1>5. CASE x = <<u, "stream">>
  <2>1. At'[x] = stream'[u].stage /\ At[x] = stream[u].stage
    BY <1>5, AtOf
  <2> QED BY <1>3, <2>1
<1> QED BY <1>1, <1>4, <1>5

\* Who waits is said of one of the two, when the other goes on waiting or not.
LEMMA OnlyCall ==
  ASSUME IInv, NEW t \in Task, Touches(t),
         stream'[t].stage = "acquire" <=> stream[t].stage = "acquire"
  PROVE  \A x \in Waiter \ {<<t, "call">>} : At'[x] = "acquire" <=> At[x] = "acquire"
<1> SUFFICES ASSUME NEW x \in Waiter, x # <<t, "call">>
             PROVE  At'[x] = "acquire" <=> At[x] = "acquire"
  OBVIOUS
<1>1. CASE x = <<t, "stream">>
  BY <1>1, AtOf
<1>2. CASE x # <<t, "stream">>
  BY <1>2, OthersAt
<1> QED BY <1>1, <1>2

LEMMA OnlyStream ==
  ASSUME IInv, NEW t \in Task, Touches(t),
         call'[t].stage = "acquire" <=> call[t].stage = "acquire"
  PROVE  \A x \in Waiter \ {<<t, "stream">>} : At'[x] = "acquire" <=> At[x] = "acquire"
<1> SUFFICES ASSUME NEW x \in Waiter, x # <<t, "stream">>
             PROVE  At'[x] = "acquire" <=> At[x] = "acquire"
  OBVIOUS
<1>1. CASE x = <<t, "call">>
  BY <1>1, AtOf
<1>2. CASE x # <<t, "call">>
  BY <1>2, OthersAt
<1> QED BY <1>1, <1>2

\* The line: nobody joins or leaves, one joins at the end, one leaves from
\* anywhere.
LEMMA LineStays ==
  ASSUME IInv, NEW t \in Task, Touches(t), waiting' = waiting,
         call'[t].stage = "acquire" <=> call[t].stage = "acquire",
         stream'[t].stage = "acquire" <=> stream[t].stage = "acquire"
  PROVE  Line'
<1>1. \A x \in Waiter : At'[x] = "acquire" <=> At[x] = "acquire"
  BY OnlyCall, AtOf
<1>2. \A x \in Waiter : InLine(x)' <=> InLine(x)
  BY DEF InLine
<1> QED BY <1>1, <1>2 DEF IInv, Line

LEMMA LineJoined ==
  ASSUME IInv, NEW x \in Waiter, waiting' = Append(waiting, x),
         At[x] # "acquire", At'[x] = "acquire",
         \A y \in Waiter \ {x} : At'[y] = "acquire" <=> At[y] = "acquire"
  PROVE  Line'
<1>1. waiting \in Seq(Waiter) /\ DOMAIN waiting = 1..Len(waiting) /\ Len(waiting) \in Nat
  BY LenProperties DEF IInv, Line
<1>2. /\ waiting' \in Seq(Waiter) /\ DOMAIN waiting' = 1..(Len(waiting) + 1)
      /\ \A i \in 1..Len(waiting) : waiting'[i] = waiting[i]
      /\ waiting'[Len(waiting) + 1] = x
  BY <1>1, AppendProperties, LenProperties
<1>3. \A i \in DOMAIN waiting : waiting[i] # x
  BY DEF IInv, Line, InLine
<1>4. \A i, j \in DOMAIN waiting' : waiting'[i] = waiting'[j] => i = j
  BY <1>1, <1>2, <1>3 DEF IInv, Line
<1>5. \A y \in Waiter : At'[y] = "acquire" <=> \E i \in DOMAIN waiting' : waiting'[i] = y
  <2> SUFFICES ASSUME NEW y \in Waiter
               PROVE  At'[y] = "acquire" <=> \E i \in DOMAIN waiting' : waiting'[i] = y
    OBVIOUS
  <2>1. CASE y = x
    BY <2>1, <1>1, <1>2
  <2>2. CASE y # x
    <3>1. At'[y] = "acquire" <=> \E i \in DOMAIN waiting : waiting[i] = y
      BY <2>2 DEF IInv, Line, InLine
    <3>2. \A i \in DOMAIN waiting' : i \in DOMAIN waiting \/ waiting'[i] = x
      BY <1>1, <1>2
    <3>3. \A i \in DOMAIN waiting : i \in DOMAIN waiting' /\ waiting'[i] = waiting[i]
      BY <1>1, <1>2
    <3> QED BY <2>2, <3>1, <3>2, <3>3
  <2> QED BY <2>1, <2>2
<1> QED BY <1>2, <1>4, <1>5 DEF Line, InLine

LEMMA LineLeft ==
  ASSUME IInv, NEW x \in Waiter, At'[x] # "acquire",
         \A y \in Waiter \ {x} : At'[y] = "acquire" <=> At[y] = "acquire",
         NEW k \in DOMAIN waiting, waiting[k] = x,
         waiting' \in Seq(Waiter), Len(waiting') = Len(waiting) - 1,
         \A i \in 1..(Len(waiting) - 1) :
           waiting'[i] = IF i < k THEN waiting[i] ELSE waiting[i + 1]
  PROVE  Line'
<1>1. waiting \in Seq(Waiter) /\ DOMAIN waiting = 1..Len(waiting) /\ Len(waiting) \in Nat
  BY LenProperties DEF IInv, Line
<1>2. DOMAIN waiting' = 1..(Len(waiting) - 1)
  BY LenProperties
<1> DEFINE old(i) == IF i < k THEN i ELSE i + 1
<1>3. \A i \in DOMAIN waiting' : /\ old(i) \in DOMAIN waiting /\ old(i) # k
                                 /\ waiting'[i] = waiting[old(i)]
  BY <1>1, <1>2
<1>4. \A i, j \in DOMAIN waiting' : old(i) = old(j) => i = j
  BY <1>1, <1>2
<1>5. \A i \in DOMAIN waiting : i # k => \E j \in DOMAIN waiting' : old(j) = i
  <2> SUFFICES ASSUME NEW i \in DOMAIN waiting, i # k
               PROVE  \E j \in DOMAIN waiting' : old(j) = i
    OBVIOUS
  <2>1. CASE i < k
    BY <2>1, <1>1, <1>2
  <2>2. CASE i > k
    <3>1. i - 1 \in DOMAIN waiting' /\ old(i - 1) = i
      BY <2>2, <1>1, <1>2
    <3> QED BY <3>1
  <2> QED BY <2>1, <2>2, <1>1
<1> HIDE DEF old
<1>6. \A i, j \in DOMAIN waiting' : waiting'[i] = waiting'[j] => i = j
  BY <1>3, <1>4 DEF IInv, Line
<1>7. \A y \in Waiter : At'[y] = "acquire" <=> \E i \in DOMAIN waiting' : waiting'[i] = y
  <2> SUFFICES ASSUME NEW y \in Waiter
               PROVE  At'[y] = "acquire" <=> \E i \in DOMAIN waiting' : waiting'[i] = y
    OBVIOUS
  <2>1. CASE y = x
    BY <2>1, <1>3 DEF IInv, Line
  <2>2. CASE y # x
    <3>1. At'[y] = "acquire" <=> \E i \in DOMAIN waiting : waiting[i] = y
      BY <2>2 DEF IInv, Line, InLine
    <3>2. ASSUME NEW i \in DOMAIN waiting, waiting[i] = y
          PROVE  \E j \in DOMAIN waiting' : waiting'[j] = y
      <4>1. i # k
        BY <2>2, <3>2
      <4>2. PICK j \in DOMAIN waiting' : old(j) = i
        BY <1>5, <4>1
      <4>3. waiting'[j] = waiting[old(j)]
        BY <1>3
      <4> QED BY <3>2, <4>2, <4>3
    <3>3. ASSUME NEW i \in DOMAIN waiting', waiting'[i] = y
          PROVE  \E j \in DOMAIN waiting : waiting[j] = y
      BY <1>3, <3>3
    <3> QED BY <3>1, <3>2, <3>3
  <2> QED BY <2>1, <2>2
<1> QED BY <1>6, <1>7 DEF Line, InLine

\* LeaveLine, of one that waits or does not, and Tail, of the first.
LEMMA LineWithout ==
  ASSUME IInv, NEW x \in Waiter, At'[x] # "acquire", LeaveLine(x),
         \A y \in Waiter \ {x} : At'[y] = "acquire" <=> At[y] = "acquire"
  PROVE  Line'
<1>1. waiting \in Seq(Waiter) /\ DOMAIN waiting = 1..Len(waiting) /\ Len(waiting) \in Nat
  BY LenProperties DEF IInv, Line
<1>2. CASE InLine(x)
  <2>1. PICK i \in DOMAIN waiting : waiting[i] = x /\ waiting' = RemoveAt(waiting, i)
    BY <1>2 DEF LeaveLine
  <2> DEFINE front == SubSeq(waiting, 1, i - 1)
             back == SubSeq(waiting, i + 1, Len(waiting))
  <2>2. /\ front \in Seq(Waiter) /\ Len(front) = i - 1
        /\ \A j \in 1..(i - 1) : front[j] = waiting[j]
    <3>1. 1 \in Int /\ i - 1 \in Int /\ \A j \in 1..(i - 1) : waiting[j] \in Waiter
      BY <1>1, ElementOfSeq
    <3>2. /\ front \in Seq(Waiter) /\ Len(front) = IF 1 <= i - 1 THEN (i - 1) - 1 + 1 ELSE 0
          /\ \A j \in 1..((i - 1) - 1 + 1) : front[j] = waiting[1 + j - 1]
      BY <3>1, SubSeqProperties
    <3> HIDE DEF front
    <3> QED BY <3>2, <1>1
  <2>3. /\ back \in Seq(Waiter) /\ Len(back) = Len(waiting) - i
        /\ \A j \in 1..(Len(waiting) - i) : back[j] = waiting[i + j]
    <3>1. i + 1 \in Int /\ Len(waiting) \in Int /\ \A j \in (i + 1)..Len(waiting) : waiting[j] \in Waiter
      BY <1>1, ElementOfSeq
    <3>2. /\ back \in Seq(Waiter)
          /\ Len(back) = IF i + 1 <= Len(waiting) THEN Len(waiting) - (i + 1) + 1 ELSE 0
          /\ \A j \in 1..(Len(waiting) - (i + 1) + 1) : back[j] = waiting[(i + 1) + j - 1]
      BY <3>1, SubSeqProperties
    <3> HIDE DEF back
    <3>3. /\ i \in 1..Len(waiting) /\ Len(waiting) - (i + 1) + 1 = Len(waiting) - i
          /\ \A j \in 1..(Len(waiting) - i) : (i + 1) + j - 1 = i + j
      BY <1>1
    <3>4. Len(back) = Len(waiting) - i
      BY <3>2, <3>3, <1>1
    <3>5. \A j \in 1..(Len(waiting) - i) : back[j] = waiting[i + j]
      BY <3>2, <3>3
    <3> QED BY <3>2, <3>4, <3>5
  <2>4. waiting' = front \o back
    BY <2>1 DEF RemoveAt
  <2> HIDE DEF front, back
  <2>5. /\ waiting' \in Seq(Waiter) /\ Len(waiting') = Len(front) + Len(back)
        /\ \A j \in 1..(Len(front) + Len(back)) :
             waiting'[j] = IF j <= Len(front) THEN front[j] ELSE back[j - Len(front)]
    BY <2>2, <2>3, <2>4, ConcatProperties
  <2>6. Len(waiting') = Len(waiting) - 1
    BY <2>2, <2>3, <2>5, <1>1
  <2>7. \A j \in 1..(Len(waiting) - 1) :
          waiting'[j] = IF j < i THEN waiting[j] ELSE waiting[j + 1]
    <3> SUFFICES ASSUME NEW j \in 1..(Len(waiting) - 1)
                 PROVE  waiting'[j] = IF j < i THEN waiting[j] ELSE waiting[j + 1]
      OBVIOUS
    <3>1. CASE j < i
      BY <3>1, <2>2, <2>3, <2>5, <1>1
    <3>2. CASE ~(j < i)
      <4>1. j - (i - 1) \in 1..(Len(waiting) - i) /\ i + (j - (i - 1)) = j + 1
        BY <3>2, <1>1
      <4>2. waiting'[j] = back[j - (i - 1)]
        BY <3>2, <2>2, <2>3, <2>5, <1>1
      <4> QED BY <3>2, <4>1, <4>2, <2>3
    <3> QED BY <3>1, <3>2
  <2> QED BY <2>1, <2>5, <2>6, <2>7, LineLeft
<1>3. CASE ~InLine(x)
  <2>1. waiting' = waiting /\ At[x] # "acquire"
    BY <1>3 DEF LeaveLine, IInv, Line
  <2>2. \A y \in Waiter : InLine(y)' <=> InLine(y)
    BY <2>1 DEF InLine
  <2>3. \A y \in Waiter : At'[y] = "acquire" <=> At[y] = "acquire"
    BY <2>1
  <2> QED BY <2>1, <2>2, <2>3 DEF IInv, Line
<1> QED BY <1>2, <1>3

LEMMA LineAfterFirst ==
  ASSUME IInv, NEW x \in Waiter, At'[x] # "acquire",
         \A y \in Waiter \ {x} : At'[y] = "acquire" <=> At[y] = "acquire",
         waiting # <<>>, Head(waiting) = x, waiting' = Tail(waiting)
  PROVE  Line'
<1>1. waiting \in Seq(Waiter) /\ DOMAIN waiting = 1..Len(waiting) /\ Len(waiting) \in Nat
  BY LenProperties DEF IInv, Line
<1>2. Len(waiting) > 0 /\ 1 \in DOMAIN waiting /\ waiting[1] = x
  BY <1>1, EmptySeq
<1>3. /\ waiting' \in Seq(Waiter) /\ Len(waiting') = Len(waiting) - 1
      /\ \A i \in 1..(Len(waiting) - 1) : waiting'[i] = waiting[i + 1]
  BY <1>1, HeadTailProperties
<1>4. \A i \in 1..(Len(waiting) - 1) :
        waiting'[i] = IF i < 1 THEN waiting[i] ELSE waiting[i + 1]
  BY <1>1, <1>3
<1> QED BY <1>2, <1>3, <1>4, LineLeft

\* The first in line waits.
LEMMA FirstWaits ==
  ASSUME IInv, waiting # <<>>
  PROVE  At[Head(waiting)] = "acquire"
<1>1. waiting \in Seq(Waiter) /\ 1 \in DOMAIN waiting /\ waiting[1] = Head(waiting)
      /\ waiting[1] \in Waiter
  BY EmptySeq, LenProperties, ElementOfSeq DEF IInv, Line
<1> QED BY <1>1 DEF IInv, Line, InLine

\* The same, of a task's call and of its stream.
LEMMA CallJoins ==
  ASSUME IInv, NEW t \in Task, Touches(t), waiting' = Append(waiting, <<t, "call">>),
         call[t].stage # "acquire", call'[t].stage = "acquire",
         stream'[t].stage = "acquire" <=> stream[t].stage = "acquire"
  PROVE  Line'
BY OnlyCall, AtOf, LineJoined

LEMMA StreamJoins ==
  ASSUME IInv, NEW t \in Task, Touches(t), waiting' = Append(waiting, <<t, "stream">>),
         stream[t].stage # "acquire", stream'[t].stage = "acquire",
         call'[t].stage = "acquire" <=> call[t].stage = "acquire"
  PROVE  Line'
BY OnlyStream, AtOf, LineJoined

LEMMA CallLeaves ==
  ASSUME IInv, NEW t \in Task, Touches(t), LeaveLine(<<t, "call">>), call'[t].stage # "acquire",
         stream'[t].stage = "acquire" <=> stream[t].stage = "acquire"
  PROVE  Line'
BY OnlyCall, AtOf, LineWithout

LEMMA StreamLeaves ==
  ASSUME IInv, NEW t \in Task, Touches(t), LeaveLine(<<t, "stream">>),
         stream'[t].stage # "acquire", call'[t].stage = "acquire" <=> call[t].stage = "acquire"
  PROVE  Line'
BY OnlyStream, AtOf, LineWithout
-----------------------------------------------------------------------------
(* The place of a connection, by what a step does with it.                 *)

\* A holder's place, read off its task's records.
LEMMA HoldOf ==
  /\ Hold = [x \in Holder |-> Hold[x]]
  /\ \A t \in Task : /\ Hold[<<t, "call">>] = call[t].conn
                     /\ Hold[<<t, "stream">>] = stream[t].conn
                     /\ Hold[<<t, "tx">>] = tx[t].conn
  /\ \A x \in Holder : \E t \in Task : x \in {<<t, "call">>, <<t, "stream">>, <<t, "tx">>}
BY DEF Hold, Holder

LEMMA HoldOfNext ==
  /\ Hold' = [x \in Holder |-> Hold'[x]]
  /\ \A t \in Task : /\ Hold'[<<t, "call">>] = call'[t].conn
                     /\ Hold'[<<t, "stream">>] = stream'[t].conn
                     /\ Hold'[<<t, "tx">>] = tx'[t].conn
BY DEF Hold, Holder

LEMMA OthersHold ==
  ASSUME IInv, NEW t \in Task, Touches(t)
  PROVE  \A x \in Holder \ {<<t, "call">>, <<t, "stream">>, <<t, "tx">>} : Hold'[x] = Hold[x]
<1> SUFFICES ASSUME NEW x \in Holder, x \notin {<<t, "call">>, <<t, "stream">>, <<t, "tx">>}
             PROVE  Hold'[x] = Hold[x]
  OBVIOUS
<1>1. PICK u \in Task : x \in {<<u, "call">>, <<u, "stream">>, <<u, "tx">>}
  BY HoldOf
<1>2. u # t
  BY <1>1
<1>3. call'[u] = call[u] /\ stream'[u] = stream[u] /\ tx'[u] = tx[u]
  BY <1>2, OthersStay
<1>4. CASE x = <<u, "call">>
  BY <1>3, <1>4, HoldOf, HoldOfNext, ZenonT(40)
<1>5. CASE x = <<u, "stream">>
  BY <1>3, <1>5, HoldOf, HoldOfNext, ZenonT(40)
<1>6. CASE x = <<u, "tx">>
  BY <1>3, <1>6, HoldOf, HoldOfNext, ZenonT(40)
<1> QED BY <1>1, <1>4, <1>5, <1>6

\* All stay with their holders.
LEMMA PlacesStay ==
  ASSUME IInv, NEW t \in Task, Touches(t), idle' = idle,
         call'[t].conn = call[t].conn, stream'[t].conn = stream[t].conn, tx'[t].conn = tx[t].conn
  PROVE  Placed(idle, Hold)'
<1>1. \A x \in Holder : Hold'[x] = Hold[x]
  BY OthersHold, HoldOf, HoldOfNext
<1>2. Hold' = Hold
  BY <1>1, HoldOf, HoldOfNext
<1> QED BY <1>2 DEF IInv

\* Where the one holder x of t's changes.
LEMMA OneChanges ==
  ASSUME IInv, NEW t \in Task, Touches(t), NEW conn,
         NEW x \in {<<t, "call">>, <<t, "stream">>, <<t, "tx">>}, Hold'[x] = conn,
         x # <<t, "call">> => call'[t].conn = call[t].conn,
         x # <<t, "stream">> => stream'[t].conn = stream[t].conn,
         x # <<t, "tx">> => tx'[t].conn = tx[t].conn
  PROVE  x \in Holder /\ Hold' = [Hold EXCEPT ![x] = conn]
<1>1. x \in Holder
  BY DEF Holder
<1>2. \A y \in Holder : y # x => Hold'[y] = Hold[y]
  <2> SUFFICES ASSUME NEW y \in Holder, y # x PROVE Hold'[y] = Hold[y]
    OBVIOUS
  <2>1. CASE y = <<t, "call">>
    BY <2>1, HoldOf, HoldOfNext
  <2>2. CASE y = <<t, "stream">>
    BY <2>2, HoldOf, HoldOfNext
  <2>3. CASE y = <<t, "tx">>
    BY <2>3, HoldOf, HoldOfNext
  <2>4. CASE y \notin {<<t, "call">>, <<t, "stream">>, <<t, "tx">>}
    BY <2>4, OthersHold
  <2> QED BY <2>1, <2>2, <2>3, <2>4
<1> QED BY <1>1, <1>2, HoldOf, HoldOfNext

LEMMA CallReturns ==
  ASSUME IInv, NEW t \in Task, Touches(t), GiveBack(call[t].conn), call'[t].conn = None,
         stream'[t].conn = stream[t].conn, tx'[t].conn = tx[t].conn
  PROVE  Placed(idle, Hold)'
<1>1. Hold' = [Hold EXCEPT ![<<t, "call">>] = None] /\ <<t, "call">> \in Holder
  BY OneChanges, HoldOfNext
<1>2. Placed(IF Hold[<<t, "call">>] = None THEN idle ELSE idle \cup {Hold[<<t, "call">>]},
             [Hold EXCEPT ![<<t, "call">>] = None])
  BY <1>1, Release DEF IInv
<1> QED BY <1>1, <1>2, HoldOf DEF GiveBack

LEMMA StreamReturns ==
  ASSUME IInv, NEW t \in Task, Touches(t), GiveBack(stream[t].conn), stream'[t].conn = None,
         call'[t].conn = call[t].conn, tx'[t].conn = tx[t].conn
  PROVE  Placed(idle, Hold)'
<1>1. Hold' = [Hold EXCEPT ![<<t, "stream">>] = None] /\ <<t, "stream">> \in Holder
  BY OneChanges, HoldOfNext
<1>2. Placed(IF Hold[<<t, "stream">>] = None THEN idle ELSE idle \cup {Hold[<<t, "stream">>]},
             [Hold EXCEPT ![<<t, "stream">>] = None])
  BY <1>1, Release DEF IInv
<1> QED BY <1>1, <1>2, HoldOf DEF GiveBack

LEMMA TxReturns ==
  ASSUME IInv, NEW t \in Task, Touches(t), GiveBack(tx[t].conn), tx'[t].conn = None,
         call'[t].conn = call[t].conn, stream'[t].conn = stream[t].conn
  PROVE  Placed(idle, Hold)'
<1>1. Hold' = [Hold EXCEPT ![<<t, "tx">>] = None] /\ <<t, "tx">> \in Holder
  BY OneChanges, HoldOfNext
<1>2. Placed(IF Hold[<<t, "tx">>] = None THEN idle ELSE idle \cup {Hold[<<t, "tx">>]},
             [Hold EXCEPT ![<<t, "tx">>] = None])
  BY <1>1, Release DEF IInv
<1> QED BY <1>1, <1>2, HoldOf DEF GiveBack

LEMMA CallTakes ==
  ASSUME IInv, NEW t \in Task, Touches(t), NEW c \in idle, idle' = idle \ {c},
         call[t].conn = None, call'[t].conn = c,
         stream'[t].conn = stream[t].conn, tx'[t].conn = tx[t].conn
  PROVE  Placed(idle, Hold)'
<1>1. Hold' = [Hold EXCEPT ![<<t, "call">>] = c] /\ <<t, "call">> \in Holder
  BY OneChanges, HoldOfNext
<1>2. Hold[<<t, "call">>] = None
  BY HoldOf
<1> QED BY <1>1, <1>2, Grab DEF IInv

LEMMA StreamTakes ==
  ASSUME IInv, NEW t \in Task, Touches(t), NEW c \in idle, idle' = idle \ {c},
         stream[t].conn = None, stream'[t].conn = c,
         call'[t].conn = call[t].conn, tx'[t].conn = tx[t].conn
  PROVE  Placed(idle, Hold)'
<1>1. Hold' = [Hold EXCEPT ![<<t, "stream">>] = c] /\ <<t, "stream">> \in Holder
  BY OneChanges, HoldOfNext
<1>2. Hold[<<t, "stream">>] = None
  BY HoldOf
<1> QED BY <1>1, <1>2, Grab DEF IInv

\* A BEGIN's connection becomes the transaction's.
LEMMA TxTakesOver ==
  ASSUME IInv, NEW t \in Task, Touches(t), idle' = idle,
         tx[t].conn = None, tx'[t].conn = call[t].conn, call'[t].conn = None,
         stream'[t].conn = stream[t].conn
  PROVE  Placed(idle, Hold)'
<1> DEFINE x == <<t, "call">>
           y == <<t, "tx">>
<1>1. x \in Holder /\ y \in Holder /\ x # y /\ Hold[y] = None
  BY HoldOf DEF Holder
<1>2. \A z \in Holder : z # x /\ z # y => Hold'[z] = Hold[z]
  BY OthersHold, HoldOf, HoldOfNext
<1>3. Hold'[x] = None /\ Hold'[y] = Hold[x]
  BY HoldOf, HoldOfNext
<1>4. Hold' = [Hold EXCEPT ![x] = None, ![y] = Hold[x]]
  BY <1>1, <1>2, <1>3, HoldOf, HoldOfNext
<1>5. Placed(idle, [Hold EXCEPT ![x] = None, ![y] = Hold[x]])
  BY <1>1, Pass DEF IInv
<1> QED BY <1>4, <1>5
-----------------------------------------------------------------------------
(* One task's records, before and after.                                   *)

\* What the ways to end leave, field by field.
LEMMA EndsLeaves ==
  ASSUME IInv, NEW t \in Task, NEW end \in End, NEW got \in Seq(Row), Ends(t, end, got)
  PROVE  /\ call' = [call EXCEPT ![t] = call'[t]] /\ call'[t] \in Future(t)
         /\ call'[t].op = call[t].op /\ call'[t].of = call[t].of /\ call'[t].stage = "ended"
         /\ call'[t].conn = None /\ call'[t].ran = call[t].ran
         /\ call'[t].end = end /\ call'[t].got = got
<1> DEFINE new == [call[t] EXCEPT !.stage = "ended", !.conn = None, !.end = end, !.got = got]
<1>1. DOMAIN call = Task /\ call[t] \in Future(t)
  BY DEF IInv, Domains, Local, CallOK
<1>2. call'[t] = new /\ call' = [call EXCEPT ![t] = new]
  BY <1>1 DEF Ends
<1>3. "ended" \in Stage /\ None \in Connection \cup {None}
  BY DEF Stage
<1>4. /\ new \in Future(t) /\ new.op = call[t].op /\ new.of = call[t].of
      /\ new.stage = "ended" /\ new.conn = None /\ new.ran = call[t].ran
      /\ new.end = end /\ new.got = got
  BY <1>1, <1>3 DEF Future
<1> QED BY <1>2, <1>4

LEMMA StreamEndsLeaves ==
  ASSUME IInv, NEW t \in Task, NEW end \in End, NEW stage \in {"over", "ended"},
         stream' = [stream EXCEPT ![t].stage = stage, ![t].conn = None, ![t].end = end]
  PROVE  /\ stream' = [stream EXCEPT ![t] = stream'[t]] /\ stream'[t] \in Future(t)
         /\ stream'[t].op = stream[t].op /\ stream'[t].of = stream[t].of
         /\ stream'[t].stage = stage /\ stream'[t].conn = None
         /\ stream'[t].ran = stream[t].ran
         /\ stream'[t].end = end /\ stream'[t].got = stream[t].got
<1> DEFINE new == [stream[t] EXCEPT !.stage = stage, !.conn = None, !.end = end]
<1>1. DOMAIN stream = Task /\ stream[t] \in Future(t)
  BY DEF IInv, Domains, Local, StreamOK
<1>2. stream'[t] = new /\ stream' = [stream EXCEPT ![t] = new]
  BY <1>1
<1>3. stage \in Stage /\ None \in Connection \cup {None}
  BY DEF Stage
<1>4. /\ new \in Future(t) /\ new.op = stream[t].op /\ new.of = stream[t].of
      /\ new.stage = stage /\ new.conn = None /\ new.ran = stream[t].ran
      /\ new.end = end /\ new.got = stream[t].got
  BY <1>1, <1>3 DEF Future
<1> QED BY <1>2, <1>4

\* A step on t keeps the invariant if it keeps t's part of it.
LEMMA StepOf ==
  ASSUME IInv, NEW t \in Task, Touches(t), Local(t)', Line', Placed(idle, Hold)'
  PROVE  IInv'
<1>1. \A u \in Task : Local(u)'
  BY LocalFrame
<1>2. Domains'
  BY OthersStay
<1> QED BY <1>1, <1>2 DEF IInv

LEMMA StartOK ==
  ASSUME NEW t \in Task, NEW c \in Calls[t]
  PROVE  /\ Start(c) \in Future(t) /\ c # None /\ c.op \in Terminal \cup {"stream"}
         /\ c.stmt.rows \in Seq(Row) /\ Len(c.stmt.rows) \in Nat
<1>1. <<>> \in Seq(Row)
  BY EmptySeq
<1> QED BY <1>1, CallShape, LenProperties DEF Start, Future, Stage, End

LEMMA AwaitKeeps ==
  ASSUME IInv, NEW t \in Task, NEW c \in Calls[t], Await(t, c)
  PROVE  IInv'
<1>1. /\ call' = [call EXCEPT ![t] = Start(c)] /\ UNCHANGED <<idle, waiting, stream, tx, stored>>
      /\ call[t].stage = "ended" /\ c.op \in Terminal
  BY DEF Await, Free
<1>2. call'[t] = Start(c) /\ Touches(t)
  BY <1>1 DEF Touches, IInv, Domains
<1>3. CallOK(t, Start(c)) /\ CallRan(Start(c)) /\ Gives(Start(c))
  BY <1>1, StartOK DEF CallOK, CallRan, Gives, Start, Underway, Terminal, NothingRan, ItRan, BindEnd
<1>4. Together(Start(c), stream[t], tx[t])
  BY <1>1 DEF Together, Start, Terminal, IInv, Local
<1>5. Local(t)'
  BY <1>1, <1>2, <1>3, <1>4 DEF IInv, Local
<1>6. Line'
  BY <1>1, <1>2, LineStays DEF Start
<1>7. call[t].conn = None
  BY <1>1 DEF IInv, Local, CallOK
<1>8. Placed(idle, Hold)'
  BY <1>1, <1>2, <1>7, PlacesStay DEF Start
<1> QED BY <1>2, <1>5, <1>6, <1>8, StepOf

LEMMA OpenKeeps ==
  ASSUME IInv, NEW t \in Task, NEW c \in Calls[t], Open(t, c)
  PROVE  IInv'
<1> DEFINE s == IF BoundAs(c.stmt) = "all" THEN [Start(c) EXCEPT !.stage = "unpolled"]
                ELSE [Start(c) EXCEPT !.stage = "ended", !.end = c.stmt.binds]
<1>1. /\ stream' = [stream EXCEPT ![t] = s] /\ UNCHANGED <<idle, waiting, call, tx, stored>>
      /\ call[t].stage = "ended" /\ stream[t].stage = "ended" /\ c.op = "stream"
  BY DEF Open, Free, Streaming
<1>2. stream'[t] = s /\ Touches(t)
  BY <1>1 DEF Touches, IInv, Domains
<1>3. c.stmt.binds \in BindEnd /\ Start(c) \in Future(t) /\ BoundAs(c.stmt) = c.stmt.binds
  BY StartOK, CallShape DEF BoundAs
<1>4. /\ s \in Future(t) /\ s.op = "stream" /\ s.of = c /\ s.conn = None /\ ~s.ran /\ s.got = <<>>
      /\ \/ s.stage = "unpolled" /\ s.end = "pending" /\ c.stmt.binds = "all"
         \/ s.stage = "ended" /\ s.end = c.stmt.binds /\ s.end # "all"
  <2>1. Start(c).op = "stream" /\ Start(c).of = c /\ Start(c).conn = None /\ Start(c).ran = FALSE
        /\ Start(c).got = <<>> /\ Start(c).end = "pending"
    BY <1>1 DEF Start
  <2> HIDE DEF s
  <2>2. CASE c.stmt.binds = "all"
    <3>1. s = [Start(c) EXCEPT !.stage = "unpolled"] /\ "unpolled" \in Stage
      BY <2>2, <1>3 DEF s, Stage
    <3> QED BY <2>1, <2>2, <3>1, <1>3 DEF Future
  <2>3. CASE c.stmt.binds # "all"
    <3>1. /\ s = [Start(c) EXCEPT !.stage = "ended", !.end = c.stmt.binds]
          /\ "ended" \in Stage /\ c.stmt.binds \in End
      BY <2>3, <1>3 DEF s, Stage, End
    <3> QED BY <2>1, <2>3, <3>1, <1>3 DEF Future
  <2> QED BY <2>2, <2>3
<1> HIDE DEF s
<1>5. StreamOK(t, s) /\ StreamRan(s)
  BY <1>3, <1>4, StartOK DEF StreamOK, StreamRan, Live, BindEnd, NothingRan, ItRan
<1>6. FirstRows(s)
  BY <1>3, <1>4, StartOK, EmptySeq DEF FirstRows, BindEnd
<1>7. Together(call[t], s, tx[t])
  BY <1>1, <1>4 DEF Together, IInv, Local
<1>8. Local(t)'
  BY <1>1, <1>2, <1>5, <1>6, <1>7 DEF IInv, Local
<1>9. Line' /\ stream[t].conn = None
  BY <1>1, <1>2, <1>4, LineStays DEF IInv, Local, StreamOK
<1>10. Placed(idle, Hold)'
  BY <1>1, <1>2, <1>4, <1>9, PlacesStay
<1> QED BY <1>2, <1>8, <1>9, <1>10, StepOf

\* A future of no statement, just made.
Plain(op, stage) == [Nothing EXCEPT !.op = op, !.end = "pending", !.stage = stage]

LEMMA PlainOK ==
  ASSUME NEW t \in Task, NEW op \in {"next", "begin", "commit"},
         NEW stage \in {"acquire", "send", "poll"}
  PROVE  /\ Plain(op, stage).op = op /\ Plain(op, stage).of = None
         /\ Plain(op, stage).stage = stage /\ Plain(op, stage).conn = None
         /\ ~Plain(op, stage).ran /\ Plain(op, stage).end = "pending"
         /\ Plain(op, stage) \in Future(t)
<1>1. Nothing \in Future(t) /\ Nothing.of = None /\ Nothing.conn = None /\ Nothing.ran = FALSE
  BY EmptySeq DEF Nothing, Future, Stage, End
<1>2. /\ stage \in Stage /\ "pending" \in End
      /\ op \in Terminal \cup {"stream", "next", "begin", "commit", "none"}
  BY DEF Stage, End
<1> QED BY <1>1, <1>2 DEF Future, Plain

LEMMA NextRowKeeps ==
  ASSUME IInv, NEW t \in Task, NextRow(t)
  PROVE  IInv'
<1> DEFINE s == stream[t]
           c == Plain("next", "poll")
           stage == PolledOn(s)
           new == [s EXCEPT !.stage = stage]
<1>1. /\ call' = [call EXCEPT ![t] = c] /\ stream' = [stream EXCEPT ![t].stage = stage]
      /\ UNCHANGED <<idle, tx, stored>>
      /\ call[t].stage = "ended" /\ s.stage \notin {"over", "ended"}
      /\ IF s.stage = "unpolled" /\ s.of.on = "pool"
         THEN waiting' = Append(waiting, <<t, "stream">>) ELSE waiting' = waiting
  BY DEF NextRow, Free, Streaming, Plain
<1>2. /\ Local(t) /\ StreamOK(t, s) /\ StreamRan(s) /\ FirstRows(s) /\ s.stage \in Live
      /\ s.end = "pending" /\ s.of # None /\ s.of \in Calls[t] /\ s.of.on \in {"pool", "tx"}
  <2>1. Local(t) /\ StreamOK(t, s) /\ StreamRan(s) /\ FirstRows(s)
    BY DEF IInv, Local
  <2>2. s.stage \in Live /\ s.end = "pending" /\ s.of # None /\ s.of \in Calls[t]
    BY <1>1, <2>1 DEF StreamOK, Future
  <2> QED BY <2>1, <2>2, CallShape
<1>3. /\ stage \in {"acquire", "send", "refused", "open"}
      /\ stage = "acquire" => s.of.on # "tx" /\ s.stage \in {"unpolled", "acquire"}
      /\ stage = "open" <=> s.stage = "open"
      /\ s.conn # None => stage \in {"send", "refused", "open"}
      /\ s.stage = "unpolled" /\ s.of.on = "pool" => stage = "acquire"
      /\ ~(s.stage = "unpolled" /\ s.of.on = "pool") => (stage = "acquire" <=> s.stage = "acquire")
  BY <1>2 DEF PolledOn, Live, StreamOK
<1> HIDE DEF stage
<1>4. /\ c.op = "next" /\ c.of = None /\ c.stage = "poll" /\ c.conn = None /\ ~c.ran
      /\ c.end = "pending" /\ c \in Future(t)
  BY PlainOK
<1>5. stream'[t] = new /\ stream' = [stream EXCEPT ![t] = new] /\ call'[t] = c
  BY <1>1 DEF IInv, Domains
<1>6. /\ new \in Future(t) /\ new.op = s.op /\ new.of = s.of /\ new.stage = stage
      /\ new.conn = s.conn /\ new.ran = s.ran /\ new.end = s.end /\ new.got = s.got
  BY <1>2, <1>3 DEF StreamOK, Future, Stage
<1> HIDE DEF c, new
<1>7. Touches(t)
  BY <1>1, <1>5 DEF Touches, IInv, Domains
<1>8. CallOK(t, c) /\ CallRan(c) /\ Gives(c)
  BY <1>4 DEF CallOK, CallRan, Gives, Underway, Terminal
<1>9. StreamOK(t, new)
  BY <1>2, <1>3, <1>6 DEF StreamOK, Live
<1>10. StreamRan(new) /\ FirstRows(new)
  BY <1>2, <1>3, <1>6 DEF StreamRan, FirstRows, Live
<1>11. Together(c, new, tx[t])
  BY <1>3, <1>4, <1>6 DEF Together
<1>12. Local(t)'
  BY <1>1, <1>2, <1>5, <1>8, <1>9, <1>10, <1>11 DEF Local
<1>13. Line'
  <2>1. CASE s.stage = "unpolled" /\ s.of.on = "pool"
    BY <2>1, <1>1, <1>3, <1>4, <1>5, <1>6, <1>7, StreamJoins
  <2>2. CASE ~(s.stage = "unpolled" /\ s.of.on = "pool")
    BY <2>2, <1>1, <1>3, <1>4, <1>5, <1>6, <1>7, LineStays
  <2> QED BY <2>1, <2>2
<1>14. call[t].conn = None
  BY <1>1 DEF IInv, Local, CallOK
<1>15. Placed(idle, Hold)'
  BY <1>1, <1>4, <1>5, <1>6, <1>7, <1>14, PlacesStay
<1> QED BY <1>7, <1>12, <1>13, <1>15, StepOf

\* A stream that is let go of: what is said of it is true of what it was.
LEMMA LetGoOK ==
  ASSUME IInv, NEW t \in Task, Streaming(t), NEW end, LetGo(t, end),
         end = LeftEarly(stream[t])
  PROVE  /\ stream' = [stream EXCEPT ![t] = stream'[t]]
         /\ stream'[t].conn = None /\ stream'[t].stage = "ended"
         /\ StreamOK(t, stream'[t]) /\ StreamRan(stream'[t]) /\ FirstRows(stream'[t])
<1>1. StreamOK(t, stream[t]) /\ StreamRan(stream[t]) /\ FirstRows(stream[t])
  BY DEF IInv, Local
<1>2. stream[t].stage # "ended"
  BY DEF Streaming
<1>3. /\ end \in End
      /\ \/ end \in {"unpolled", "dropped"} /\ (end = "unpolled" => ~stream[t].ran)
         \/ end = "left" /\ stream[t].ran
         \/ end = stream[t].end /\ end # "pending"
  BY <1>1, <1>2 DEF StreamOK, StreamRan, LeftEarly, Live, End, Future
<1>4. stream' = [stream EXCEPT ![t].stage = "ended", ![t].conn = None, ![t].end = end]
  BY DEF LetGo
<1>5. /\ stream' = [stream EXCEPT ![t] = stream'[t]] /\ stream'[t] \in Future(t)
      /\ stream'[t].op = stream[t].op /\ stream'[t].of = stream[t].of
      /\ stream'[t].stage = "ended" /\ stream'[t].conn = None
      /\ stream'[t].ran = stream[t].ran
      /\ stream'[t].end = end /\ stream'[t].got = stream[t].got
  BY <1>3, <1>4, StreamEndsLeaves
<1>6. StreamOK(t, stream'[t])
  BY <1>1, <1>2, <1>3, <1>5 DEF StreamOK, Live
<1>7. StreamRan(stream'[t])
  BY <1>1, <1>3, <1>5 DEF StreamRan, NothingRan, ItRan, Live
<1>8. FirstRows(stream'[t])
  BY <1>1, <1>3, <1>5 DEF FirstRows
<1> QED BY <1>5, <1>6, <1>7, <1>8

LEMMA DropStreamKeeps ==
  ASSUME IInv, NEW t \in Task, DropStream(t)
  PROVE  IInv'
<1>1. /\ Streaming(t) /\ call[t].stage = "ended" /\ UNCHANGED <<call, tx, stored>>
      /\ LetGo(t, LeftEarly(stream[t])) /\ LeaveLine(<<t, "stream">>)
      /\ GiveBack(stream[t].conn)
  BY DEF DropStream, Free, ReturnedBy
<1>2. /\ stream' = [stream EXCEPT ![t] = stream'[t]]
      /\ stream'[t].conn = None /\ stream'[t].stage = "ended"
      /\ StreamOK(t, stream'[t]) /\ StreamRan(stream'[t]) /\ FirstRows(stream'[t])
  BY <1>1, LetGoOK
<1>3. Touches(t)
  BY <1>1, <1>2 DEF Touches, IInv, Domains
<1>4. Together(call[t], stream'[t], tx[t])
  BY <1>1, <1>2 DEF Together, IInv, Local
<1>5. Local(t)'
  BY <1>1, <1>2, <1>4 DEF IInv, Local
<1>6. Line'
  BY <1>1, <1>2, <1>3, StreamLeaves
<1>7. Placed(idle, Hold)'
  BY <1>1, <1>2, <1>3, StreamReturns
<1> QED BY <1>3, <1>5, <1>6, <1>7, StepOf

LEMMA BeginKeeps ==
  ASSUME IInv, NEW t \in Task, Begin(t)
  PROVE  IInv'
<1> DEFINE c == Plain("begin", "acquire")
<1>1. /\ call' = [call EXCEPT ![t] = c] /\ waiting' = Append(waiting, <<t, "call">>)
      /\ UNCHANGED <<idle, stream, tx, stored>>
      /\ call[t].stage = "ended" /\ tx[t].state = "none"
  BY DEF Begin, Free, Plain
<1>2. /\ c.op = "begin" /\ c.of = None /\ c.stage = "acquire" /\ c.conn = None /\ ~c.ran
      /\ c.end = "pending" /\ c \in Future(t)
  BY PlainOK
<1>3. call'[t] = c /\ Touches(t)
  BY <1>1 DEF Touches, IInv, Domains
<1> HIDE DEF c
<1>4. CallOK(t, c) /\ CallRan(c) /\ Gives(c)
  BY <1>2 DEF CallOK, CallRan, Gives, Underway, Terminal
<1>5. Together(c, stream[t], tx[t])
  BY <1>1, <1>2 DEF Together, TxOK, IInv, Local
<1>6. Local(t)'
  BY <1>1, <1>3, <1>4, <1>5 DEF IInv, Local
<1>7. Line'
  BY <1>1, <1>2, <1>3, CallJoins
<1>8. call[t].conn = None
  BY <1>1 DEF IInv, Local, CallOK
<1>9. Placed(idle, Hold)'
  BY <1>1, <1>2, <1>3, <1>8, PlacesStay
<1> QED BY <1>3, <1>6, <1>7, <1>9, StepOf

LEMMA CommitKeeps ==
  ASSUME IInv, NEW t \in Task, Commit(t)
  PROVE  IInv'
<1> DEFINE c == Plain("commit", "send")
<1>1. /\ call' = [call EXCEPT ![t] = c] /\ UNCHANGED <<idle, waiting, stream, tx, stored>>
      /\ call[t].stage = "ended"
  BY DEF Commit, Free, Plain
<1>2. /\ c.op = "commit" /\ c.of = None /\ c.stage = "send" /\ c.conn = None /\ ~c.ran
      /\ c.end = "pending" /\ c \in Future(t)
  BY PlainOK
<1>3. call'[t] = c /\ Touches(t)
  BY <1>1 DEF Touches, IInv, Domains
<1> HIDE DEF c
<1>4. CallOK(t, c) /\ CallRan(c) /\ Gives(c)
  BY <1>2 DEF CallOK, CallRan, Gives, Underway, Terminal
<1>5. Together(c, stream[t], tx[t])
  BY <1>1, <1>2 DEF Together, IInv, Local
<1>6. Local(t)'
  BY <1>1, <1>3, <1>4, <1>5 DEF IInv, Local
<1>7. Line'
  BY <1>1, <1>2, <1>3, LineStays
<1>8. call[t].conn = None
  BY <1>1 DEF IInv, Local, CallOK
<1>9. Placed(idle, Hold)'
  BY <1>1, <1>2, <1>3, <1>8, PlacesStay
<1> QED BY <1>3, <1>6, <1>7, <1>9, StepOf

LEMMA RollbackKeeps ==
  ASSUME IInv, NEW t \in Task, Rollback(t)
  PROVE  IInv'
<1>1. /\ tx' = [tx EXCEPT ![t] = NoTx] /\ UNCHANGED <<waiting, call, stream, stored>>
      /\ call[t].stage = "ended" /\ GiveBack(tx[t].conn)
  BY DEF Rollback, Free
<1>2. tx'[t] = NoTx /\ Touches(t)
  BY <1>1 DEF Touches, IInv, Domains
<1>3. TxOK(NoTx) /\ NoTx.state = "none" /\ NoTx.conn = None
  BY DEF TxOK, NoTx
<1>4. Together(call[t], stream[t], NoTx)
  BY <1>1 DEF Together, IInv, Local
<1>5. Local(t)'
  BY <1>1, <1>2, <1>3, <1>4 DEF IInv, Local
<1>6. Line'
  BY <1>1, <1>2, LineStays
<1>7. Placed(idle, Hold)'
  BY <1>1, <1>2, <1>3, TxReturns
<1> QED BY <1>2, <1>5, <1>6, <1>7, StepOf

\* A future that ends, with an end that is true of it.
LEMMA EndedOK ==
  ASSUME IInv, NEW t \in Task, ~Free(t), NEW end \in End \ {"pending"}, NEW got \in Seq(Row),
         Ends(t, end, got),
         call[t].of # None => /\ end \in NothingRan => ~call[t].ran
                              /\ end \in ItRan => call[t].ran,
         Gives([op |-> call[t].op, of |-> call[t].of, end |-> end, got |-> got])
  PROVE  /\ call' = [call EXCEPT ![t] = call'[t]]
         /\ call'[t].conn = None /\ call'[t].stage = "ended"
         /\ CallOK(t, call'[t]) /\ CallRan(call'[t]) /\ Gives(call'[t])
         /\ \A s, x : Together(call'[t], s, x)
<1>1. CallOK(t, call[t]) /\ CallRan(call[t]) /\ call[t].stage # "ended"
  BY DEF IInv, Local, Free
<1>2. /\ call' = [call EXCEPT ![t] = call'[t]] /\ call'[t] \in Future(t)
      /\ call'[t].op = call[t].op /\ call'[t].of = call[t].of /\ call'[t].stage = "ended"
      /\ call'[t].conn = None /\ call'[t].ran = call[t].ran
      /\ call'[t].end = end /\ call'[t].got = got
  BY EndsLeaves
<1>3. CallOK(t, call'[t])
  BY <1>1, <1>2 DEF CallOK
<1>4. CallRan(call'[t])
  BY <1>1, <1>2 DEF CallRan
<1>5. Gives(call'[t])
  BY <1>2 DEF Gives
<1>6. \A s, x : Together(call'[t], s, x)
  BY <1>2 DEF Together
<1> QED BY <1>2, <1>3, <1>4, <1>5, <1>6

\* ... dropped, timed out or lost: nothing is given.
LEMMA NothingGiven ==
  ASSUME NEW op, NEW of, NEW end, end # "Ok"
  PROVE  Gives([op |-> op, of |-> of, end |-> end, got |-> <<>>])
BY DEF Gives

LEMMA CancelKeeps ==
  ASSUME IInv, NEW t \in Task, Cancel(t)
  PROVE  IInv'
<1>1. /\ ~Free(t) /\ Ends(t, "dropped", <<>>) /\ UNCHANGED <<stream, stored>>
      /\ call[t].stage # "ended"
  BY DEF Cancel, Free
<1>2. /\ call' = [call EXCEPT ![t] = call'[t]]
      /\ call'[t].conn = None /\ call'[t].stage = "ended"
      /\ CallOK(t, call'[t]) /\ CallRan(call'[t]) /\ Gives(call'[t])
      /\ \A s, x : Together(call'[t], s, x)
  <2>1. "dropped" \in End \ {"pending"} /\ <<>> \in Seq(Row)
        /\ "dropped" \notin NothingRan /\ "dropped" \notin ItRan
    BY EmptySeq DEF End, NothingRan, ItRan
  <2> QED BY <1>1, <2>1, EndedOK, NothingGiven
<1>3. Local(t) /\ CallOK(t, call[t])
  BY DEF IInv, Local
<1>4. CASE call[t].op = "commit"
  <2>1. GiveBack(tx[t].conn) /\ tx' = [tx EXCEPT ![t] = NoTx] /\ waiting' = waiting
    BY <1>4 DEF Cancel
  <2>2. tx'[t] = NoTx /\ NoTx.conn = None /\ TxOK(NoTx) /\ Touches(t)
    BY <1>1, <1>2, <2>1 DEF Touches, IInv, Domains, TxOK, NoTx
  <2>3. call[t].conn = None /\ call[t].stage # "acquire"
    BY <1>3, <1>4 DEF CallOK, Terminal
  <2>4. Local(t)'
    BY <1>1, <1>2, <1>3, <2>1, <2>2 DEF Local
  <2>5. Line'
    BY <1>1, <1>2, <2>1, <2>2, <2>3, LineStays
  <2>6. Placed(idle, Hold)'
    BY <1>1, <1>2, <2>1, <2>2, <2>3, TxReturns
  <2> QED BY <2>2, <2>4, <2>5, <2>6, StepOf
<1>5. CASE call[t].op = "next"
  <2>1. UNCHANGED <<idle, waiting, tx>>
    BY <1>5 DEF Cancel
  <2>2. call[t].conn = None /\ call[t].stage # "acquire"
    BY <1>3, <1>5 DEF CallOK, Terminal
  <2>3. Touches(t)
    BY <1>1, <1>2, <2>1 DEF Touches, IInv, Domains
  <2>4. Local(t)'
    BY <1>1, <1>2, <1>3, <2>1 DEF Local
  <2>5. Line'
    BY <1>1, <1>2, <2>1, <2>2, <2>3, LineStays
  <2>6. Placed(idle, Hold)'
    BY <1>1, <1>2, <2>1, <2>2, <2>3, PlacesStay
  <2> QED BY <2>3, <2>4, <2>5, <2>6, StepOf
<1>6. CASE call[t].op # "commit" /\ call[t].op # "next"
  <2>1. GiveBack(call[t].conn) /\ LeaveLine(<<t, "call">>) /\ tx' = tx
    BY <1>6 DEF Cancel
  <2>2. Touches(t)
    BY <1>1, <1>2, <2>1 DEF Touches, IInv, Domains
  <2>3. Local(t)'
    BY <1>1, <1>2, <1>3, <2>1 DEF Local
  <2>4. Line'
    BY <1>1, <1>2, <2>1, <2>2, CallLeaves
  <2>5. Placed(idle, Hold)'
    BY <1>1, <1>2, <2>1, <2>2, CallReturns
  <2> QED BY <2>2, <2>3, <2>4, <2>5, StepOf
<1> QED BY <1>4, <1>5, <1>6

\* A future that goes on: to another stage, with a connection, or answered.
LEMMA GoesOn ==
  ASSUME IInv, NEW t \in Task, NEW stage \in Stage, NEW conn \in Connection \cup {None},
         NEW ran \in BOOLEAN,
         \/ call' = [call EXCEPT ![t].stage = stage] /\ conn = call[t].conn /\ ran = call[t].ran
         \/ call' = [call EXCEPT ![t].stage = stage, ![t].conn = conn] /\ ran = call[t].ran
         \/ call' = [call EXCEPT ![t].stage = stage, ![t].ran = ran] /\ conn = call[t].conn
  PROVE  /\ call' = [call EXCEPT ![t] = call'[t]] /\ call'[t] \in Future(t)
         /\ call'[t].op = call[t].op /\ call'[t].of = call[t].of /\ call'[t].stage = stage
         /\ call'[t].conn = conn /\ call'[t].ran = ran
         /\ call'[t].end = call[t].end /\ call'[t].got = call[t].got
<1> DEFINE c == call[t]
           new1 == [c EXCEPT !.stage = stage]
           new2 == [c EXCEPT !.stage = stage, !.conn = conn]
           new3 == [c EXCEPT !.stage = stage, !.ran = ran]
<1>1. DOMAIN call = Task /\ c \in Future(t)
  BY DEF IInv, Domains, Local, CallOK
<1>2. \/ call'[t] = new1 /\ call' = [call EXCEPT ![t] = new1] /\ conn = c.conn /\ ran = c.ran
      \/ call'[t] = new2 /\ call' = [call EXCEPT ![t] = new2] /\ ran = c.ran
      \/ call'[t] = new3 /\ call' = [call EXCEPT ![t] = new3] /\ conn = c.conn
  BY <1>1
<1>3. /\ new1 \in Future(t) /\ new1.op = c.op /\ new1.of = c.of /\ new1.stage = stage
      /\ new1.conn = c.conn /\ new1.ran = c.ran /\ new1.end = c.end /\ new1.got = c.got
  BY <1>1 DEF Future
<1>4. /\ new2 \in Future(t) /\ new2.op = c.op /\ new2.of = c.of /\ new2.stage = stage
      /\ new2.conn = conn /\ new2.ran = c.ran /\ new2.end = c.end /\ new2.got = c.got
  BY <1>1 DEF Future
<1>5. /\ new3 \in Future(t) /\ new3.op = c.op /\ new3.of = c.of /\ new3.stage = stage
      /\ new3.conn = c.conn /\ new3.ran = ran /\ new3.end = c.end /\ new3.got = c.got
  BY <1>1 DEF Future
<1> HIDE DEF new1, new2, new3
<1> QED BY <1>2, <1>3, <1>4, <1>5

LEMMA BindKeeps ==
  ASSUME IInv, NEW t \in Task, Bind(t)
  PROVE  IInv'
<1> DEFINE s == call[t].of.stmt
<1>1. call[t].stage = "bind" /\ UNCHANGED <<idle, stream, tx, stored>> /\ BoundAs(s) = s.binds
  BY DEF Bind, BoundAs
<1>2. Local(t) /\ CallOK(t, call[t]) /\ CallRan(call[t])
  BY DEF IInv, Local
<1>3. /\ call[t].op \in Terminal /\ call[t].of \in Calls[t] /\ call[t].of # None
      /\ call[t].conn = None /\ ~call[t].ran /\ call[t].end = "pending"
  BY <1>1, <1>2 DEF CallOK, CallRan, Future
<1>4. s.binds \in BindEnd /\ call[t].of.on \in {"pool", "tx"}
  BY <1>3, CallShape
<1>5. CASE s.binds # "all"
  <2>1. Ends(t, s.binds, <<>>) /\ waiting' = waiting
    BY <1>1, <1>5 DEF Bind
  <2>2. /\ s.binds \in End \ {"pending"} /\ <<>> \in Seq(Row) /\ s.binds # "Ok"
        /\ s.binds \notin ItRan
    BY <1>4, <1>5, EmptySeq DEF End, BindEnd, ItRan
  <2>3. ~Free(t)
    BY <1>1 DEF Free
  <2>4. /\ call' = [call EXCEPT ![t] = call'[t]]
        /\ call'[t].conn = None /\ call'[t].stage = "ended"
        /\ CallOK(t, call'[t]) /\ CallRan(call'[t]) /\ Gives(call'[t])
        /\ \A z, x : Together(call'[t], z, x)
    BY <1>3, <2>1, <2>2, <2>3, EndedOK, NothingGiven
  <2>5. Touches(t)
    BY <1>1, <2>4 DEF Touches, IInv, Domains
  <2>6. Local(t)'
    BY <1>1, <1>2, <2>4 DEF Local
  <2>7. Line'
    BY <1>1, <2>1, <2>4, <2>5, LineStays
  <2>8. Placed(idle, Hold)'
    BY <1>1, <1>3, <2>4, <2>5, PlacesStay
  <2> QED BY <2>5, <2>6, <2>7, <2>8, StepOf
<1>6. CASE s.binds = "all"
  <2> DEFINE stage == IF call[t].of.on = "tx" THEN "send" ELSE "acquire"
  <2>1. /\ call' = [call EXCEPT ![t].stage = stage]
        /\ IF stage = "acquire" THEN waiting' = Append(waiting, <<t, "call">>)
           ELSE waiting' = waiting
    BY <1>1, <1>4, <1>6 DEF Bind
  <2>2. /\ stage \in {"send", "acquire"} /\ stage \in Stage
        /\ stage = "acquire" => call[t].of.on # "tx"
    BY DEF Stage
  <2> HIDE DEF stage
  <2>3. call[t].conn \in Connection \cup {None} /\ call[t].ran \in BOOLEAN
    BY <1>2 DEF CallOK, Future
  <2>4. /\ call' = [call EXCEPT ![t] = call'[t]] /\ call'[t] \in Future(t)
        /\ call'[t].op = call[t].op /\ call'[t].of = call[t].of /\ call'[t].stage = stage
        /\ call'[t].conn = call[t].conn /\ call'[t].ran = call[t].ran
        /\ call'[t].end = call[t].end /\ call'[t].got = call[t].got
    BY <2>1, <2>2, <2>3, GoesOn
  <2>5. CallOK(t, call'[t])
    BY <1>2, <1>3, <2>2, <2>4 DEF CallOK, Underway, Terminal
  <2>6. CallRan(call'[t]) /\ Gives(call'[t])
    BY <1>2, <1>3, <1>6, <2>2, <2>4 DEF CallRan, Gives
  <2>7. Together(call'[t], stream[t], tx[t])
    BY <1>3, <2>2, <2>4 DEF Together, Terminal
  <2>8. Touches(t)
    BY <1>1, <2>4 DEF Touches, IInv, Domains
  <2>9. Local(t)'
    BY <1>1, <1>2, <2>5, <2>6, <2>7 DEF Local
  <2>10. Line'
    <3>1. CASE stage = "acquire"
      BY <3>1, <1>1, <2>1, <2>4, <2>8, CallJoins
    <3>2. CASE stage # "acquire"
      BY <3>2, <1>1, <2>1, <2>4, <2>8, LineStays
    <3> QED BY <3>1, <3>2
  <2>11. Placed(idle, Hold)'
    BY <1>1, <2>4, <2>8, PlacesStay
  <2> QED BY <2>8, <2>9, <2>10, <2>11, StepOf
<1> QED BY <1>5, <1>6

LEMMA AcquireKeeps ==
  ASSUME IInv, NEW t \in Task, Acquire(t)
  PROVE  IInv'
<1>1. PICK c \in idle :
        idle' = idle \ {c} /\ call' = [call EXCEPT ![t].stage = "send", ![t].conn = c]
  BY DEF Acquire
<1>2. /\ waiting # <<>> /\ Head(waiting) = <<t, "call">> /\ waiting' = Tail(waiting)
      /\ UNCHANGED <<stream, tx, stored>>
  BY DEF Acquire
<1>3. c \in Connection /\ c \in Connection \cup {None} /\ c # None
  BY ExecutionAssumption DEF IInv, Placed
<1>4. call[t].stage = "acquire"
  BY <1>2, FirstWaits, AtOf
<1>5. Local(t) /\ CallOK(t, call[t]) /\ CallRan(call[t]) /\ Gives(call[t])
  BY DEF IInv, Local
<1>6. /\ call[t].conn = None /\ ~call[t].ran /\ call[t].end = "pending"
  BY <1>4, <1>5 DEF CallOK, CallRan
<1>7. /\ call' = [call EXCEPT ![t] = call'[t]] /\ call'[t] \in Future(t)
      /\ call'[t].op = call[t].op /\ call'[t].of = call[t].of /\ call'[t].stage = "send"
      /\ call'[t].conn = c /\ call'[t].ran = call[t].ran
      /\ call'[t].end = call[t].end /\ call'[t].got = call[t].got
  <2>1. "send" \in Stage /\ call[t].ran \in BOOLEAN
    BY <1>5 DEF CallOK, Future, Stage
  <2> QED BY <1>1, <1>3, <2>1, GoesOn
<1>8. call[t].op \in Terminal \cup {"begin"} /\ (call[t].of # None => call[t].of.on # "tx")
  BY <1>4, <1>5 DEF CallOK, Future
<1>9. CallOK(t, call'[t]) /\ CallRan(call'[t]) /\ Gives(call'[t])
  BY <1>3, <1>4, <1>5, <1>6, <1>7, <1>8 DEF CallOK, CallRan, Gives, Underway, Terminal
<1>10. Together(call'[t], stream[t], tx[t])
  BY <1>4, <1>5, <1>7 DEF Local, Together
<1>11. Touches(t)
  BY <1>1, <1>2, <1>7, ZenonT(40) DEF Touches, IInv, Domains
<1>12. Local(t)'
  BY <1>1, <1>2, <1>5, <1>9, <1>10 DEF Local
<1>13. Line'
  <2>1. \A y \in Waiter \ {<<t, "call">>} : At'[y] = "acquire" <=> At[y] = "acquire"
    BY <1>2, <1>11, OnlyCall
  <2>2. <<t, "call">> \in Waiter /\ At'[<<t, "call">>] # "acquire"
    BY <1>7, AtOf
  <2> QED BY <1>2, <2>1, <2>2, LineAfterFirst
<1>14. Placed(idle, Hold)'
  BY <1>1, <1>2, <1>6, <1>7, <1>11, CallTakes
<1> QED BY <1>11, <1>12, <1>13, <1>14, StepOf

LEMMA AcquireStreamKeeps ==
  ASSUME IInv, NEW t \in Task, AcquireStream(t)
  PROVE  IInv'
<1> DEFINE s == stream[t]
           stage == IF Polled(t) THEN "send" ELSE "granted"
<1>1. PICK c \in idle :
        idle' = idle \ {c} /\ stream' = [stream EXCEPT ![t].stage = stage, ![t].conn = c]
  BY DEF AcquireStream
<1>2. /\ waiting # <<>> /\ Head(waiting) = <<t, "stream">> /\ waiting' = Tail(waiting)
      /\ UNCHANGED <<call, tx, stored>>
  BY DEF AcquireStream
<1>3. c \in Connection /\ c # None /\ stage \in {"send", "granted"}
      /\ (call[t].stage = "poll" => stage = "send")
  BY ExecutionAssumption DEF IInv, Placed, Polled
<1>4. s.stage = "acquire"
  BY <1>2, FirstWaits, AtOf
<1>5. /\ Local(t) /\ StreamOK(t, s) /\ StreamRan(s) /\ FirstRows(s)
      /\ Together(call[t], s, tx[t])
  BY DEF IInv, Local
<1>6. /\ s.conn = None /\ s.end = "pending" /\ s.of.on # "tx"
  BY <1>4, <1>5 DEF StreamOK, Live
<1> HIDE DEF stage
<1> DEFINE new == [s EXCEPT !.stage = stage, !.conn = c]
<1>7. /\ stream'[t] = new /\ stream' = [stream EXCEPT ![t] = new]
  BY <1>1 DEF IInv, Domains
<1>8. /\ new \in Future(t) /\ new.conn = c /\ new.op = s.op /\ new.of = s.of
      /\ new.stage = stage /\ new.ran = s.ran /\ new.end = s.end /\ new.got = s.got
  BY <1>3, <1>5 DEF StreamOK, Future, Stage
<1> HIDE DEF new
<1>9. StreamOK(t, new)
  BY <1>3, <1>4, <1>5, <1>6, <1>8 DEF StreamOK, Live
<1>10. StreamRan(new) /\ FirstRows(new)
  BY <1>3, <1>4, <1>5, <1>6, <1>8 DEF StreamRan, FirstRows, Live
<1>11. Together(call[t], new, tx[t])
  BY <1>3, <1>5, <1>8 DEF Together
<1>12. Touches(t)
  BY <1>2, <1>7 DEF Touches, IInv, Domains
<1>13. Local(t)'
  BY <1>2, <1>5, <1>7, <1>9, <1>10, <1>11 DEF Local
<1>14. Line'
  <2>1. \A y \in Waiter \ {<<t, "stream">>} : At'[y] = "acquire" <=> At[y] = "acquire"
    BY <1>2, <1>12, OnlyStream
  <2>2. <<t, "stream">> \in Waiter /\ At'[<<t, "stream">>] # "acquire"
    BY <1>3, <1>7, <1>8, AtOf
  <2> QED BY <1>2, <2>1, <2>2, LineAfterFirst
<1>15. Placed(idle, Hold)'
  BY <1>1, <1>2, <1>6, <1>7, <1>8, <1>12, StreamTakes
<1> QED BY <1>12, <1>13, <1>14, <1>15, StepOf

\* A stream that is over, with an end that is true of it.
LEMMA StreamEndedOK ==
  ASSUME IInv, NEW t \in Task, stream[t].stage \in Live,
         NEW end \in End \ {"pending"}, StreamEnds(t, end),
         end \in NothingRan => ~stream[t].ran,
         end \in ItRan => stream[t].ran,
         end = "exhausted" => stream[t].got = stream[t].of.stmt.rows
  PROVE  /\ stream' = [stream EXCEPT ![t] = stream'[t]]
         /\ stream'[t].conn = None /\ stream'[t].stage = "over"
         /\ StreamOK(t, stream'[t]) /\ StreamRan(stream'[t]) /\ FirstRows(stream'[t])
<1>1. StreamOK(t, stream[t]) /\ StreamRan(stream[t]) /\ FirstRows(stream[t])
  BY DEF IInv, Local
<1>2. stream' = [stream EXCEPT ![t].stage = "over", ![t].conn = None, ![t].end = end]
  BY DEF StreamEnds
<1>3. /\ stream' = [stream EXCEPT ![t] = stream'[t]] /\ stream'[t] \in Future(t)
      /\ stream'[t].op = stream[t].op /\ stream'[t].of = stream[t].of
      /\ stream'[t].stage = "over" /\ stream'[t].conn = None
      /\ stream'[t].ran = stream[t].ran
      /\ stream'[t].end = end /\ stream'[t].got = stream[t].got
  BY <1>2, StreamEndsLeaves
<1>4. StreamOK(t, stream'[t])
  BY <1>1, <1>3 DEF StreamOK, Live
<1>5. StreamRan(stream'[t])
  BY <1>1, <1>3 DEF StreamRan, StreamOK, Live
<1>6. FirstRows(stream'[t])
  BY <1>1, <1>3 DEF FirstRows
<1> QED BY <1>3, <1>4, <1>5, <1>6

LEMMA TimeOutKeeps ==
  ASSUME IInv, NEW t \in Task, TimeOut(t)
  PROVE  IInv'
<1>1. /\ call[t].stage = "acquire" /\ Ends(t, "PoolTimedOut", <<>>)
      /\ LeaveLine(<<t, "call">>) /\ UNCHANGED <<idle, stream, tx, stored>> /\ ~Free(t)
  BY DEF TimeOut, Free
<1>2. Local(t) /\ CallOK(t, call[t]) /\ CallRan(call[t])
  BY DEF IInv, Local
<1>3. ~call[t].ran /\ call[t].conn = None
  BY <1>1, <1>2 DEF CallOK, CallRan
<1>4. /\ "PoolTimedOut" \in End \ {"pending"} /\ <<>> \in Seq(Row)
      /\ "PoolTimedOut" \notin ItRan /\ "PoolTimedOut" # "Ok"
  BY EmptySeq DEF End, ItRan
<1>5. /\ call' = [call EXCEPT ![t] = call'[t]]
      /\ call'[t].conn = None /\ call'[t].stage = "ended"
      /\ CallOK(t, call'[t]) /\ CallRan(call'[t]) /\ Gives(call'[t])
      /\ \A s, x : Together(call'[t], s, x)
  BY <1>1, <1>3, <1>4, EndedOK, NothingGiven
<1>6. Touches(t)
  BY <1>1, <1>5 DEF Touches, IInv, Domains
<1>7. Local(t)'
  BY <1>1, <1>2, <1>5 DEF Local
<1>8. Line'
  BY <1>1, <1>5, <1>6, CallLeaves
<1>9. Placed(idle, Hold)'
  BY <1>1, <1>3, <1>5, <1>6, PlacesStay
<1> QED BY <1>6, <1>7, <1>8, <1>9, StepOf

\* A poll that ends with its item.
LEMMA PollEnds ==
  ASSUME IInv, NEW t \in Task, Polled(t), Ends(t, "item", <<>>)
  PROVE  /\ call' = [call EXCEPT ![t] = call'[t]]
         /\ call[t].conn = None /\ call[t].stage # "acquire" /\ call[t].op = "next"
         /\ call'[t].conn = None /\ call'[t].stage = "ended"
         /\ CallOK(t, call'[t]) /\ CallRan(call'[t]) /\ Gives(call'[t])
         /\ \A s, x : Together(call'[t], s, x)
         /\ stream[t].stage \in {"acquire", "send", "refused", "open"} \cap Live
         /\ stream[t].of # None /\ stream[t].of \in Calls[t] /\ stream[t].end = "pending"
<1>1. CallOK(t, call[t]) /\ StreamOK(t, stream[t]) /\ Together(call[t], stream[t], tx[t])
  BY DEF IInv, Local
<1>2. call[t].op = "next" /\ call[t].of = None /\ call[t].conn = None /\ ~Free(t)
      /\ call[t].stage # "acquire"
  BY <1>1 DEF CallOK, Polled, Free, Terminal
<1>3. "item" \in End \ {"pending"} /\ <<>> \in Seq(Row) /\ "item" # "Ok"
  BY EmptySeq DEF End
<1>4. /\ call' = [call EXCEPT ![t] = call'[t]]
      /\ call'[t].conn = None /\ call'[t].stage = "ended"
      /\ CallOK(t, call'[t]) /\ CallRan(call'[t]) /\ Gives(call'[t])
      /\ \A s, x : Together(call'[t], s, x)
  BY <1>2, <1>3, EndedOK, NothingGiven
<1>5. /\ stream[t].stage \in {"acquire", "send", "refused", "open"} \cap Live
      /\ stream[t].of # None /\ stream[t].of \in Calls[t] /\ stream[t].end = "pending"
  BY <1>1 DEF Together, Polled, StreamOK, Live, Future
<1> QED BY <1>2, <1>4, <1>5

LEMMA TimeOutStreamKeeps ==
  ASSUME IInv, NEW t \in Task, TimeOutStream(t)
  PROVE  IInv'
<1>1. /\ Polled(t) /\ stream[t].stage = "acquire" /\ Ends(t, "item", <<>>)
      /\ StreamEnds(t, "PoolTimedOut") /\ LeaveLine(<<t, "stream">>)
      /\ UNCHANGED <<idle, tx, stored>>
  BY DEF TimeOutStream
<1>2. Local(t) /\ StreamOK(t, stream[t]) /\ StreamRan(stream[t])
  BY DEF IInv, Local
<1>3. /\ call' = [call EXCEPT ![t] = call'[t]]
      /\ call[t].conn = None /\ call[t].stage # "acquire"
      /\ call'[t].conn = None /\ call'[t].stage = "ended"
      /\ CallOK(t, call'[t]) /\ CallRan(call'[t]) /\ Gives(call'[t])
      /\ \A s, x : Together(call'[t], s, x)
  BY <1>1, PollEnds
<1>4. ~stream[t].ran /\ stream[t].conn = None /\ stream[t].stage \in Live
  BY <1>1, <1>2 DEF StreamOK, StreamRan, Live
<1>5. "PoolTimedOut" \in End \ {"pending"} /\ "PoolTimedOut" \notin ItRan
      /\ "PoolTimedOut" # "exhausted"
  BY DEF End, ItRan
<1>6. /\ stream' = [stream EXCEPT ![t] = stream'[t]]
      /\ stream'[t].conn = None /\ stream'[t].stage = "over"
      /\ StreamOK(t, stream'[t]) /\ StreamRan(stream'[t]) /\ FirstRows(stream'[t])
  BY <1>1, <1>4, <1>5, StreamEndedOK
<1>7. Touches(t)
  BY <1>1, <1>3, <1>6 DEF Touches, IInv, Domains
<1>8. Local(t)'
  BY <1>1, <1>2, <1>3, <1>6 DEF Local
<1>9. Line'
  BY <1>1, <1>3, <1>6, <1>7, StreamLeaves
<1>10. Placed(idle, Hold)'
  BY <1>1, <1>3, <1>4, <1>6, <1>7, PlacesStay
<1> QED BY <1>7, <1>8, <1>9, <1>10, StepOf

\* What a statement does to its transaction, or to the database.
LEMMA PerformOK ==
  ASSUME IInv, NEW t \in Task, NEW c \in Calls[t], Perform(t, c)
  PROVE  /\ tx' = [tx EXCEPT ![t] = tx'[t]] /\ stored' = [stored EXCEPT ![t] = stored'[t]]
         /\ TxOK(tx'[t]) /\ tx'[t].conn = tx[t].conn /\ tx'[t].state = tx[t].state
         /\ stored'[t] \in Nat
<1> DEFINE n == IF c.stmt.writes THEN 1 ELSE 0
           x == [tx[t] EXCEPT !.writes = @ + n]
<1>1. /\ DOMAIN tx = Task /\ DOMAIN stored = Task /\ TxOK(tx[t]) /\ stored[t] \in Nat /\ n \in Nat
      /\ tx = [u \in Task |-> tx[u]] /\ stored = [u \in Task |-> stored[u]]
  BY DEF IInv, Domains, Local
<1> HIDE DEF n
<1>2. TxOK(x) /\ x.conn = tx[t].conn /\ x.state = tx[t].state
  BY <1>1 DEF TxOK
<1>3. CASE c.on = "tx"
  <2>1. tx' = [tx EXCEPT ![t] = x] /\ stored' = stored
    BY <1>3 DEF Perform, n
  <2> HIDE DEF x
  <2> QED BY <1>1, <1>2, <2>1
<1>4. CASE c.on # "tx"
  <2>1. stored' = [stored EXCEPT ![t] = stored[t] + n] /\ tx' = tx
    BY <1>4 DEF Perform, n
  <2>2. tx' = [tx EXCEPT ![t] = tx'[t]] /\ TxOK(tx'[t]) /\ tx'[t] = tx[t]
    BY <1>1, <2>1
  <2>3. stored' = [stored EXCEPT ![t] = stored'[t]] /\ stored'[t] \in Nat
    BY <1>1, <2>1
  <2> QED BY <2>2, <2>3
<1> QED BY <1>3, <1>4

LEMMA AbortOK ==
  ASSUME IInv, NEW t \in Task, NEW state \in {"aborted", "lost", "committed"},
         \/ tx' = [tx EXCEPT ![t].state = state, ![t].writes = 0]
         \/ tx' = [tx EXCEPT ![t].writes = 0, ![t].state = state]
  PROVE  /\ tx' = [tx EXCEPT ![t] = tx'[t]] /\ TxOK(tx'[t]) /\ tx'[t].conn = tx[t].conn
         /\ tx'[t].writes = 0
<1> DEFINE x == [tx[t] EXCEPT !.state = state, !.writes = 0]
           y == [tx[t] EXCEPT !.writes = 0, !.state = state]
<1>1. DOMAIN tx = Task /\ TxOK(tx[t])
  BY DEF IInv, Domains, Local
<1>2. TxOK(x) /\ x.conn = tx[t].conn /\ x.writes = 0
  BY <1>1 DEF TxOK
<1>3. TxOK(y) /\ y.conn = tx[t].conn /\ y.writes = 0
  BY <1>1 DEF TxOK
<1>4. \/ tx' = [tx EXCEPT ![t] = x] /\ tx'[t] = x
      \/ tx' = [tx EXCEPT ![t] = y] /\ tx'[t] = y
  BY <1>1
<1> HIDE DEF x, y
<1> QED BY <1>2, <1>3, <1>4

LEMMA ServeKeeps ==
  ASSUME IInv, NEW t \in Task, Serve(t)
  PROVE  IInv'
<1>1. /\ call[t].stage = "send" /\ call[t].op \in Terminal
      /\ UNCHANGED <<waiting, stream>> /\ ~Free(t)
  BY DEF Serve, Free
<1>2. Local(t) /\ CallOK(t, call[t]) /\ CallRan(call[t]) /\ Gives(call[t])
  BY DEF IInv, Local
<1>3. /\ call[t].of \in Calls[t] /\ call[t].of # None /\ ~call[t].ran /\ call[t].end = "pending"
      /\ call[t].of.on = "tx" => call[t].conn = None
      /\ call[t].conn \in Connection \cup {None}
  BY <1>1, <1>2 DEF CallOK, CallRan, Future
<1>4. CASE Refuses(t, call[t].of)
  <2>1. /\ Ends(t, "Database", <<>>) /\ GiveBack(call[t].conn) /\ stored' = stored
        /\ IF call[t].of.on = "tx" THEN Abort(t) ELSE tx' = tx
    BY <1>4 DEF Serve
  <2>2. /\ "Database" \in End \ {"pending"} /\ <<>> \in Seq(Row)
        /\ "Database" \notin ItRan /\ "Database" # "Ok"
    BY EmptySeq DEF End, ItRan
  <2>3. /\ call' = [call EXCEPT ![t] = call'[t]]
        /\ call'[t].conn = None /\ call'[t].stage = "ended"
        /\ CallOK(t, call'[t]) /\ CallRan(call'[t]) /\ Gives(call'[t])
        /\ \A s, x : Together(call'[t], s, x)
    BY <1>1, <1>3, <2>1, <2>2, EndedOK, NothingGiven
  <2>4. tx' = [tx EXCEPT ![t] = tx'[t]] /\ TxOK(tx'[t]) /\ tx'[t].conn = tx[t].conn
    <3>1. CASE call[t].of.on = "tx"
      BY <3>1, <2>1, AbortOK DEF Abort
    <3>2. CASE call[t].of.on # "tx"
      BY <3>2, <2>1, <1>2 DEF IInv, Domains, Local
    <3> QED BY <3>1, <3>2
  <2>5. Touches(t)
    BY <1>1, <2>1, <2>3, <2>4 DEF Touches, IInv, Domains
  <2>6. Local(t)'
    BY <1>1, <1>2, <2>1, <2>3, <2>4 DEF Local
  <2>7. Line'
    BY <1>1, <2>3, <2>5, LineStays
  <2>8. Placed(idle, Hold)'
    BY <1>1, <2>1, <2>3, <2>4, <2>5, CallReturns
  <2> QED BY <2>5, <2>6, <2>7, <2>8, StepOf
<1>5. CASE ~Refuses(t, call[t].of)
  <2>1. /\ call' = [call EXCEPT ![t].stage = "answered", ![t].ran = TRUE]
        /\ Perform(t, call[t].of) /\ idle' = idle
    BY <1>5 DEF Serve
  <2>2. "answered" \in Stage /\ TRUE \in BOOLEAN
    BY DEF Stage
  <2>3. /\ call' = [call EXCEPT ![t] = call'[t]] /\ call'[t] \in Future(t)
        /\ call'[t].op = call[t].op /\ call'[t].of = call[t].of /\ call'[t].stage = "answered"
        /\ call'[t].conn = call[t].conn /\ call'[t].ran = TRUE
        /\ call'[t].end = call[t].end /\ call'[t].got = call[t].got
    BY <1>3, <2>1, <2>2, GoesOn
  <2>4. /\ tx' = [tx EXCEPT ![t] = tx'[t]] /\ stored' = [stored EXCEPT ![t] = stored'[t]]
        /\ TxOK(tx'[t]) /\ tx'[t].conn = tx[t].conn /\ tx'[t].state = tx[t].state
        /\ stored'[t] \in Nat
    BY <1>3, <2>1, PerformOK
  <2>5. CallOK(t, call'[t]) /\ CallRan(call'[t]) /\ Gives(call'[t])
    BY <1>1, <1>2, <1>3, <2>3 DEF CallOK, CallRan, Gives, Underway, NothingRan
  <2>6. Together(call'[t], stream[t], tx'[t])
    BY <1>1, <2>3 DEF Together, Terminal
  <2>7. Touches(t)
    BY <1>1, <2>3, <2>4 DEF Touches, IInv, Domains
  <2>8. Local(t)'
    BY <1>1, <1>2, <2>4, <2>5, <2>6 DEF Local
  <2>9. Line'
    BY <1>1, <2>3, <2>7, LineStays
  <2>10. Placed(idle, Hold)'
    BY <1>1, <2>1, <2>3, <2>4, <2>7, PlacesStay
  <2> QED BY <2>7, <2>8, <2>9, <2>10, StepOf
<1> QED BY <1>4, <1>5

LEMMA ServeBeginKeeps ==
  ASSUME IInv, NEW t \in Task, ServeBegin(t)
  PROVE  IInv'
<1> DEFINE x == [conn |-> call[t].conn, writes |-> 0, state |-> "open"]
<1>1. /\ call[t].stage = "send" /\ call[t].op = "begin" /\ tx' = [tx EXCEPT ![t] = x]
      /\ Ends(t, "Ok", <<>>) /\ UNCHANGED <<idle, waiting, stream, stored>> /\ ~Free(t)
  BY DEF ServeBegin, Free
<1>2. Local(t) /\ CallOK(t, call[t])
  BY DEF IInv, Local
<1>3. /\ call[t].of = None /\ call[t].conn \in Connection \cup {None}
      /\ tx[t].conn = None
  BY <1>1, <1>2 DEF Local, CallOK, Future, Together, Terminal
<1>4. "Ok" \in End \ {"pending"} /\ <<>> \in Seq(Row)
  BY EmptySeq DEF End
<1>5. Gives([op |-> call[t].op, of |-> call[t].of, end |-> "Ok", got |-> <<>>])
  BY <1>1 DEF Gives
<1>6. /\ call' = [call EXCEPT ![t] = call'[t]]
      /\ call'[t].conn = None /\ call'[t].stage = "ended"
      /\ CallOK(t, call'[t]) /\ CallRan(call'[t]) /\ Gives(call'[t])
      /\ \A s, y : Together(call'[t], s, y)
  BY <1>1, <1>3, <1>4, <1>5, EndedOK
<1>7. tx'[t] = x /\ TxOK(x) /\ x.conn = call[t].conn /\ Touches(t)
  BY <1>1, <1>3, <1>6 DEF Touches, IInv, Domains, TxOK
<1>8. Local(t)'
  BY <1>1, <1>2, <1>3, <1>6, <1>7 DEF Local
<1>9. Line'
  BY <1>1, <1>6, <1>7, LineStays
<1>10. Placed(idle, Hold)'
  BY <1>1, <1>3, <1>6, <1>7, TxTakesOver
<1> QED BY <1>7, <1>8, <1>9, <1>10, StepOf

LEMMA ServeCommitKeeps ==
  ASSUME IInv, NEW t \in Task, ServeCommit(t)
  PROVE  IInv'
<1>1. /\ call[t].stage = "send" /\ call[t].op = "commit"
      /\ call' = [call EXCEPT ![t].stage = "answered", ![t].ran = TRUE]
      /\ stored' = [stored EXCEPT ![t] = stored[t] + tx[t].writes]
      /\ tx' = [tx EXCEPT ![t].writes = 0, ![t].state = "committed"]
      /\ UNCHANGED <<idle, waiting, stream>>
  BY DEF ServeCommit
<1>2. Local(t) /\ CallOK(t, call[t]) /\ CallRan(call[t]) /\ Gives(call[t])
  BY DEF IInv, Local
<1>3. /\ call[t].of = None /\ call[t].conn \in Connection \cup {None}
      /\ stored[t] \in Nat /\ tx[t].writes \in Nat
  BY <1>1, <1>2 DEF Local, CallOK, Future, Together, TxOK, Terminal
<1>4. "answered" \in Stage /\ TRUE \in BOOLEAN
  BY DEF Stage
<1>5. /\ call' = [call EXCEPT ![t] = call'[t]] /\ call'[t] \in Future(t)
      /\ call'[t].op = call[t].op /\ call'[t].of = call[t].of /\ call'[t].stage = "answered"
      /\ call'[t].conn = call[t].conn /\ call'[t].ran = TRUE
      /\ call'[t].end = call[t].end /\ call'[t].got = call[t].got
  BY <1>1, <1>3, <1>4, GoesOn
<1>6. tx' = [tx EXCEPT ![t] = tx'[t]] /\ TxOK(tx'[t]) /\ tx'[t].conn = tx[t].conn
  BY <1>1, AbortOK
<1>7. stored' = [stored EXCEPT ![t] = stored'[t]] /\ stored'[t] \in Nat
  BY <1>1, <1>3 DEF IInv, Domains
<1>8. CallOK(t, call'[t]) /\ CallRan(call'[t]) /\ Gives(call'[t])
  BY <1>1, <1>2, <1>3, <1>5 DEF CallOK, CallRan, Gives, Underway, Terminal
<1>9. Together(call'[t], stream[t], tx'[t])
  BY <1>1, <1>3, <1>5 DEF Together
<1>10. Touches(t)
  BY <1>1, <1>5, <1>6, <1>7 DEF Touches, IInv, Domains
<1>11. Local(t)'
  BY <1>1, <1>2, <1>6, <1>7, <1>8, <1>9 DEF Local
<1>12. Line'
  BY <1>1, <1>5, <1>10, LineStays
<1>13. Placed(idle, Hold)'
  BY <1>1, <1>5, <1>6, <1>10, PlacesStay
<1> QED BY <1>10, <1>11, <1>12, <1>13, StepOf

LEMMA FinishKeeps ==
  ASSUME IInv, NEW t \in Task, Finish(t)
  PROVE  IInv'
<1> DEFINE c == call[t].of
<1>1. /\ call[t].stage = "answered" /\ call[t].op \in Terminal
      /\ Ends(t, Result(c).end, Result(c).got) /\ GiveBack(call[t].conn)
      /\ UNCHANGED <<waiting, stream, tx, stored>> /\ ~Free(t)
  BY DEF Finish, AfterAnswer, Free
<1>2. Local(t) /\ CallOK(t, call[t]) /\ CallRan(call[t])
  BY DEF IInv, Local
<1>3. /\ c \in Calls[t] /\ c.op = call[t].op /\ call[t].ran
  BY <1>1, <1>2 DEF Local, CallOK, CallRan, Future, Together, Terminal
<1>4. /\ Result(c).end \in {"Ok", "Decode"} /\ Result(c).got \in Seq(Row)
      /\ Gives([op |-> call[t].op, of |-> c, end |-> Result(c).end, got |-> Result(c).got])
  BY <1>3, ResultShape
<1>5. Result(c).end \in End \ {"pending"} /\ Result(c).end \notin NothingRan
  BY <1>4 DEF End, NothingRan
<1>6. /\ call' = [call EXCEPT ![t] = call'[t]]
      /\ call'[t].conn = None /\ call'[t].stage = "ended"
      /\ CallOK(t, call'[t]) /\ CallRan(call'[t]) /\ Gives(call'[t])
      /\ \A s, y : Together(call'[t], s, y)
  BY <1>1, <1>3, <1>4, <1>5, EndedOK
<1>7. Touches(t)
  BY <1>1, <1>6 DEF Touches, IInv, Domains
<1>8. Local(t)'
  BY <1>1, <1>2, <1>3, <1>6 DEF Local
<1>9. Line'
  BY <1>1, <1>6, <1>7, LineStays
<1>10. Placed(idle, Hold)'
  BY <1>1, <1>6, <1>7, CallReturns
<1> QED BY <1>7, <1>8, <1>9, <1>10, StepOf

LEMMA FinishCommitKeeps ==
  ASSUME IInv, NEW t \in Task, FinishCommit(t)
  PROVE  IInv'
<1>1. /\ call[t].stage = "answered" /\ call[t].op = "commit" /\ tx' = [tx EXCEPT ![t] = NoTx]
      /\ Ends(t, "Ok", <<>>) /\ GiveBack(tx[t].conn)
      /\ UNCHANGED <<waiting, stream, stored>> /\ ~Free(t)
  BY DEF FinishCommit, Free
<1>2. Local(t) /\ CallOK(t, call[t])
  BY DEF IInv, Local
<1>3. /\ call[t].of = None /\ call[t].conn = None
  BY <1>1, <1>2 DEF Local, CallOK, Together, Terminal
<1>4. "Ok" \in End \ {"pending"} /\ <<>> \in Seq(Row)
  BY EmptySeq DEF End
<1>5. Gives([op |-> call[t].op, of |-> call[t].of, end |-> "Ok", got |-> <<>>])
  BY <1>1 DEF Gives
<1>6. /\ call' = [call EXCEPT ![t] = call'[t]]
      /\ call'[t].conn = None /\ call'[t].stage = "ended"
      /\ CallOK(t, call'[t]) /\ CallRan(call'[t]) /\ Gives(call'[t])
      /\ \A s, y : Together(call'[t], s, y)
  BY <1>1, <1>3, <1>4, <1>5, EndedOK
<1>7. tx'[t] = NoTx /\ TxOK(NoTx) /\ NoTx.conn = None /\ Touches(t)
  BY <1>1, <1>6 DEF Touches, IInv, Domains, TxOK, NoTx
<1>8. Local(t)'
  BY <1>1, <1>2, <1>3, <1>6, <1>7 DEF Local
<1>9. Line'
  BY <1>1, <1>6, <1>7, LineStays
<1>10. Placed(idle, Hold)'
  BY <1>1, <1>3, <1>6, <1>7, TxReturns
<1> QED BY <1>7, <1>8, <1>9, <1>10, StepOf

LEMMA ServeStreamKeeps ==
  ASSUME IInv, NEW t \in Task, ServeStream(t)
  PROVE  IInv'
<1> DEFINE s == stream[t]
<1>1. s.stage = "send" /\ UNCHANGED <<idle, waiting, call>>
  BY DEF ServeStream
<1>2. /\ Local(t) /\ StreamOK(t, s) /\ StreamRan(s) /\ FirstRows(s)
      /\ Together(call[t], s, tx[t])
  BY DEF IInv, Local
<1>3. ~s.ran /\ s.of # None /\ s.of \in Calls[t] /\ s.end = "pending"
  BY <1>1, <1>2 DEF StreamOK, StreamRan, Live, Future
<1>4. PICK stage \in {"refused", "open"}, ran \in BOOLEAN :
        /\ stage = "open" <=> ran
        /\ stream' = [stream EXCEPT ![t] = [s EXCEPT !.stage = stage, !.ran = ran]]
        /\ tx' = [tx EXCEPT ![t] = tx'[t]] /\ TxOK(tx'[t]) /\ tx'[t].conn = tx[t].conn
        /\ stored' = [stored EXCEPT ![t] = stored'[t]] /\ stored'[t] \in Nat
  <2>1. CASE Refuses(t, s.of)
    <3>1. /\ stream' = [stream EXCEPT ![t].stage = "refused"] /\ stored' = stored
          /\ IF s.of.on = "tx" THEN Abort(t) ELSE tx' = tx
      BY <2>1 DEF ServeStream
    <3>2. tx' = [tx EXCEPT ![t] = tx'[t]] /\ TxOK(tx'[t]) /\ tx'[t].conn = tx[t].conn
      <4>1. CASE s.of.on = "tx"
        BY <4>1, <3>1, AbortOK DEF Abort
      <4>2. CASE s.of.on # "tx"
        BY <4>2, <3>1, <1>2 DEF IInv, Domains, Local
      <4> QED BY <4>1, <4>2
    <3>3. stored' = [stored EXCEPT ![t] = stored'[t]] /\ stored'[t] \in Nat
      BY <3>1, <1>2 DEF IInv, Domains, Local
    <3>4. stream' = [stream EXCEPT ![t] = [s EXCEPT !.stage = "refused", !.ran = FALSE]]
      BY <3>1, <1>2, <1>3 DEF StreamOK, Future, IInv, Domains
    <3> QED BY <3>2, <3>3, <3>4
  <2>2. CASE ~Refuses(t, s.of)
    <3>1. /\ stream' = [stream EXCEPT ![t].stage = "open", ![t].ran = TRUE]
          /\ Perform(t, s.of)
      BY <2>2 DEF ServeStream
    <3>2. /\ tx' = [tx EXCEPT ![t] = tx'[t]] /\ stored' = [stored EXCEPT ![t] = stored'[t]]
          /\ TxOK(tx'[t]) /\ tx'[t].conn = tx[t].conn /\ tx'[t].state = tx[t].state
          /\ stored'[t] \in Nat
      BY <1>3, <3>1, PerformOK
    <3>3. stream' = [stream EXCEPT ![t] = [s EXCEPT !.stage = "open", !.ran = TRUE]]
      BY <3>1 DEF IInv, Domains
    <3> QED BY <3>2, <3>3
  <2> QED BY <2>1, <2>2
<1> DEFINE new == [s EXCEPT !.stage = stage, !.ran = ran]
<1>5. stream'[t] = new /\ stream' = [stream EXCEPT ![t] = new]
  BY <1>4 DEF IInv, Domains
<1>6. /\ new \in Future(t) /\ new.op = s.op /\ new.of = s.of /\ new.stage = stage
      /\ new.conn = s.conn /\ new.ran = ran /\ new.end = s.end /\ new.got = s.got
  BY <1>2 DEF StreamOK, Future, Stage
<1> HIDE DEF new
<1>7. StreamOK(t, new)
  BY <1>1, <1>2, <1>3, <1>6 DEF StreamOK, Live
<1>8. StreamRan(new) /\ FirstRows(new)
  BY <1>1, <1>2, <1>3, <1>4, <1>6 DEF StreamRan, FirstRows, Live, NothingRan, ItRan
<1>9. Together(call[t], new, tx'[t])
  BY <1>1, <1>2, <1>4, <1>6 DEF Together
<1>10. Touches(t)
  BY <1>1, <1>4, <1>5 DEF Touches, IInv, Domains
<1>11. Local(t)'
  BY <1>1, <1>2, <1>4, <1>5, <1>7, <1>8, <1>9 DEF Local
<1>12. Line'
  BY <1>1, <1>5, <1>6, <1>10, LineStays
<1>13. Placed(idle, Hold)'
  BY <1>1, <1>4, <1>5, <1>6, <1>10, PlacesStay
<1> QED BY <1>10, <1>11, <1>12, <1>13, StepOf

LEMMA RefusalKeeps ==
  ASSUME IInv, NEW t \in Task, Refusal(t)
  PROVE  IInv'
<1>1. /\ Polled(t) /\ stream[t].stage = "refused" /\ Ends(t, "item", <<>>)
      /\ StreamEnds(t, "Database") /\ GiveBack(stream[t].conn)
      /\ UNCHANGED <<waiting, tx, stored>>
  BY DEF Refusal
<1>2. Local(t) /\ StreamOK(t, stream[t]) /\ StreamRan(stream[t])
  BY DEF IInv, Local
<1>3. /\ call' = [call EXCEPT ![t] = call'[t]]
      /\ call[t].conn = None /\ call[t].stage # "acquire"
      /\ call'[t].conn = None /\ call'[t].stage = "ended"
      /\ CallOK(t, call'[t]) /\ CallRan(call'[t]) /\ Gives(call'[t])
      /\ \A s, x : Together(call'[t], s, x)
  BY <1>1, PollEnds
<1>4. ~stream[t].ran /\ stream[t].stage \in Live
  BY <1>1, <1>2 DEF StreamRan, Live
<1>5. "Database" \in End \ {"pending"} /\ "Database" \notin ItRan /\ "Database" # "exhausted"
  BY DEF End, ItRan
<1>6. /\ stream' = [stream EXCEPT ![t] = stream'[t]]
      /\ stream'[t].conn = None /\ stream'[t].stage = "over"
      /\ StreamOK(t, stream'[t]) /\ StreamRan(stream'[t]) /\ FirstRows(stream'[t])
  BY <1>1, <1>4, <1>5, StreamEndedOK
<1>7. Touches(t)
  BY <1>1, <1>3, <1>6 DEF Touches, IInv, Domains
<1>8. Local(t)'
  BY <1>1, <1>2, <1>3, <1>6 DEF Local
<1>9. Line'
  BY <1>1, <1>3, <1>6, <1>7, LineStays
<1>10. Placed(idle, Hold)'
  BY <1>1, <1>3, <1>6, <1>7, StreamReturns
<1> QED BY <1>7, <1>8, <1>9, <1>10, StepOf

LEMMA ItemKeeps ==
  ASSUME IInv, NEW t \in Task, Item(t)
  PROVE  IInv'
<1> DEFINE s == stream[t]
           rows == s.of.stmt.rows
           n == Len(s.got) + 1
<1>1. /\ Polled(t) /\ s.stage = "open" /\ n <= Len(rows) /\ Ends(t, "item", <<>>)
      /\ UNCHANGED <<waiting, stored>>
  BY DEF Item
<1>2. /\ Local(t) /\ StreamOK(t, s) /\ StreamRan(s) /\ FirstRows(s)
  BY DEF IInv, Local
<1>3. /\ call[t].conn = None /\ call[t].stage # "acquire" /\ s.stage \in Live
      /\ s.ran /\ s.of # None /\ s.of \in Calls[t] /\ s.got \in Seq(Row)
  BY <1>1, <1>2, PollEnds DEF StreamOK, StreamRan, Future
<1>4. rows \in Seq(Row) /\ Len(rows) \in Nat /\ Len(s.got) \in Nat /\ rows[n] \in Row
  <2>1. rows \in Seq(Row) /\ Len(rows) \in Nat /\ Len(s.got) \in Nat
    BY <1>3, StartOK, LenProperties
  <2>2. n \in 1..Len(rows)
    BY <1>1, <2>1
  <2> QED BY <2>1, <2>2, ElementOfSeq
<1>5. "broken" \in End \ {"pending"} /\ "broken" \notin ItRan /\ "broken" \notin NothingRan
  BY DEF End, ItRan, NothingRan
<1>6. /\ call' = [call EXCEPT ![t] = call'[t]]
      /\ call'[t].conn = None /\ call'[t].stage = "ended"
      /\ CallOK(t, call'[t]) /\ CallRan(call'[t]) /\ Gives(call'[t])
      /\ \A z, x : Together(call'[t], z, x)
  BY <1>1, PollEnds
<1>7. CASE rows[n] = "fails"
  <2>1. /\ StreamEnds(t, "broken") /\ GiveBack(s.conn)
        /\ IF s.of.on = "tx" THEN Abort(t) ELSE tx' = tx
    BY <1>7 DEF Item
  <2>2. /\ stream' = [stream EXCEPT ![t] = stream'[t]]
        /\ stream'[t].conn = None /\ stream'[t].stage = "over"
        /\ StreamOK(t, stream'[t]) /\ StreamRan(stream'[t]) /\ FirstRows(stream'[t])
    BY <1>3, <1>5, <2>1, StreamEndedOK
  <2>3. tx' = [tx EXCEPT ![t] = tx'[t]] /\ TxOK(tx'[t]) /\ tx'[t].conn = tx[t].conn
    <3>1. CASE s.of.on = "tx"
      BY <3>1, <2>1, AbortOK DEF Abort
    <3>2. CASE s.of.on # "tx"
      BY <3>2, <2>1, <1>2 DEF IInv, Domains, Local
    <3> QED BY <3>1, <3>2
  <2>4. Touches(t)
    BY <1>1, <1>6, <2>2, <2>3 DEF Touches, IInv, Domains
  <2>5. Local(t)'
    BY <1>1, <1>2, <1>6, <2>2, <2>3 DEF Local
  <2>6. Line'
    BY <1>1, <1>3, <1>6, <2>2, <2>4, LineStays
  <2>7. Placed(idle, Hold)'
    BY <1>3, <1>6, <2>1, <2>2, <2>3, <2>4, StreamReturns
  <2> QED BY <2>4, <2>5, <2>6, <2>7, StepOf
<1>8. CASE rows[n] # "fails"
  <2> DEFINE new == [s EXCEPT !.got = Append(s.got, rows[n])]
  <2>1. /\ stream' = [stream EXCEPT ![t].got = Append(s.got, rows[n])]
        /\ idle' = idle /\ tx' = tx
    BY <1>8 DEF Item
  <2>2. /\ Append(s.got, rows[n]) \in Seq(Row) /\ Append(s.got, rows[n]) # <<>>
        /\ Len(Append(s.got, rows[n])) = n
        /\ \A i \in 1..Len(s.got) : Append(s.got, rows[n])[i] = s.got[i]
        /\ Append(s.got, rows[n])[n] = rows[n]
    BY <1>3, <1>4, AppendProperties
  <2>3. stream'[t] = new /\ stream' = [stream EXCEPT ![t] = new]
    BY <2>1 DEF IInv, Domains
  <2>4. /\ new \in Future(t) /\ new.op = s.op /\ new.of = s.of /\ new.stage = s.stage
        /\ new.conn = s.conn /\ new.ran = s.ran /\ new.end = s.end
        /\ new.got = Append(s.got, rows[n])
    BY <1>2, <2>2 DEF StreamOK, Future
  <2> HIDE DEF new
  <2>5. StreamOK(t, new) /\ StreamRan(new)
    BY <1>2, <1>3, <2>4 DEF StreamOK, StreamRan, Live
  <2>6. FirstRows(new)
    <3>1. Len(new.got) <= Len(rows)
      BY <1>1, <2>2, <2>4
    <3>2. \A i \in 1..Len(new.got) : new.got[i] = rows[i]
      <4> SUFFICES ASSUME NEW i \in 1..Len(new.got) PROVE new.got[i] = rows[i]
        OBVIOUS
      <4>1. CASE i = n
        BY <4>1, <2>2, <2>4
      <4>2. CASE i # n
        <5>1. i \in 1..Len(s.got)
          BY <4>2, <2>2, <2>4, <1>4
        <5>2. s.got[i] = rows[i]
          BY <5>1, <1>2, <1>3 DEF FirstRows
        <5> QED BY <5>1, <5>2, <2>2, <2>4
      <4> QED BY <4>1, <4>2
    <3>3. new.end # "exhausted"
      BY <1>2, <1>3, <2>4 DEF StreamOK
    <3> QED BY <3>1, <3>2, <3>3, <2>4 DEF FirstRows
  <2>7. Together(call'[t], new, tx[t])
    BY <1>6
  <2>8. Touches(t)
    BY <1>1, <1>6, <2>1, <2>3 DEF Touches, IInv, Domains
  <2>9. Local(t)'
    BY <1>1, <1>2, <1>6, <2>1, <2>3, <2>5, <2>6, <2>7 DEF Local
  <2>10. Line'
    BY <1>1, <1>3, <1>6, <2>3, <2>4, <2>8, LineStays
  <2>11. Placed(idle, Hold)'
    BY <1>3, <1>6, <2>1, <2>3, <2>4, <2>8, PlacesStay
  <2> QED BY <2>8, <2>9, <2>10, <2>11, StepOf
<1> QED BY <1>7, <1>8

LEMMA ExhaustKeeps ==
  ASSUME IInv, NEW t \in Task, Exhaust(t)
  PROVE  IInv'
<1> DEFINE s == stream[t]
<1>1. /\ Polled(t) /\ s.stage = "open" /\ Len(s.got) = Len(s.of.stmt.rows)
      /\ StreamEnds(t, "exhausted") /\ GiveBack(s.conn) /\ Ends(t, "item", <<>>)
      /\ UNCHANGED <<waiting, tx, stored>>
  BY DEF Exhaust, EndOf
<1>2. /\ Local(t) /\ StreamOK(t, s) /\ StreamRan(s) /\ FirstRows(s)
  BY DEF IInv, Local
<1>3. /\ call[t].conn = None /\ call[t].stage # "acquire" /\ s.stage \in Live
      /\ s.ran /\ s.of # None /\ s.of \in Calls[t] /\ s.got \in Seq(Row)
  BY <1>1, <1>2, PollEnds DEF StreamOK, StreamRan, Future
<1>4. s.got = s.of.stmt.rows
  <2>1. s.of.stmt.rows \in Seq(Row)
    BY <1>3, StartOK
  <2>2. \A i \in 1..Len(s.got) : s.got[i] = s.of.stmt.rows[i]
    BY <1>2, <1>3 DEF FirstRows
  <2> QED BY <1>1, <1>3, <2>1, <2>2, SeqEqual
<1>5. "exhausted" \in End \ {"pending"} /\ "exhausted" \notin NothingRan
  BY DEF End, NothingRan
<1>6. /\ call' = [call EXCEPT ![t] = call'[t]]
      /\ call'[t].conn = None /\ call'[t].stage = "ended"
      /\ CallOK(t, call'[t]) /\ CallRan(call'[t]) /\ Gives(call'[t])
      /\ \A z, x : Together(call'[t], z, x)
  BY <1>1, PollEnds
<1>7. /\ stream' = [stream EXCEPT ![t] = stream'[t]]
      /\ stream'[t].conn = None /\ stream'[t].stage = "over"
      /\ StreamOK(t, stream'[t]) /\ StreamRan(stream'[t]) /\ FirstRows(stream'[t])
  BY <1>1, <1>3, <1>4, <1>5, StreamEndedOK
<1>8. Touches(t)
  BY <1>1, <1>6, <1>7 DEF Touches, IInv, Domains
<1>9. Local(t)'
  BY <1>1, <1>2, <1>6, <1>7 DEF Local
<1>10. Line'
  BY <1>1, <1>3, <1>6, <1>7, <1>8, LineStays
<1>11. Placed(idle, Hold)'
  BY <1>1, <1>3, <1>6, <1>7, <1>8, StreamReturns
<1> QED BY <1>8, <1>9, <1>10, <1>11, StepOf

LEMMA LoseKeeps ==
  ASSUME IInv, NEW t \in Task, Lose(t)
  PROVE  IInv'
<1>1. /\ call[t].stage \in {"send", "answered"} /\ Ends(t, "Io", <<>>)
      /\ UNCHANGED <<waiting, stream, stored>> /\ ~Free(t)
  BY DEF Lose, Free
<1>2. Local(t) /\ CallOK(t, call[t])
  BY DEF IInv, Local
<1>3. /\ "Io" \in End \ {"pending"} /\ <<>> \in Seq(Row) /\ "Io" # "Ok"
      /\ "Io" \notin ItRan /\ "Io" \notin NothingRan
  BY EmptySeq DEF End, ItRan, NothingRan
<1>4. /\ call' = [call EXCEPT ![t] = call'[t]]
      /\ call'[t].conn = None /\ call'[t].stage = "ended"
      /\ CallOK(t, call'[t]) /\ CallRan(call'[t]) /\ Gives(call'[t])
      /\ \A z, x : Together(call'[t], z, x)
  BY <1>1, <1>3, EndedOK, NothingGiven
<1>5. CASE call[t].op = "commit"
  <2>1. GiveBack(tx[t].conn) /\ tx' = [tx EXCEPT ![t] = NoTx]
    BY <1>5 DEF Lose, Terminal
  <2>2. tx'[t] = NoTx /\ TxOK(NoTx) /\ NoTx.conn = None /\ call[t].conn = None
    BY <1>2, <1>5, <2>1 DEF IInv, Domains, TxOK, NoTx, CallOK, Terminal
  <2>3. Touches(t)
    BY <1>1, <1>4, <2>1, <2>2 DEF Touches, IInv, Domains
  <2>4. Local(t)'
    BY <1>1, <1>2, <1>4, <2>2 DEF Local
  <2>5. Line'
    BY <1>1, <1>4, <2>3, LineStays
  <2>6. Placed(idle, Hold)'
    BY <1>1, <1>4, <1>5, <2>1, <2>2, <2>3, TxReturns
  <2> QED BY <2>3, <2>4, <2>5, <2>6, StepOf
<1>6. CASE call[t].op \in Terminal /\ call[t].of.on = "tx"
  <2>1. /\ tx' = [tx EXCEPT ![t].state = "lost", ![t].writes = 0] /\ idle' = idle
    BY <1>6 DEF Lose, LoseTx, Terminal
  <2>2. tx' = [tx EXCEPT ![t] = tx'[t]] /\ TxOK(tx'[t]) /\ tx'[t].conn = tx[t].conn
    BY <2>1, AbortOK
  <2>3. call[t].conn = None
    BY <1>2, <1>6 DEF CallOK
  <2>4. Touches(t)
    BY <1>1, <1>4, <2>2 DEF Touches, IInv, Domains
  <2>5. Local(t)'
    BY <1>1, <1>2, <1>4, <2>2 DEF Local
  <2>6. Line'
    BY <1>1, <1>4, <2>4, LineStays
  <2>7. Placed(idle, Hold)'
    BY <1>1, <1>4, <2>1, <2>2, <2>3, <2>4, PlacesStay
  <2> QED BY <2>4, <2>5, <2>6, <2>7, StepOf
<1>7. CASE call[t].op # "commit" /\ ~(call[t].op \in Terminal /\ call[t].of.on = "tx")
  <2>1. GiveBack(call[t].conn) /\ tx' = tx
    BY <1>7 DEF Lose
  <2>2. Touches(t)
    BY <1>1, <1>4, <2>1 DEF Touches, IInv, Domains
  <2>3. Local(t)'
    BY <1>1, <1>2, <1>4, <2>1 DEF Local
  <2>4. Line'
    BY <1>1, <1>4, <2>2, LineStays
  <2>5. Placed(idle, Hold)'
    BY <1>1, <1>4, <2>1, <2>2, CallReturns
  <2> QED BY <2>2, <2>3, <2>4, <2>5, StepOf
<1> QED BY <1>5, <1>6, <1>7

LEMMA LoseStreamKeeps ==
  ASSUME IInv, NEW t \in Task, LoseStream(t)
  PROVE  IInv'
<1>1. /\ Polled(t) /\ stream[t].stage \in {"send", "refused", "open"} /\ Ends(t, "item", <<>>)
      /\ StreamEnds(t, "Io") /\ UNCHANGED <<waiting, stored>>
      /\ IF stream[t].of.on = "tx" THEN LoseTx(t) /\ idle' = idle
         ELSE GiveBack(stream[t].conn) /\ tx' = tx
  BY DEF LoseStream
<1>2. Local(t) /\ StreamOK(t, stream[t])
  BY DEF IInv, Local
<1>3. /\ call' = [call EXCEPT ![t] = call'[t]]
      /\ call[t].conn = None /\ call[t].stage # "acquire"
      /\ call'[t].conn = None /\ call'[t].stage = "ended"
      /\ CallOK(t, call'[t]) /\ CallRan(call'[t]) /\ Gives(call'[t])
      /\ \A s, x : Together(call'[t], s, x)
      /\ stream[t].stage \in Live /\ stream[t].of # None
  BY <1>1, PollEnds
<1>4. /\ "Io" \in End \ {"pending"} /\ "Io" \notin ItRan /\ "Io" \notin NothingRan
      /\ "Io" # "exhausted"
  BY DEF End, ItRan, NothingRan
<1>5. /\ stream' = [stream EXCEPT ![t] = stream'[t]]
      /\ stream'[t].conn = None /\ stream'[t].stage = "over"
      /\ StreamOK(t, stream'[t]) /\ StreamRan(stream'[t]) /\ FirstRows(stream'[t])
  BY <1>1, <1>3, <1>4, StreamEndedOK
<1>6. CASE stream[t].of.on = "tx"
  <2>1. tx' = [tx EXCEPT ![t] = tx'[t]] /\ TxOK(tx'[t]) /\ tx'[t].conn = tx[t].conn
    BY <1>1, <1>6, AbortOK DEF LoseTx
  <2>2. stream[t].conn = None
    BY <1>2, <1>3, <1>6 DEF StreamOK
  <2>3. Touches(t)
    BY <1>1, <1>3, <1>5, <2>1 DEF Touches, IInv, Domains
  <2>4. Local(t)'
    BY <1>1, <1>2, <1>3, <1>5, <2>1 DEF Local
  <2>5. Line'
    BY <1>1, <1>3, <1>5, <2>3, LineStays
  <2>6. Placed(idle, Hold)'
    BY <1>1, <1>3, <1>5, <1>6, <2>1, <2>2, <2>3, PlacesStay
  <2> QED BY <2>3, <2>4, <2>5, <2>6, StepOf
<1>7. CASE stream[t].of.on # "tx"
  <2>1. GiveBack(stream[t].conn) /\ tx' = tx
    BY <1>1, <1>7
  <2>2. Touches(t)
    BY <1>1, <1>3, <1>5, <2>1 DEF Touches, IInv, Domains
  <2>3. Local(t)'
    BY <1>1, <1>2, <1>3, <1>5, <2>1 DEF Local
  <2>4. Line'
    BY <1>1, <1>3, <1>5, <2>2, LineStays
  <2>5. Placed(idle, Hold)'
    BY <1>3, <1>5, <2>1, <2>2, StreamReturns
  <2> QED BY <2>2, <2>3, <2>4, <2>5, StepOf
<1> QED BY <1>6, <1>7
-----------------------------------------------------------------------------
(* The invariant holds, and what it says.                                  *)

LEMMA InitHolds == Init => IInv
<1> SUFFICES ASSUME Init PROVE IInv
  OBVIOUS
<1>1. \A t \in Task : call[t] = Nothing /\ stream[t] = Nothing /\ tx[t] = NoTx /\ stored[t] = 0
  BY DEF Init
<1>2. Domains
  BY DEF Init, Domains
<1>3. \A t \in Task : Local(t)
  <2> SUFFICES ASSUME NEW t \in Task PROVE Local(t)
    OBVIOUS
  <2>1. Nothing \in Future(t)
    BY EmptySeq DEF Nothing, Future, Stage, End
  <2>2. CallOK(t, Nothing) /\ CallRan(Nothing) /\ Gives(Nothing)
    BY <2>1 DEF CallOK, CallRan, Gives, Nothing, Underway, Terminal
  <2>3. StreamOK(t, Nothing) /\ StreamRan(Nothing) /\ FirstRows(Nothing)
    BY <2>1 DEF StreamOK, StreamRan, FirstRows, Nothing, Live
  <2>4. TxOK(NoTx) /\ Together(Nothing, Nothing, NoTx)
    BY DEF TxOK, NoTx, Together, Nothing
  <2> QED BY <1>1, <2>2, <2>3, <2>4 DEF Local
<1>4. Line
  <2>1. waiting = <<>> /\ waiting \in Seq(Waiter) /\ DOMAIN waiting = {}
    BY EmptySeq, LenProperties DEF Init
  <2>2. \A x \in Waiter : At[x] = "ended"
    <3> SUFFICES ASSUME NEW x \in Waiter PROVE At[x] = "ended"
      OBVIOUS
    <3>1. PICK t \in Task : x \in {<<t, "call">>, <<t, "stream">>}
      BY AtOf
    <3>2. call[t].stage = "ended" /\ stream[t].stage = "ended"
      BY <1>1 DEF Nothing
    <3> QED BY <3>1, <3>2, AtOf
  <2> QED BY <2>1, <2>2 DEF Line, InLine
<1>5. Placed(idle, Hold)
  <2>1. idle = Connection
    BY DEF Init
  <2>2. \A x \in Holder : Hold[x] = None
    <3> SUFFICES ASSUME NEW x \in Holder PROVE Hold[x] = None
      OBVIOUS
    <3>1. PICK t \in Task : x \in {<<t, "call">>, <<t, "stream">>, <<t, "tx">>}
      BY HoldOf
    <3>2. call[t].conn = None /\ stream[t].conn = None /\ tx[t].conn = None
      BY <1>1 DEF Nothing, NoTx
    <3> QED BY <3>1, <3>2, HoldOf
  <2>3. Hold \in [Holder -> Connection \cup {None}]
    BY <2>2, HoldOf
  <2> QED BY <2>1, <2>2, <2>3, ExecutionAssumption DEF Placed
<1> QED BY <1>2, <1>3, <1>4, <1>5 DEF IInv

LEMMA StepHolds == IInv /\ [Next]_vars => IInv'
<1> SUFFICES ASSUME IInv, [Next]_vars PROVE IInv'
  OBVIOUS
<1>1. CASE UNCHANGED vars
  <2>1. UNCHANGED <<idle, waiting, call, stream, tx, stored>>
    BY <1>1 DEF vars
  <2>2. Domains'
    BY <2>1 DEF IInv, Domains
  <2>3. \A t \in Task : Local(t)'
    BY <2>1 DEF IInv, Local
  <2>4. Line'
    BY <2>1 DEF IInv, Line, At, InLine
  <2>5. Hold' = Hold
    BY <2>1 DEF Hold
  <2>6. Placed(idle, Hold)'
    BY <2>1, <2>5 DEF IInv, Placed
  <2> QED BY <2>2, <2>3, <2>4, <2>6 DEF IInv
<1>2. CASE Next
  <2>1. PICK t \in Task : Caller(t) \/ Driver(t) \/ Lose(t) \/ LoseStream(t)
    BY <1>2 DEF Next
  <2>2. CASE Caller(t)
    BY <2>2, AwaitKeeps, OpenKeeps, NextRowKeeps, DropStreamKeeps, BeginKeeps, CommitKeeps,
       RollbackKeeps, CancelKeeps DEF Caller
  <2>3. CASE Driver(t)
    BY <2>3, BindKeeps, AcquireKeeps, AcquireStreamKeeps, TimeOutKeeps, TimeOutStreamKeeps,
       ServeKeeps, ServeStreamKeeps, ServeBeginKeeps, ServeCommitKeeps, FinishKeeps,
       FinishCommitKeeps, RefusalKeeps, ItemKeeps, ExhaustKeeps, LoseKeeps, LoseStreamKeeps
       DEF Driver
  <2>4. CASE Lose(t) \/ LoseStream(t)
    BY <2>4, LoseKeeps, LoseStreamKeeps
  <2> QED BY <2>1, <2>2, <2>3, <2>4
<1> QED BY <1>1, <1>2

\* What is known of every task, of the line and of every connection holds in
\* every reachable state (LoadExt, ExecuteExt, the pool).
THEOREM Invariance == Spec => []IInv
BY InitHolds, StepHolds, PTL DEF Spec
-----------------------------------------------------------------------------
(* What it says of the properties the runs check.                          *)

\* Futures, streams and transactions are of their types, and the line has
\* each call and each stream that waits for a connection, once.
THEOREM TypeCorrect == Spec => []TypeOK
<1>1. IInv => TypeOK
  <2> SUFFICES ASSUME IInv PROVE TypeOK
    OBVIOUS
  <2>1. idle \subseteq Connection
    BY DEF IInv, Placed
  <2>2. /\ waiting \in Seq(Waiter)
        /\ \A i, j \in DOMAIN waiting : waiting[i] = waiting[j] => i = j
        /\ \A t \in Task : /\ call[t].stage = "acquire" <=> InLine(<<t, "call">>)
                           /\ stream[t].stage = "acquire" <=> InLine(<<t, "stream">>)
    BY AtOf DEF IInv, Line
  <2>3. \A t \in Task : call[t] \in Future(t) /\ stream[t] \in Future(t)
    BY DEF IInv, Local, CallOK, StreamOK
  <2>4. DOMAIN call = Task /\ DOMAIN stream = Task
    BY DEF IInv, Domains
  <2>5. tx \in [Task -> [conn : Connection \cup {None}, writes : Nat,
                         state : {"none", "open", "aborted", "lost", "committed"}]]
    BY DEF IInv, Domains, Local, TxOK
  <2>6. stored \in [Task -> Nat]
    BY DEF IInv, Domains, Local
  <2> QED BY <2>1, <2>2, <2>3, <2>4, <2>5, <2>6 DEF TypeOK
<1> QED BY Invariance, <1>1, PTL

\* Who holds a connection, of each task's call, stream and transaction.
LEMMA HoldersOf ==
  ASSUME NEW c \in Connection
  PROVE  Holders(c) = {x \in Holder : Hold[x] = c}
<1>1. ASSUME NEW x \in Holders(c) PROVE x \in Holder /\ Hold[x] = c
  <2>1. PICK t \in Task : \/ x = <<t, "call">> /\ call[t].conn = c
                          \/ x = <<t, "stream">> /\ stream[t].conn = c
                          \/ x = <<t, "tx">> /\ tx[t].conn = c
    BY <1>1 DEF Holders
  <2>2. x \in Holder
    BY <2>1 DEF Holder
  <2> QED BY <2>1, <2>2, HoldOf
<1>2. ASSUME NEW x \in Holder, Hold[x] = c PROVE x \in Holders(c)
  <2>1. PICK t \in Task : x \in {<<t, "call">>, <<t, "stream">>, <<t, "tx">>}
    BY HoldOf
  <2>2. CASE x = <<t, "call">>
    BY <1>2, <2>2, HoldOf DEF Holders
  <2>3. CASE x = <<t, "stream">>
    BY <1>2, <2>3, HoldOf DEF Holders
  <2>4. CASE x = <<t, "tx">>
    BY <1>2, <2>4, HoldOf DEF Holders
  <2> QED BY <2>1, <2>2, <2>3, <2>4
<1> QED BY <1>1, <1>2

\* A connection is in the pool or with one call, stream or transaction under
\* way, however calls end (LoadExt::stream, PgExecutor).
THEOREM ConnectionsPlaced == Spec => []EveryConnectionHasItsPlace
<1>1. IInv => EveryConnectionHasItsPlace
  <2> SUFFICES ASSUME IInv PROVE EveryConnectionHasItsPlace
    OBVIOUS
  <2>1. ASSUME NEW c \in Connection
        PROVE  IF c \in idle THEN Holders(c) = {} ELSE \E h \in Holders(c) : Holders(c) = {h}
    <3>1. c # None
      BY ExecutionAssumption
    <3>2. CASE c \in idle
      BY <3>2, HoldersOf DEF IInv, Placed
    <3>3. CASE c \notin idle
      <4>1. PICK h \in Holder : Hold[h] = c
        BY <3>3 DEF IInv, Placed
      <4>2. \A x \in Holder : Hold[x] = c => x = h
        BY <4>1, <3>1 DEF IInv, Placed
      <4> QED BY <4>1, <4>2, <3>3, HoldersOf
    <3> QED BY <3>2, <3>3
  <2>2. \A t \in Task : Free(t) => call[t].conn = None
    BY DEF IInv, Local, CallOK, Free
  <2>3. \A t \in Task : stream[t].stage \in {"over", "ended"} => stream[t].conn = None
    BY DEF IInv, Local, StreamOK
  <2> QED BY <2>1, <2>2, <2>3 DEF EveryConnectionHasItsPlace
<1> QED BY Invariance, <1>1, PTL

\* What a call or a stream ends in is true of the database (Error).
THEOREM EndsSayWhatRan == Spec => []AnEndSaysWhatRan
<1>1. IInv => AnEndSaysWhatRan
  <2> SUFFICES ASSUME IInv, NEW t \in Task, NEW f \in {call[t], stream[t]}, f.of # None
               PROVE  /\ f.end \in NothingRan => ~f.ran
                      /\ f.end \in ItRan => f.ran
                      /\ f.of.stmt.binds # "all" => ~f.ran /\ f.conn = None
    BY DEF AnEndSaysWhatRan
  <2>1. Local(t)
    BY DEF IInv
  <2>2. CASE f = call[t]
    BY <2>1, <2>2 DEF Local, CallOK, CallRan
  <2>3. CASE f = stream[t]
    BY <2>1, <2>3 DEF Local, StreamOK, StreamRan
  <2> QED BY <2>2, <2>3
<1> QED BY Invariance, <1>1, PTL

\* load gives every row or an error, load_one the first, and a stream what
\* load would (fetch_all, fetch_optional, LoadExt::stream).
THEOREM RowsComplete == Spec => []NoRowIsLeftOut
<1>1. IInv => NoRowIsLeftOut
  <2> SUFFICES ASSUME IInv, NEW t \in Task
               PROVE  /\ Gives(call[t])
                      /\ stream[t].end = "exhausted" =>
                           Given(t) = Result([stream[t].of EXCEPT !.op = "load"])
    BY DEF NoRowIsLeftOut, Gives
  <2>1. Local(t)
    BY DEF IInv
  <2>2. ASSUME stream[t].end = "exhausted"
        PROVE  Given(t) = Result([stream[t].of EXCEPT !.op = "load"])
    <3>1. stream[t].of # None /\ stream[t].of \in Calls[t]
      <4>1. stream[t] \in Future(t) /\ stream[t].op \in {"stream", "none"}
        BY <2>1 DEF Local, StreamOK
      <4>2. stream[t].op # "none"
        BY <2>1, <2>2 DEF Local, StreamOK
      <4> QED BY <2>1, <4>1, <4>2 DEF Local, StreamOK, Future
    <3>2. stream[t].got = stream[t].of.stmt.rows
      BY <2>1, <2>2, <3>1 DEF Local, FirstRows
    <3> DEFINE c == stream[t].of
               d == [c EXCEPT !.op = "load"]
    <3>3. c = [op |-> c.op, stmt |-> c.stmt, on |-> c.on]
      BY <3>1, ExecutionAssumption
    <3>4. d.op = "load" /\ d.stmt = c.stmt
      BY <3>3
    <3> HIDE DEF d
    <3>5. Result(d) = Decoded(c.stmt.rows)
      BY <3>4 DEF Result
    <3> QED BY <3>2, <3>5 DEF Given, d
  <2> QED BY <2>1, <2>2 DEF Local
<1> QED BY Invariance, <1>1, PTL
-----------------------------------------------------------------------------
(***************************************************************************)
(* Execution implements UnitOfWork, for any tasks, connections and calls:  *)
(* every step of it asks, runs, commits, tells, abandons or forgets, or is *)
(* one the abstraction does not see.                                       *)
(***************************************************************************)
\* What the abstraction sees of a future, and of a transaction.
Seen == Terminal \cup {"stream", "commit"}
What(f) == IF f.op \in Seen THEN Asked(f) ELSE AbstractNothing
Work == [t \in Task |-> tx[t].writes]

Slots == {"call", "stream"}

\* Whether what a future is for is in the transaction.
Inside(f) == f.op = "commit" \/ (f.of # None /\ f.of.on = "tx")

LEMMA StatesAre ==
  /\ States = [x \in Task \X Slots |-> IF x[2] = "call" THEN What(call[x[1]]) ELSE What(stream[x[1]])]
  /\ States' = [x \in Task \X Slots |-> IF x[2] = "call" THEN What(call'[x[1]]) ELSE What(stream'[x[1]])]
BY DEF States, What, Seen, Slots

\* One task's step, of its call, of its stream, or of neither.
LEMMA Moves ==
  ASSUME IInv, NEW t \in Task,
         call' = [call EXCEPT ![t] = call'[t]], stream' = [stream EXCEPT ![t] = stream'[t]]
  PROVE  /\ What(stream'[t]) = What(stream[t]) =>
              States' = [States EXCEPT ![<<t, "call">>] = What(call'[t])]
         /\ What(call'[t]) = What(call[t]) =>
              States' = [States EXCEPT ![<<t, "stream">>] = What(stream'[t])]
         /\ What(stream'[t]) = What(stream[t]) /\ What(call'[t]) = What(call[t]) =>
              States' = States
<1>1. \A u \in Task \ {t} : call'[u] = call[u] /\ stream'[u] = stream[u]
  BY DEF IInv, Domains
<1>2. \A x \in Task \X Slots :
        IF x[2] = "call" THEN States[x] = What(call[x[1]]) /\ States'[x] = What(call'[x[1]])
        ELSE States[x] = What(stream[x[1]]) /\ States'[x] = What(stream'[x[1]])
  BY StatesAre
<1>3. /\ States = [x \in Task \X Slots |-> States[x]]
      /\ States' = [x \in Task \X Slots |-> States'[x]]
  BY StatesAre
<1>4. \A x \in (Task \X Slots) \ {<<t, "call">>, <<t, "stream">>} : States'[x] = States[x]
  <2> SUFFICES ASSUME NEW x \in Task \X Slots, x # <<t, "call">>, x # <<t, "stream">>
               PROVE  States'[x] = States[x]
    OBVIOUS
  <2>1. x[1] \in Task \ {t}
    BY DEF Slots
  <2> QED BY <1>1, <1>2, <2>1
<1>5. /\ <<t, "call">> \in Task \X Slots /\ <<t, "stream">> \in Task \X Slots
      /\ States[<<t, "call">>] = What(call[t]) /\ States'[<<t, "call">>] = What(call'[t])
      /\ States[<<t, "stream">>] = What(stream[t])
      /\ States'[<<t, "stream">>] = What(stream'[t])
  BY <1>2 DEF Slots
<1>6. ASSUME What(stream'[t]) = What(stream[t])
      PROVE  States' = [States EXCEPT ![<<t, "call">>] = What(call'[t])]
  BY <1>3, <1>4, <1>5, <1>6
<1>7. ASSUME What(call'[t]) = What(call[t])
      PROVE  States' = [States EXCEPT ![<<t, "stream">>] = What(stream'[t])]
  BY <1>3, <1>4, <1>5, <1>7
<1>8. ASSUME What(stream'[t]) = What(stream[t]), What(call'[t]) = What(call[t])
      PROVE  States' = States
  BY <1>3, <1>4, <1>5, <1>8
<1> QED BY <1>6, <1>7, <1>8

LEMMA SlotOf ==
  ASSUME NEW t \in Task
  PROVE  /\ <<t, "call">> \in Task \X Slots /\ <<t, "stream">> \in Task \X Slots
         /\ States[<<t, "call">>] = What(call[t]) /\ States[<<t, "stream">>] = What(stream[t])
         /\ <<t, "call">>[1] = t /\ <<t, "stream">>[1] = t
BY StatesAre DEF Slots

\* Work in hand, where a step leaves it, changes it or ends it.
LEMMA WorkMoves ==
  ASSUME IInv, NEW t \in Task
  PROVE  /\ tx' = tx => Work' = Work
         /\ tx' = [tx EXCEPT ![t] = tx'[t]] => Work' = [Work EXCEPT ![t] = tx'[t].writes]
         /\ Work[t] = tx[t].writes
BY DEF IInv, Domains, Work

\* A future that stays what it is, that is told its end, or that has run.
LEMMA Same ==
  ASSUME NEW f, NEW g, g.op = f.op, g.of = f.of
  PROVE  /\ f.op \in Seen => /\ What(f).ran = f.ran /\ What(f).told = Tells(f)
                             /\ What(f).inside = Asked(f).inside
         /\ f.op \notin Seen => What(g) = What(f)
         /\ g.ran = f.ran /\ g.end = f.end => What(g) = What(f)
         /\ f.op \in Seen /\ g.ran = f.ran => What(g) = [What(f) EXCEPT !.told = Tells(g)]
         /\ f.op \in Seen /\ g.end = f.end /\ g.ran = TRUE => What(g) = [What(f) EXCEPT !.ran = TRUE]
<1> DEFINE inside(h) == h.op = "commit" \/ (h.of # None /\ h.of.on = "tx")
           seen(h) == [inside |-> inside(h), ran |-> h.ran, told |-> Tells(h)]
<1>1. Asked(f) = seen(f) /\ Asked(g) = seen(g)
  BY DEF Asked
<1>2. inside(g) = inside(f)
  OBVIOUS
<1>3. g.end = f.end => Tells(g) = Tells(f)
  BY DEF Tells
<1> HIDE DEF inside
<1>4. f.op \in Seen => What(f) = seen(f) /\ What(g) = seen(g)
  BY <1>1 DEF What
<1>5. f.op \notin Seen => What(g) = What(f)
  BY DEF What
<1>6. f.op \in Seen /\ g.ran = f.ran => What(g) = [What(f) EXCEPT !.told = Tells(g)]
  BY <1>2, <1>4
<1>7. f.op \in Seen /\ g.end = f.end /\ g.ran = TRUE => What(g) = [What(f) EXCEPT !.ran = TRUE]
  BY <1>2, <1>3, <1>4
<1>8. g.ran = f.ran /\ g.end = f.end => What(g) = What(f)
  BY <1>2, <1>3, <1>4, <1>5
<1>9. f.op \in Seen => /\ What(f).ran = f.ran /\ What(f).told = Tells(f)
                       /\ What(f).inside = Asked(f).inside
  BY <1>1, <1>4
<1> QED BY <1>5, <1>6, <1>7, <1>8, <1>9

LEMMA StaysWhatItIs ==
  ASSUME NEW f, NEW g, g.op = f.op, g.of = f.of, g.ran = f.ran, g.end = f.end
  PROVE  What(g) = What(f)
BY Same

LEMMA TellsOnly ==
  ASSUME NEW f, NEW g, g.op = f.op, g.of = f.of, g.ran = f.ran, f.op \in Seen
  PROVE  What(g) = [What(f) EXCEPT !.told = Tells(g)]
BY Same

LEMMA Telling ==
  ASSUME NEW f
  PROVE  /\ f.end = "pending" <=> Tells(f) = "pending"
         /\ f.end \in ItRan => Tells(f) = "done"
         /\ f.end \in NothingRan => Tells(f) = "not done"
         /\ f.end \notin ItRan \cup NothingRan \cup {"pending"} => Tells(f) = "unknown"
BY DEF Tells, ItRan, NothingRan
-----------------------------------------------------------------------------
(* The steps the abstraction knows.                                        *)

\* A step of t that is none to the abstraction.
LEMMA Stutters ==
  ASSUME IInv, NEW t \in Task,
         call' = [call EXCEPT ![t] = call'[t]], stream' = [stream EXCEPT ![t] = stream'[t]],
         What(call'[t]) = What(call[t]), What(stream'[t]) = What(stream[t]),
         Work' = Work, stored' = stored
  PROVE  UNCHANGED Promise!vars
BY Moves DEF Promise!vars, Work

\* The end of a call, and of a stream, told.
LEMMA TellsOfCall ==
  ASSUME IInv, NEW t \in Task,
         call' = [call EXCEPT ![t] = call'[t]], stream' = [stream EXCEPT ![t] = stream'[t]],
         What(stream'[t]) = What(stream[t]), call[t].op \in Seen, call[t].end = "pending",
         call'[t].op = call[t].op, call'[t].of = call[t].of, call'[t].ran = call[t].ran,
         Tells(call'[t]) \in {IF call[t].ran THEN "done" ELSE "not done", "unknown"},
         Work' = Work \/ Work' = [Work EXCEPT ![t] = 0], stored' = stored
  PROVE  Promise!Next
<1> DEFINE x == <<t, "call">>
<1>1. States[x] = What(call[t]) /\ x \in Task \X Slots /\ x[1] = t
  BY SlotOf
<1>2. /\ What(call[t]).ran = call[t].ran /\ What(call[t]).told = "pending"
      /\ What(call'[t]) = [What(call[t]) EXCEPT !.told = Tells(call'[t])]
  <2>1. Tells(call[t]) = "pending"
    BY Telling
  <2> QED BY <2>1, Same
<1>3. States' = [States EXCEPT ![x] = What(call'[t])]
  BY Moves
<1>4. States' = [States EXCEPT ![x].told = Tells(call'[t])]
  BY <1>1, <1>2, <1>3
<1> HIDE DEF x
<1>5. Promise!Tell(x)
  BY <1>1, <1>2, <1>4 DEF Promise!Tell, Work
<1> QED BY <1>1, <1>5 DEF Promise!Next, Slots

LEMMA TellsOfStream ==
  ASSUME IInv, NEW t \in Task,
         call' = [call EXCEPT ![t] = call'[t]], stream' = [stream EXCEPT ![t] = stream'[t]],
         What(call'[t]) = What(call[t]), stream[t].op \in Seen, stream[t].end = "pending",
         stream'[t].op = stream[t].op, stream'[t].of = stream[t].of,
         stream'[t].ran = stream[t].ran,
         Tells(stream'[t]) \in {IF stream[t].ran THEN "done" ELSE "not done", "unknown"},
         Work' = Work \/ Work' = [Work EXCEPT ![t] = 0], stored' = stored
  PROVE  Promise!Next
<1> DEFINE x == <<t, "stream">>
<1>1. States[x] = What(stream[t]) /\ x \in Task \X Slots /\ x[1] = t
  BY SlotOf
<1>2. /\ What(stream[t]).ran = stream[t].ran /\ What(stream[t]).told = "pending"
      /\ What(stream'[t]) = [What(stream[t]) EXCEPT !.told = Tells(stream'[t])]
  <2>1. Tells(stream[t]) = "pending"
    BY Telling
  <2> QED BY <2>1, Same
<1>3. States' = [States EXCEPT ![x] = What(stream'[t])]
  BY Moves
<1>4. States' = [States EXCEPT ![x].told = Tells(stream'[t])]
  BY <1>1, <1>2, <1>3
<1> HIDE DEF x
<1>5. Promise!Tell(x)
  BY <1>1, <1>2, <1>4 DEF Promise!Tell, Work
<1> QED BY <1>1, <1>5 DEF Promise!Next, Slots

\* Asked anew, in t's call or as its stream: g has not run.
LEMMA Asks ==
  ASSUME IInv, NEW t \in Task, NEW x \in {<<t, "call">>, <<t, "stream">>},
         States[x].told # "pending",
         NEW g, g.op \in Seen, g.ran = FALSE, Tells(g) \in {"pending", "not done"},
         States' = [States EXCEPT ![x] = What(g)], Work' = Work, stored' = stored
  PROVE  Promise!Next
<1>1. /\ What(g) = [inside |-> Inside(g), ran |-> FALSE, told |-> Tells(g)]
      /\ Inside(g) \in BOOLEAN
  BY DEF What, Asked, Inside
<1>2. \E inside \in BOOLEAN, told \in {"pending", "not done"} :
        States' = [States EXCEPT ![x] = [inside |-> inside, ran |-> FALSE, told |-> told]]
  BY <1>1, Zenon
<1>3. Promise!Ask(x)
  BY <1>2 DEF Promise!Ask, Work
<1>4. x \in Task \X Slots
  BY SlotOf
<1> QED BY <1>3, <1>4 DEF Promise!Next, Slots

LEMMA Forgets ==
  ASSUME IInv, NEW t \in Task, States[<<t, "call">>].told # "pending",
         States' = [States EXCEPT ![<<t, "call">>] = AbstractNothing],
         Work' = Work, stored' = stored
  PROVE  Promise!Next
<1>1. Promise!Forget(<<t, "call">>)
  BY DEF Promise!Forget, Promise!NothingAsked, AbstractNothing, Work
<1> QED BY <1>1, SlotOf DEF Promise!Next, Slots

LEMMA Abandons ==
  ASSUME IInv, NEW t \in Task, States' = States,
         Work' = [Work EXCEPT ![t] = 0], stored' = stored
  PROVE  Promise!Next
BY DEF Promise!Next, Promise!Abandon, Work
-----------------------------------------------------------------------------
(* What a task calls.                                                      *)

\* What is ended has been told.
LEMMA NotPending ==
  ASSUME NEW f, f.end # "pending"
  PROVE  What(f).told # "pending"
<1>1. Tells(f) # "pending"
  BY Telling
<1>2. CASE f.op \in Seen
  BY <1>1, <1>2, Same
<1>3. CASE f.op \notin Seen
  BY <1>3 DEF What, AbstractNothing
<1> QED BY <1>2, <1>3

LEMMA AwaitMapped ==
  ASSUME IInv, NEW t \in Task, NEW c \in Calls[t], Await(t, c)
  PROVE  Promise!Next
<1>1. /\ call[t].stage = "ended" /\ UNCHANGED <<stream, tx, stored>> /\ c.op \in Terminal
      /\ call' = [call EXCEPT ![t] = Start(c)]
  BY DEF Await, Free
<1>2. call'[t] = Start(c) /\ stream' = [stream EXCEPT ![t] = stream'[t]]
  BY <1>1 DEF IInv, Domains
<1>3. States[<<t, "call">>].told # "pending"
  <2>1. call[t].end # "pending"
    BY <1>1 DEF IInv, Local, CallOK
  <2>2. What(call[t]).told # "pending"
    BY <2>1, NotPending
  <2> QED BY <2>2, SlotOf
<1>4. call'[t].op \in Seen /\ call'[t].ran = FALSE /\ call'[t].end = "pending"
  BY <1>1, <1>2 DEF Start, Seen
<1>5. Tells(call'[t]) = "pending"
  BY <1>4, Telling
<1>6. What(stream'[t]) = What(stream[t])
  BY <1>1
<1>7. States' = [States EXCEPT ![<<t, "call">>] = What(call'[t])]
  BY <1>1, <1>2, <1>6, Moves
<1> QED BY <1>1, <1>3, <1>4, <1>5, <1>7, WorkMoves, Asks

LEMMA OpenMapped ==
  ASSUME IInv, NEW t \in Task, NEW c \in Calls[t], Open(t, c)
  PROVE  Promise!Next
<1>1. /\ stream[t].stage = "ended" /\ UNCHANGED <<call, tx, stored>> /\ c.op = "stream"
      /\ stream' = [stream EXCEPT ![t] =
            IF c.stmt.binds = "all" THEN [Start(c) EXCEPT !.stage = "unpolled"]
            ELSE [Start(c) EXCEPT !.stage = "ended", !.end = c.stmt.binds]]
  BY DEF Open, Streaming, BoundAs
<1>2. DOMAIN stream = Task /\ call' = [call EXCEPT ![t] = call'[t]]
  BY <1>1 DEF IInv, Domains
<1>3. States[<<t, "stream">>].told # "pending"
  <2>1. stream[t].end # "pending"
    BY <1>1 DEF IInv, Local, StreamOK, Live
  <2>2. What(stream[t]).told # "pending"
    BY <2>1, NotPending
  <2> QED BY <2>2, SlotOf
<1>4. What(call'[t]) = What(call[t]) /\ stream' = [stream EXCEPT ![t] = stream'[t]]
  BY <1>1, <1>2
<1>5. States' = [States EXCEPT ![<<t, "stream">>] = What(stream'[t])]
  BY <1>2, <1>4, Moves
<1>6. /\ stream'[t].op \in Seen /\ stream'[t].ran = FALSE
      /\ stream'[t].end \in {"pending", c.stmt.binds}
      /\ c.stmt.binds = "all" => stream'[t].end = "pending"
  BY <1>1, <1>2 DEF Start, Seen
<1>7. stream'[t].end = "pending" \/ stream'[t].end \in NothingRan
  BY <1>6, CallShape DEF BindEnd, NothingRan
<1>8. Tells(stream'[t]) \in {"pending", "not done"}
  BY <1>7, Telling
<1> QED BY <1>1, <1>3, <1>5, <1>6, <1>8, WorkMoves, Asks

\* A poll, a BEGIN: a call the abstraction does not know.
LEMMA PlainMapped ==
  ASSUME IInv, NEW t \in Task, Free(t), UNCHANGED <<tx, stored>>,
         NEW op \in {"next", "begin"}, NEW stage, call' = [call EXCEPT ![t] = Plain(op, stage)],
         stream' = [stream EXCEPT ![t] = stream'[t]], What(stream'[t]) = What(stream[t])
  PROVE  Promise!Next
<1> DEFINE g == Plain(op, stage)
<1>1. call'[t] = g /\ call' = [call EXCEPT ![t] = call'[t]]
  BY DEF IInv, Domains
<1>2. What(g) = AbstractNothing
  BY DEF What, Seen, Terminal, Plain, Nothing
<1> HIDE DEF g
<1>3. States[<<t, "call">>].told # "pending"
  <2>1. call[t].end # "pending"
    BY DEF IInv, Local, CallOK, Free
  <2>2. What(call[t]).told # "pending"
    BY <2>1, NotPending
  <2> QED BY <2>2, SlotOf
<1>4. States' = [States EXCEPT ![<<t, "call">>] = AbstractNothing]
  BY <1>1, <1>2, Moves
<1> QED BY <1>3, <1>4, WorkMoves, Forgets

\* A stream in another stage, with another connection, is what it was.
LEMMA StreamMoves ==
  ASSUME IInv, NEW t \in Task, NEW stage,
         \/ stream' = [stream EXCEPT ![t].stage = stage]
         \/ \E c : stream' = [stream EXCEPT ![t].stage = stage, ![t].conn = c]
  PROVE  stream' = [stream EXCEPT ![t] = stream'[t]] /\ What(stream'[t]) = What(stream[t])
<1>1. DOMAIN stream = Task /\ stream[t] \in Future(t)
  BY DEF IInv, Domains, Local, StreamOK
<1>2. /\ stream' = [stream EXCEPT ![t] = stream'[t]]
      /\ stream'[t].op = stream[t].op /\ stream'[t].of = stream[t].of
      /\ stream'[t].ran = stream[t].ran /\ stream'[t].end = stream[t].end
  BY <1>1 DEF Future
<1> QED BY <1>2, StaysWhatItIs

LEMMA NextRowMapped ==
  ASSUME IInv, NEW t \in Task, NextRow(t)
  PROVE  Promise!Next
<1>1. /\ Free(t) /\ UNCHANGED <<tx, stored>>
      /\ call' = [call EXCEPT ![t] = Plain("next", "poll")]
      /\ stream' = [stream EXCEPT ![t].stage = PolledOn(stream[t])]
  BY DEF NextRow, Plain
<1> QED BY <1>1, StreamMoves, PlainMapped

LEMMA BeginMapped ==
  ASSUME IInv, NEW t \in Task, Begin(t)
  PROVE  Promise!Next
<1>1. /\ Free(t) /\ UNCHANGED <<stream, tx, stored>>
      /\ call' = [call EXCEPT ![t] = Plain("begin", "acquire")]
  BY DEF Begin, Plain
<1>2. stream' = [stream EXCEPT ![t] = stream'[t]] /\ What(stream'[t]) = What(stream[t])
  BY <1>1 DEF IInv, Domains
<1> QED BY <1>1, <1>2, PlainMapped

\* A COMMIT asks for the whole transaction.
LEMMA CommitMapped ==
  ASSUME IInv, NEW t \in Task, Commit(t)
  PROVE  Promise!Next
<1> DEFINE g == [Nothing EXCEPT !.op = "commit", !.end = "pending", !.stage = "send"]
<1>1. Free(t) /\ call' = [call EXCEPT ![t] = g] /\ UNCHANGED <<stream, tx, stored>>
  BY DEF Commit
<1>2. g.op = "commit" /\ g.of = None /\ g.ran = FALSE /\ g.end = "pending"
  BY DEF Nothing
<1> HIDE DEF g
<1>3. call'[t] = g /\ call' = [call EXCEPT ![t] = call'[t]]
      /\ stream' = [stream EXCEPT ![t] = stream'[t]]
  BY <1>1 DEF IInv, Domains
<1>4. g.op \in Seen /\ Tells(g) = "pending"
  BY <1>2, Telling DEF Seen
<1>5. States[<<t, "call">>].told # "pending"
  <2>1. call[t].end # "pending"
    BY <1>1 DEF IInv, Local, CallOK, Free
  <2>2. What(call[t]).told # "pending"
    BY <2>1, NotPending
  <2> QED BY <2>2, SlotOf
<1>6. States' = [States EXCEPT ![<<t, "call">>] = What(g)]
  BY <1>1, <1>3, Moves
<1> QED BY <1>1, <1>2, <1>4, <1>5, <1>6, WorkMoves, Asks

LEMMA RollbackMapped ==
  ASSUME IInv, NEW t \in Task, Rollback(t)
  PROVE  Promise!Next
<1>1. tx' = [tx EXCEPT ![t] = NoTx] /\ UNCHANGED <<call, stream, stored>>
  BY DEF Rollback
<1>2. tx' = [tx EXCEPT ![t] = tx'[t]] /\ tx'[t].writes = 0
  BY <1>1 DEF IInv, Domains, NoTx
<1>3. States' = States
  BY <1>1 DEF States
<1> QED BY <1>1, <1>2, <1>3, WorkMoves, Abandons

\* What is said of a stream that is let go of.
LEMMA LetGoMapped ==
  ASSUME IInv, NEW t \in Task, Streaming(t), NEW end, LetGo(t, end),
         end = LeftEarly(stream[t]),
         call' = [call EXCEPT ![t] = call'[t]], What(call'[t]) = What(call[t]),
         UNCHANGED <<tx, stored>>
  PROVE  Promise!Next \/ UNCHANGED Promise!vars
<1>1. StreamOK(t, stream[t]) /\ StreamRan(stream[t])
  BY DEF IInv, Local
<1>2. stream[t].stage \in Live \cup {"over"} /\ stream[t].op = "stream"
  BY <1>1 DEF Streaming, StreamOK
<1>3. DOMAIN stream = Task /\ stream[t] \in Future(t)
  BY <1>1 DEF IInv, Domains, StreamOK
<1>4. /\ stream' = [stream EXCEPT ![t] = stream'[t]]
      /\ stream'[t].op = stream[t].op /\ stream'[t].of = stream[t].of
      /\ stream'[t].ran = stream[t].ran /\ stream'[t].end = end
  <2>1. /\ stream' = [stream EXCEPT ![t].stage = "ended", ![t].conn = None, ![t].end = end]
    BY DEF LetGo
  <2> QED BY <1>3, <2>1 DEF Future
<1>5. Work' = Work
  BY WorkMoves
<1>6. CASE stream[t].stage = "over"
  <2>1. end = stream[t].end
    BY <1>6 DEF LeftEarly
  <2>2. What(stream'[t]) = What(stream[t])
    BY <1>4, <2>1, StaysWhatItIs
  <2> QED BY <1>4, <1>5, <2>2, Stutters
<1>7. CASE stream[t].stage # "over"
  <2>1. stream[t].end = "pending" /\ stream[t].op \in Seen
    BY <1>1, <1>2, <1>7 DEF StreamOK, Seen
  <2>2. \/ end = "unpolled" /\ ~stream[t].ran
        \/ end = "left" /\ stream[t].ran
        \/ end = "dropped"
    BY <1>1, <1>2, <1>7 DEF LeftEarly, StreamRan, Live
  <2>3. Tells(stream'[t]) \in {IF stream[t].ran THEN "done" ELSE "not done", "unknown"}
    BY <1>4, <2>2, Telling DEF ItRan, NothingRan, BindEnd
  <2> QED BY <1>4, <1>5, <2>1, <2>3, TellsOfStream
<1> QED BY <1>6, <1>7

LEMMA DropStreamMapped ==
  ASSUME IInv, NEW t \in Task, DropStream(t)
  PROVE  Promise!Next \/ UNCHANGED Promise!vars
<1>1. /\ Streaming(t) /\ UNCHANGED <<call, tx, stored>>
      /\ LetGo(t, LeftEarly(stream[t]))
  BY DEF DropStream
<1>2. call' = [call EXCEPT ![t] = call'[t]] /\ What(call'[t]) = What(call[t])
  BY <1>1 DEF IInv, Domains
<1> QED BY <1>1, <1>2, LetGoMapped
-----------------------------------------------------------------------------
(* How calls end.                                                          *)

\* What an end may say of something that ran, or did not.
True(f, end) == \/ end \in ItRan /\ f.ran
                \/ end \in NothingRan /\ ~f.ran
                \/ end \notin ItRan \cup NothingRan \cup {"pending"}

LEMMA CallEndsMapped ==
  ASSUME IInv, NEW t \in Task, NEW end \in End, NEW got \in Seq(Row), Ends(t, end, got),
         call[t].stage # "ended", stream' = stream, stored' = stored,
         IF call[t].op \in Seen
         THEN True(call[t], end) /\ (Work' = Work \/ Work' = [Work EXCEPT ![t] = 0])
         ELSE Work' = Work
  PROVE  Promise!Next \/ UNCHANGED Promise!vars
<1>1. /\ call' = [call EXCEPT ![t] = call'[t]]
      /\ call'[t].op = call[t].op /\ call'[t].of = call[t].of
      /\ call'[t].ran = call[t].ran /\ call'[t].end = end
  BY EndsLeaves
<1>2. stream' = [stream EXCEPT ![t] = stream'[t]] /\ What(stream'[t]) = What(stream[t])
  BY DEF IInv, Domains
<1>3. CASE call[t].op \in Seen
  <2>1. call[t].end = "pending" /\ call[t].ran \in BOOLEAN
    BY DEF IInv, Local, CallOK, Future
  <2>2. Tells(call'[t]) \in {IF call[t].ran THEN "done" ELSE "not done", "unknown"}
    <3>1. CASE end \in ItRan /\ call[t].ran
      BY <1>1, <3>1, Telling
    <3>2. CASE end \in NothingRan /\ ~call[t].ran
      BY <1>1, <3>2, Telling
    <3>3. CASE end \notin ItRan \cup NothingRan \cup {"pending"}
      BY <1>1, <3>3, Telling
    <3> QED BY <1>3, <3>1, <3>2, <3>3 DEF True
  <2> QED BY <1>1, <1>2, <1>3, <2>1, <2>2, TellsOfCall
<1>4. CASE call[t].op \notin Seen
  <2>1. What(call'[t]) = What(call[t])
    BY <1>1, <1>4, Same
  <2> QED BY <1>1, <1>2, <1>4, <2>1, Stutters
<1> QED BY <1>3, <1>4

\* A poll that ends is nothing to the abstraction.
LEMMA PollMapped ==
  ASSUME IInv, NEW t \in Task, Polled(t), Ends(t, "item", <<>>)
  PROVE  call' = [call EXCEPT ![t] = call'[t]] /\ What(call'[t]) = What(call[t])
<1>1. "item" \in End /\ <<>> \in Seq(Row)
  BY EmptySeq DEF End
<1>2. /\ call' = [call EXCEPT ![t] = call'[t]]
      /\ call'[t].op = call[t].op /\ call'[t].of = call[t].of
  BY <1>1, EndsLeaves
<1>3. call[t].op \notin Seen
  BY PollEnds DEF Seen, Terminal
<1> QED BY <1>2, <1>3, Same

\* ... and a stream, in a poll of it.
LEMMA StreamEndsMapped ==
  ASSUME IInv, NEW t \in Task, Polled(t), Ends(t, "item", <<>>),
         NEW end \in End, StreamEnds(t, end), True(stream[t], end),
         Work' = Work \/ Work' = [Work EXCEPT ![t] = 0], stored' = stored
  PROVE  Promise!Next
<1>1. /\ stream' = [stream EXCEPT ![t] = stream'[t]]
      /\ stream'[t].op = stream[t].op /\ stream'[t].of = stream[t].of
      /\ stream'[t].ran = stream[t].ran /\ stream'[t].end = end
  <2>1. stream' = [stream EXCEPT ![t].stage = "over", ![t].conn = None, ![t].end = end]
    BY DEF StreamEnds
  <2> QED BY <2>1, StreamEndsLeaves
<1>2. call' = [call EXCEPT ![t] = call'[t]] /\ What(call'[t]) = What(call[t])
  BY PollMapped
<1>3. stream[t].op \in Seen /\ stream[t].ran \in BOOLEAN /\ stream[t].end = "pending"
  BY PollEnds DEF IInv, Local, StreamOK, Future, Seen
<1>4. Tells(stream'[t]) \in {IF stream[t].ran THEN "done" ELSE "not done", "unknown"}
  <2>1. CASE end \in ItRan /\ stream[t].ran
    BY <1>1, <2>1, Telling
  <2>2. CASE end \in NothingRan /\ ~stream[t].ran
    BY <1>1, <2>2, Telling
  <2>3. CASE end \notin ItRan \cup NothingRan \cup {"pending"}
    BY <1>1, <2>3, Telling
  <2> QED BY <2>1, <2>2, <2>3 DEF True
<1> QED BY <1>1, <1>2, <1>3, <1>4, TellsOfStream

\* Where a transaction's work in hand is dropped with it.
LEMMA WorkDropped ==
  ASSUME IInv, NEW t \in Task,
         \/ tx' = [tx EXCEPT ![t] = NoTx]
         \/ \E state \in {"aborted", "lost"} :
              tx' = [tx EXCEPT ![t].state = state, ![t].writes = 0]
  PROVE  Work' = [Work EXCEPT ![t] = 0]
<1>1. CASE tx' = [tx EXCEPT ![t] = NoTx]
  <2>1. tx' = [tx EXCEPT ![t] = tx'[t]] /\ tx'[t].writes = 0
    BY <1>1 DEF IInv, Domains, NoTx
  <2> QED BY <2>1, WorkMoves
<1>2. CASE \E state \in {"aborted", "lost"} : tx' = [tx EXCEPT ![t].state = state, ![t].writes = 0]
  <2>1. tx' = [tx EXCEPT ![t] = tx'[t]] /\ tx'[t].writes = 0
    BY <1>2, AbortOK
  <2> QED BY <2>1, WorkMoves
<1> QED BY <1>1, <1>2

LEMMA CancelMapped ==
  ASSUME IInv, NEW t \in Task, Cancel(t)
  PROVE  Promise!Next \/ UNCHANGED Promise!vars
<1>1. /\ call[t].stage # "ended" /\ Ends(t, "dropped", <<>>) /\ UNCHANGED <<stream, stored>>
      /\ "dropped" \in End /\ <<>> \in Seq(Row)
      /\ "dropped" \notin ItRan \cup NothingRan \cup {"pending"}
  BY EmptySeq DEF Cancel, Free, End, ItRan, NothingRan
<1>2. CASE call[t].op = "commit"
  <2>1. tx' = [tx EXCEPT ![t] = NoTx]
    BY <1>2 DEF Cancel
  <2>2. Work' = [Work EXCEPT ![t] = 0]
    BY <2>1, WorkDropped
  <2> QED BY <1>1, <1>2, <2>2, CallEndsMapped DEF True, Seen
<1>3. CASE call[t].op # "commit"
  <2>1. tx' = tx
    BY <1>3 DEF Cancel
  <2>2. Work' = Work
    BY <2>1, WorkMoves
  <2> QED BY <1>1, <2>2, CallEndsMapped DEF True
<1> QED BY <1>2, <1>3
-----------------------------------------------------------------------------
(* What brings a future on.                                                *)

\* A future that goes on without having run is one the abstraction has seen.
LEMMA GoesOnMapped ==
  ASSUME IInv, NEW t \in Task, call' = [call EXCEPT ![t] = call'[t]],
         call'[t].op = call[t].op, call'[t].of = call[t].of,
         call'[t].ran = call[t].ran, call'[t].end = call[t].end,
         stream' = [stream EXCEPT ![t] = stream'[t]], What(stream'[t]) = What(stream[t]),
         UNCHANGED <<tx, stored>>
  PROVE  UNCHANGED Promise!vars
<1>1. What(call'[t]) = What(call[t])
  BY StaysWhatItIs
<1>2. Work' = Work
  BY WorkMoves
<1> QED BY <1>1, <1>2, Stutters

LEMMA BindMapped ==
  ASSUME IInv, NEW t \in Task, Bind(t)
  PROVE  Promise!Next \/ UNCHANGED Promise!vars
<1>1. call[t].stage = "bind" /\ UNCHANGED <<stream, tx, stored>>
  BY DEF Bind
<1>2. /\ call[t].op \in Seen /\ call[t].of \in Calls[t] /\ ~call[t].ran
      /\ stream' = [stream EXCEPT ![t] = stream'[t]] /\ Work' = Work
  BY <1>1, WorkMoves DEF IInv, Local, CallOK, CallRan, Domains, Future, Seen
<1>3. CASE BoundAs(call[t].of.stmt) # "all"
  <2>1. Ends(t, call[t].of.stmt.binds, <<>>)
    BY <1>3 DEF Bind
  <2>2. call[t].of.stmt.binds \in NothingRan /\ call[t].of.stmt.binds \in End
    BY <1>2, <1>3, CallShape DEF BoundAs, BindEnd, NothingRan, End
  <2>3. <<>> \in Seq(Row)
    BY EmptySeq
  <2> QED BY <1>1, <1>2, <2>1, <2>2, <2>3, CallEndsMapped DEF True
<1>4. CASE BoundAs(call[t].of.stmt) = "all"
  <2>1. PICK stage \in {"send", "acquire"} : call' = [call EXCEPT ![t].stage = stage]
    BY <1>4 DEF Bind
  <2>2. /\ call' = [call EXCEPT ![t] = call'[t]]
        /\ call'[t].op = call[t].op /\ call'[t].of = call[t].of
        /\ call'[t].ran = call[t].ran /\ call'[t].end = call[t].end
    <3>1. /\ stage \in Stage /\ call[t].conn \in Connection \cup {None} /\ call[t].ran \in BOOLEAN
      BY DEF Stage, IInv, Local, CallOK, Future
    <3> QED BY <2>1, <3>1, GoesOn
  <2> QED BY <1>1, <1>2, <2>2, GoesOnMapped
<1> QED BY <1>3, <1>4

LEMMA AcquireMapped ==
  ASSUME IInv, NEW t \in Task, Acquire(t)
  PROVE  UNCHANGED Promise!vars
<1>1. PICK c \in idle : call' = [call EXCEPT ![t].stage = "send", ![t].conn = c]
  BY DEF Acquire
<1>2. UNCHANGED <<stream, tx, stored>>
  BY DEF Acquire
<1>3. /\ call' = [call EXCEPT ![t] = call'[t]]
      /\ call'[t].op = call[t].op /\ call'[t].of = call[t].of
      /\ call'[t].ran = call[t].ran /\ call'[t].end = call[t].end
  <2>1. "send" \in Stage /\ call[t].ran \in BOOLEAN /\ c \in Connection \cup {None}
    BY DEF Stage, IInv, Local, CallOK, Future, Placed
  <2> QED BY <1>1, <2>1, GoesOn
<1>4. stream' = [stream EXCEPT ![t] = stream'[t]] /\ What(stream'[t]) = What(stream[t])
  BY <1>2 DEF IInv, Domains
<1> QED BY <1>2, <1>3, <1>4, GoesOnMapped

LEMMA AcquireStreamMapped ==
  ASSUME IInv, NEW t \in Task, AcquireStream(t)
  PROVE  UNCHANGED Promise!vars
<1>1. PICK c \in idle :
        stream' = [stream EXCEPT ![t].stage = IF Polled(t) THEN "send" ELSE "granted",
                                 ![t].conn = c]
  BY DEF AcquireStream
<1>2. UNCHANGED <<call, tx, stored>>
  BY DEF AcquireStream
<1>3. stream' = [stream EXCEPT ![t] = stream'[t]] /\ What(stream'[t]) = What(stream[t])
  BY <1>1, StreamMoves
<1>4. call' = [call EXCEPT ![t] = call'[t]]
  BY <1>2 DEF IInv, Domains
<1> QED BY <1>2, <1>3, <1>4, GoesOnMapped

LEMMA TimeOutMapped ==
  ASSUME IInv, NEW t \in Task, TimeOut(t)
  PROVE  Promise!Next \/ UNCHANGED Promise!vars
<1>1. /\ call[t].stage = "acquire" /\ Ends(t, "PoolTimedOut", <<>>)
      /\ UNCHANGED <<stream, tx, stored>>
      /\ "PoolTimedOut" \in End \cap NothingRan /\ <<>> \in Seq(Row) /\ ~call[t].ran
  BY EmptySeq DEF TimeOut, End, NothingRan, IInv, Local, CallRan
<1>2. Work' = Work
  BY <1>1, WorkMoves
<1> QED BY <1>1, <1>2, CallEndsMapped DEF True

LEMMA TimeOutStreamMapped ==
  ASSUME IInv, NEW t \in Task, TimeOutStream(t)
  PROVE  Promise!Next
<1>1. /\ Polled(t) /\ stream[t].stage = "acquire" /\ Ends(t, "item", <<>>)
      /\ StreamEnds(t, "PoolTimedOut") /\ UNCHANGED <<tx, stored>>
      /\ "PoolTimedOut" \in End \cap NothingRan /\ ~stream[t].ran
  BY DEF TimeOutStream, End, NothingRan, IInv, Local, StreamRan, Live
<1>2. Work' = Work
  BY <1>1, WorkMoves
<1> QED BY <1>1, <1>2, StreamEndsMapped DEF True

\* The server runs what f asked for, which g then has.
LEMMA RunMapped ==
  ASSUME IInv, NEW t \in Task, NEW x \in {<<t, "call">>, <<t, "stream">>},
         NEW f, f.op \in Terminal \cup {"stream"}, f.of \in Calls[t], ~f.ran, f.ran \in BOOLEAN,
         f.end = "pending", States[x] = What(f),
         NEW g, g.op = f.op, g.of = f.of, g.end = f.end, g.ran = TRUE,
         States' = [States EXCEPT ![x] = What(g)], Perform(t, f.of)
  PROVE  Promise!Next
<1> DEFINE n == IF f.of.stmt.writes THEN 1 ELSE 0
<1>1. x \in Task \X Slots /\ x[1] = t
  BY SlotOf
<1>2. f.op \in Seen /\ f.op # "commit" /\ f.of # None
  BY CallShape DEF Seen, Terminal
<1>3. What(f).ran = FALSE /\ What(f).told = "pending" /\ What(f).inside = Asked(f).inside
  <2>1. Tells(f) = "pending"
    BY Telling
  <2> QED BY <1>2, <2>1, Same
<1>4. Asked(f).inside <=> f.of.on = "tx"
  BY <1>2 DEF Asked
<1>5. What(g) = [What(f) EXCEPT !.ran = TRUE]
  BY <1>2, Same
<1>6. States' = [States EXCEPT ![x].ran = TRUE]
  BY <1>1, <1>5
<1>7. n \in {0, 1}
  OBVIOUS
<1> HIDE DEF n
<1>8. CASE f.of.on = "tx"
  <2>1. tx' = [tx EXCEPT ![t].writes = @ + n] /\ stored' = stored
    BY <1>8 DEF Perform, n
  <2>2. TxOK(tx[t]) /\ DOMAIN tx = Task
    BY DEF IInv, Domains, Local
  <2>3. tx' = [tx EXCEPT ![t] = tx'[t]] /\ tx'[t].writes = tx[t].writes + n
    BY <2>1, <2>2 DEF TxOK
  <2>4. Work' = [Work EXCEPT ![t] = Work[t] + n]
    BY <2>3, WorkMoves
  <2>5. Promise!Run(x)
    BY <1>1, <1>3, <1>4, <1>6, <1>7, <1>8, <2>1, <2>4 DEF Promise!Run, Work
  <2> QED BY <1>1, <2>5 DEF Promise!Next, Slots
<1>9. CASE f.of.on # "tx"
  <2>1. stored' = [stored EXCEPT ![t] = @ + n] /\ tx' = tx
    BY <1>9 DEF Perform, n
  <2>2. Work' = Work
    BY <2>1, WorkMoves
  <2>3. Promise!Run(x)
    BY <1>1, <1>3, <1>4, <1>6, <1>7, <1>9, <2>1, <2>2 DEF Promise!Run, Work
  <2> QED BY <1>1, <2>3 DEF Promise!Next, Slots
<1> QED BY <1>8, <1>9

LEMMA ServeMapped ==
  ASSUME IInv, NEW t \in Task, Serve(t)
  PROVE  Promise!Next \/ UNCHANGED Promise!vars
<1>1. call[t].stage = "send" /\ call[t].op \in Terminal /\ stream' = stream
  BY DEF Serve
<1>2. /\ call[t].of \in Calls[t] /\ ~call[t].ran /\ call[t].ran \in BOOLEAN
      /\ call[t].end = "pending" /\ call[t].op \in Seen /\ call[t].conn \in Connection \cup {None}
  BY <1>1 DEF IInv, Local, CallOK, CallRan, Future, Seen
<1>3. CASE Refuses(t, call[t].of)
  <2>1. /\ Ends(t, "Database", <<>>) /\ stored' = stored
        /\ IF call[t].of.on = "tx" THEN Abort(t) ELSE UNCHANGED tx
    BY <1>3 DEF Serve
  <2>2. Work' = Work \/ Work' = [Work EXCEPT ![t] = 0]
    BY <2>1, WorkMoves, WorkDropped DEF Abort
  <2>3. "Database" \in End \cap NothingRan /\ <<>> \in Seq(Row)
    BY EmptySeq DEF End, NothingRan
  <2> QED BY <1>1, <1>2, <2>1, <2>2, <2>3, CallEndsMapped DEF True
<1>4. CASE ~Refuses(t, call[t].of)
  <2>1. call' = [call EXCEPT ![t].stage = "answered", ![t].ran = TRUE] /\ Perform(t, call[t].of)
    BY <1>4 DEF Serve
  <2>2. /\ call' = [call EXCEPT ![t] = call'[t]]
        /\ call'[t].op = call[t].op /\ call'[t].of = call[t].of
        /\ call'[t].ran = TRUE /\ call'[t].end = call[t].end
    <3>1. "answered" \in Stage
      BY DEF Stage
    <3> QED BY <1>2, <2>1, <3>1, GoesOn
  <2>3. stream' = [stream EXCEPT ![t] = stream'[t]] /\ What(stream'[t]) = What(stream[t])
    BY <1>1 DEF IInv, Domains
  <2>4. States' = [States EXCEPT ![<<t, "call">>] = What(call'[t])]
    BY <2>2, <2>3, Moves
  <2>5. States[<<t, "call">>] = What(call[t])
    BY SlotOf
  <2> QED BY <1>1, <1>2, <2>1, <2>2, <2>4, <2>5, RunMapped
<1> QED BY <1>3, <1>4

LEMMA ServeStreamMapped ==
  ASSUME IInv, NEW t \in Task, ServeStream(t)
  PROVE  Promise!Next \/ UNCHANGED Promise!vars
<1>1. /\ stream[t].stage = "send" /\ UNCHANGED call
      /\ call' = [call EXCEPT ![t] = call'[t]] /\ What(call'[t]) = What(call[t])
  BY DEF ServeStream, IInv, Domains
<1>2. /\ stream[t].op = "stream" /\ stream[t].of \in Calls[t]
      /\ ~stream[t].ran /\ stream[t].ran \in BOOLEAN /\ stream[t].end = "pending"
      /\ stream[t] \in Future(t) /\ DOMAIN stream = Task
  BY <1>1 DEF IInv, Local, StreamOK, StreamRan, Future, Domains, Live
<1>3. CASE Refuses(t, stream[t].of)
  <2>1. /\ stream' = [stream EXCEPT ![t].stage = "refused"] /\ stored' = stored
        /\ IF stream[t].of.on = "tx" THEN Abort(t) ELSE UNCHANGED tx
    BY <1>3 DEF ServeStream
  <2>2. stream' = [stream EXCEPT ![t] = stream'[t]] /\ What(stream'[t]) = What(stream[t])
    BY <2>1, StreamMoves
  <2>3. Work' = Work \/ Work' = [Work EXCEPT ![t] = 0]
    BY <2>1, WorkMoves, WorkDropped DEF Abort
  <2>4. CASE Work' = Work
    BY <1>1, <2>1, <2>2, <2>4, Stutters
  <2>5. CASE Work' = [Work EXCEPT ![t] = 0]
    BY <1>1, <2>1, <2>2, <2>5, Moves, Abandons
  <2> QED BY <2>3, <2>4, <2>5
<1>4. CASE ~Refuses(t, stream[t].of)
  <2>1. /\ Perform(t, stream[t].of)
        /\ stream' = [stream EXCEPT ![t].stage = "open", ![t].ran = TRUE]
    BY <1>4 DEF ServeStream
  <2>2. /\ stream' = [stream EXCEPT ![t] = stream'[t]]
        /\ stream'[t].op = stream[t].op /\ stream'[t].of = stream[t].of
        /\ stream'[t].ran = TRUE /\ stream'[t].end = stream[t].end
    BY <1>2, <2>1 DEF Future
  <2>3. States' = [States EXCEPT ![<<t, "stream">>] = What(stream'[t])]
    BY <1>1, <2>2, Moves
  <2>4. States[<<t, "stream">>] = What(stream[t])
    BY SlotOf
  <2> QED BY <1>2, <2>1, <2>2, <2>3, <2>4, RunMapped
<1> QED BY <1>3, <1>4

LEMMA RefusalMapped ==
  ASSUME IInv, NEW t \in Task, Refusal(t)
  PROVE  Promise!Next
<1>1. /\ Polled(t) /\ stream[t].stage = "refused" /\ Ends(t, "item", <<>>)
      /\ StreamEnds(t, "Database") /\ UNCHANGED <<tx, stored>>
      /\ "Database" \in End \cap NothingRan /\ ~stream[t].ran
  BY DEF Refusal, End, NothingRan, IInv, Local, StreamRan, Live
<1>2. Work' = Work
  BY <1>1, WorkMoves
<1> QED BY <1>1, <1>2, StreamEndsMapped DEF True

LEMMA ServeBeginMapped ==
  ASSUME IInv, NEW t \in Task, ServeBegin(t)
  PROVE  Promise!Next
<1>1. /\ call[t].op \notin Seen /\ Ends(t, "Ok", <<>>) /\ UNCHANGED <<stream, stored>>
      /\ tx' = [tx EXCEPT ![t] = [conn |-> call[t].conn, writes |-> 0, state |-> "open"]]
  BY DEF ServeBegin, Seen, Terminal
<1>2. /\ call' = [call EXCEPT ![t] = call'[t]]
      /\ call'[t].op = call[t].op /\ call'[t].of = call[t].of
  <2>1. "Ok" \in End /\ <<>> \in Seq(Row)
    BY EmptySeq DEF End
  <2> QED BY <1>1, <2>1, EndsLeaves
<1>3. What(call'[t]) = What(call[t])
  BY <1>1, <1>2, Same
<1>4. stream' = [stream EXCEPT ![t] = stream'[t]] /\ What(stream'[t]) = What(stream[t])
  BY <1>1 DEF IInv, Domains
<1>5. States' = States
  BY <1>2, <1>3, <1>4, Moves
<1>6. tx' = [tx EXCEPT ![t] = tx'[t]] /\ tx'[t].writes = 0
  BY <1>1 DEF IInv, Domains
<1> QED BY <1>1, <1>5, <1>6, WorkMoves, Abandons

LEMMA ServeCommitMapped ==
  ASSUME IInv, NEW t \in Task, ServeCommit(t)
  PROVE  Promise!Next
<1> DEFINE x == <<t, "call">>
<1>1. /\ call[t].stage = "send" /\ call[t].op = "commit" /\ stream' = stream
      /\ call' = [call EXCEPT ![t].stage = "answered", ![t].ran = TRUE]
      /\ stored' = [stored EXCEPT ![t] = @ + tx[t].writes]
      /\ tx' = [tx EXCEPT ![t].writes = 0, ![t].state = "committed"]
  BY DEF ServeCommit
<1>2. /\ ~call[t].ran /\ call[t].ran \in BOOLEAN /\ call[t].end = "pending"
      /\ call[t].op \in Seen /\ call[t].conn \in Connection \cup {None}
  BY <1>1 DEF IInv, Local, CallOK, CallRan, Future, Seen
<1>3. /\ call' = [call EXCEPT ![t] = call'[t]]
      /\ call'[t].op = call[t].op /\ call'[t].of = call[t].of
      /\ call'[t].ran = TRUE /\ call'[t].end = call[t].end
  <2>1. "answered" \in Stage
    BY DEF Stage
  <2> QED BY <1>1, <1>2, <2>1, GoesOn
<1>4. stream' = [stream EXCEPT ![t] = stream'[t]] /\ What(stream'[t]) = What(stream[t])
  BY <1>1 DEF IInv, Domains
<1>5. States' = [States EXCEPT ![x] = What(call'[t])]
  BY <1>3, <1>4, Moves
<1>6. States[x] = What(call[t]) /\ x \in Task \X Slots /\ x[1] = t
  BY SlotOf
<1>7. What(call[t]).ran = FALSE /\ What(call[t]).told = "pending" /\ What(call[t]).inside
  <2>1. Tells(call[t]) = "pending"
    BY <1>2, Telling
  <2>2. What(call[t]).inside = Asked(call[t]).inside
    BY <1>2, Same
  <2>3. Asked(call[t]).inside
    BY <1>1 DEF Asked
  <2> QED BY <1>2, <2>1, <2>2, <2>3, Same
<1>8. What(call'[t]) = [What(call[t]) EXCEPT !.ran = TRUE]
  BY <1>2, <1>3, Same
<1>9. States' = [States EXCEPT ![x].ran = TRUE]
  BY <1>5, <1>6, <1>8
<1>10. Work' = [Work EXCEPT ![t] = 0] /\ Work[t] = tx[t].writes
  BY <1>1, AbortOK, WorkMoves
<1> HIDE DEF x
<1>11. Promise!Commit(x)
  BY <1>1, <1>6, <1>7, <1>9, <1>10 DEF Promise!Commit, Work
<1> QED BY <1>6, <1>11 DEF Promise!Next, Slots

LEMMA FinishMapped ==
  ASSUME IInv, NEW t \in Task, Finish(t)
  PROVE  Promise!Next \/ UNCHANGED Promise!vars
<1>1. /\ call[t].stage = "answered" /\ call[t].op \in Terminal /\ UNCHANGED <<stream, tx, stored>>
      /\ Ends(t, Result(call[t].of).end, Result(call[t].of).got)
  BY DEF Finish, AfterAnswer
<1>2. call[t].of \in Calls[t] /\ call[t].ran /\ call[t].op \in Seen
  BY <1>1 DEF IInv, Local, CallOK, CallRan, Future, Seen
<1>3. /\ Result(call[t].of).end \in {"Ok", "Decode"}
      /\ Result(call[t].of).got \in Seq(Row)
  BY <1>2, ResultShape
<1>4. Result(call[t].of).end \in End \cap ItRan
  BY <1>3 DEF End, ItRan
<1>5. Work' = Work
  BY <1>1, WorkMoves
<1> QED BY <1>1, <1>2, <1>3, <1>4, <1>5, CallEndsMapped DEF True

LEMMA FinishCommitMapped ==
  ASSUME IInv, NEW t \in Task, FinishCommit(t)
  PROVE  Promise!Next \/ UNCHANGED Promise!vars
<1>1. /\ call[t].stage = "answered" /\ call[t].op = "commit" /\ UNCHANGED <<stream, stored>>
      /\ Ends(t, "Ok", <<>>) /\ tx' = [tx EXCEPT ![t] = NoTx]
      /\ "Ok" \in End \cap ItRan /\ <<>> \in Seq(Row) /\ call[t].op \in Seen
  BY EmptySeq DEF FinishCommit, End, ItRan, Seen
<1>2. call[t].ran
  BY <1>1 DEF IInv, Local, CallRan
<1>3. Work' = [Work EXCEPT ![t] = 0]
  BY <1>1, WorkDropped
<1> QED BY <1>1, <1>2, <1>3, CallEndsMapped DEF True

LEMMA ItemMapped ==
  ASSUME IInv, NEW t \in Task, Item(t)
  PROVE  Promise!Next \/ UNCHANGED Promise!vars
<1> DEFINE row == stream[t].of.stmt.rows[Len(stream[t].got) + 1]
<1>1. /\ Polled(t) /\ Ends(t, "item", <<>>) /\ stored' = stored
      /\ IF row = "fails"
         THEN /\ StreamEnds(t, "broken")
              /\ IF stream[t].of.on = "tx" THEN Abort(t) ELSE UNCHANGED tx
         ELSE /\ stream' = [stream EXCEPT ![t].got = Append(@, row)]
              /\ UNCHANGED tx
  BY DEF Item
<1> HIDE DEF row
<1>2. CASE row = "fails"
  <2>1. Work' = Work \/ Work' = [Work EXCEPT ![t] = 0]
    BY <1>1, <1>2, WorkMoves, WorkDropped DEF Abort
  <2>2. "broken" \in End /\ "broken" \notin ItRan \cup NothingRan \cup {"pending"}
    BY DEF End, ItRan, NothingRan
  <2> QED BY <1>1, <1>2, <2>1, <2>2, StreamEndsMapped DEF True
<1>3. CASE row # "fails"
  <2>1. stream' = [stream EXCEPT ![t].got = Append(@, row)] /\ tx' = tx
    BY <1>1, <1>3
  <2>2. stream[t] \in Future(t) /\ DOMAIN stream = Task
    BY DEF IInv, Local, StreamOK, Domains
  <2>3. /\ stream' = [stream EXCEPT ![t] = stream'[t]]
        /\ stream'[t].op = stream[t].op /\ stream'[t].of = stream[t].of
        /\ stream'[t].ran = stream[t].ran /\ stream'[t].end = stream[t].end
    BY <2>1, <2>2 DEF Future
  <2>4. What(stream'[t]) = What(stream[t])
    BY <2>3, StaysWhatItIs
  <2>5. call' = [call EXCEPT ![t] = call'[t]] /\ What(call'[t]) = What(call[t])
    BY <1>1, PollMapped
  <2>6. Work' = Work
    BY <2>1, WorkMoves
  <2> QED BY <1>1, <2>3, <2>4, <2>5, <2>6, Stutters
<1> QED BY <1>2, <1>3

LEMMA ExhaustMapped ==
  ASSUME IInv, NEW t \in Task, Exhaust(t)
  PROVE  Promise!Next
<1>1. /\ Polled(t) /\ stream[t].stage = "open" /\ Ends(t, "item", <<>>)
      /\ UNCHANGED <<tx, stored>> /\ StreamEnds(t, "exhausted")
      /\ "exhausted" \in End \cap ItRan
  BY DEF Exhaust, EndOf, End, ItRan
<1>2. stream[t].ran
  BY <1>1 DEF IInv, Local, StreamRan
<1>3. Work' = Work
  BY <1>1, WorkMoves
<1> QED BY <1>1, <1>2, <1>3, StreamEndsMapped DEF True

LEMMA LoseMapped ==
  ASSUME IInv, NEW t \in Task, Lose(t)
  PROVE  Promise!Next \/ UNCHANGED Promise!vars
<1>1. /\ call[t].stage # "ended" /\ Ends(t, "Io", <<>>) /\ UNCHANGED <<stream, stored>>
      /\ "Io" \in End /\ "Io" \notin ItRan \cup NothingRan \cup {"pending"} /\ <<>> \in Seq(Row)
  BY EmptySeq DEF Lose, End, ItRan, NothingRan
<1>2. \/ /\ call[t].op \in Seen
         /\ \/ tx' = [tx EXCEPT ![t] = NoTx]
            \/ tx' = [tx EXCEPT ![t].state = "lost", ![t].writes = 0]
      \/ tx' = tx
  BY DEF Lose, LoseTx, Seen
<1>3. Work' = Work \/ (call[t].op \in Seen /\ Work' = [Work EXCEPT ![t] = 0])
  BY <1>2, WorkMoves, WorkDropped
<1> QED BY <1>1, <1>3, CallEndsMapped DEF True

LEMMA LoseStreamMapped ==
  ASSUME IInv, NEW t \in Task, LoseStream(t)
  PROVE  Promise!Next
<1>1. /\ Polled(t) /\ Ends(t, "item", <<>>) /\ StreamEnds(t, "Io") /\ stored' = stored
      /\ IF stream[t].of.on = "tx" THEN LoseTx(t) ELSE tx' = tx
      /\ "Io" \in End /\ "Io" \notin ItRan \cup NothingRan \cup {"pending"}
  BY DEF LoseStream, End, ItRan, NothingRan
<1>2. Work' = Work \/ Work' = [Work EXCEPT ![t] = 0]
  BY <1>1, WorkMoves, WorkDropped DEF LoseTx
<1> QED BY <1>1, <1>2, StreamEndsMapped DEF True
-----------------------------------------------------------------------------
LEMMA InitMapped == Init => Promise!Init
<1> SUFFICES ASSUME Init PROVE Promise!Init
  OBVIOUS
<1>1. \A t \in Task : call[t] = Nothing /\ stream[t] = Nothing /\ tx[t].writes = 0
  BY DEF Init, NoTx
<1>2. What(Nothing) = AbstractNothing
  BY DEF What, Nothing, Seen, Terminal
<1>3. States = [x \in Task \X Slots |-> AbstractNothing]
  <2>1. \A x \in Task \X Slots : States[x] = AbstractNothing
    BY <1>1, <1>2, StatesAre
  <2> QED BY <2>1, StatesAre
<1>4. Work = [t \in Task |-> 0] /\ stored = [t \in Task |-> 0]
  BY <1>1 DEF Work, Init
<1> QED BY <1>3, <1>4 DEF Promise!Init, Promise!NothingAsked, AbstractNothing, Work, Slots

LEMMA NextMapped == IInv /\ [Next]_vars => [Promise!Next]_(Promise!vars)
<1> SUFFICES ASSUME IInv, [Next]_vars PROVE Promise!Next \/ UNCHANGED Promise!vars
  OBVIOUS
<1>1. CASE UNCHANGED vars
  <2>1. UNCHANGED <<call, stream, tx, stored>>
    BY <1>1 DEF vars
  <2>2. States' = States /\ Work' = Work
    BY <2>1 DEF States, Work
  <2> QED BY <2>1, <2>2 DEF Promise!vars, Work
<1>2. CASE Next
  <2>1. PICK t \in Task : Caller(t) \/ Driver(t) \/ Lose(t) \/ LoseStream(t)
    BY <1>2 DEF Next
  <2>2. CASE Caller(t)
    BY <2>2, AwaitMapped, OpenMapped, NextRowMapped, DropStreamMapped, BeginMapped, CommitMapped,
       RollbackMapped, CancelMapped DEF Caller
  <2>3. CASE Driver(t)
    BY <2>3, BindMapped, AcquireMapped, AcquireStreamMapped, TimeOutMapped,
       TimeOutStreamMapped, ServeMapped, ServeStreamMapped, ServeBeginMapped,
       ServeCommitMapped, FinishMapped, FinishCommitMapped, RefusalMapped, ItemMapped,
       ExhaustMapped, LoseMapped, LoseStreamMapped DEF Driver
  <2>4. CASE Lose(t) \/ LoseStream(t)
    BY <2>4, LoseMapped, LoseStreamMapped
  <2> QED BY <2>1, <2>2, <2>3, <2>4
<1> QED BY <1>1, <1>2

\* Whatever is cancelled, times out or is lost, what a task asks for is run at
\* most once, what it is told is true, and a transaction is stored whole or
\* not at all (LoadExt, ExecuteExt, CountExt, the executor they are given).
THEOREM ExecutionImplementsUnitOfWork == Spec => ImplementsUnitOfWork
BY Invariance, InitMapped, NextMapped, PTL DEF Spec, ImplementsUnitOfWork, Promise!Spec
=============================================================================
