------------------------------ MODULE Execution ------------------------------
(***************************************************************************)
(* Running statements (crates/qbrs-sqlx/src/lib.rs): tasks that await      *)
(* load, load_one, count and execute, read streams row by row and use      *)
(* transactions, over one pool of connections.  The pool, its timeout and  *)
(* the server are the driver's, external, and modelled from what the code  *)
(* asks of them.  A future may be dropped at any await, and a connection   *)
(* may be lost while a statement is on it.                                 *)
(***************************************************************************)
EXTENDS Naturals, SequencesExt

CONSTANTS Task,
          Connection,   \* what the pool may open
          Calls,        \* of each task: the calls it may make, [op, stmt, on]
          MaxWrites,    \* bound: writes a task may have stored or in hand
          None

\* How binding a statement's values ends (bind_value).
BindEnd == {"all", "UnresolvedPlaceholder", "FeatureNotEnabled"}

\* A row of the result: its columns decode, or not, or the server fails on it.
Row == {"decodes", "does not", "fails"}

Terminal == {"load", "load_one", "count", "execute"}

\* LoadExt is for statements with rows, ExecuteExt for writes without, CountExt
\* for queries.
Takes(op, s) ==
  CASE op = "execute" -> s.writes /\ ~s.returns
    [] op = "count"   -> ~s.writes
    [] OTHER          -> s.returns

ASSUME ExecutionAssumption ==
  /\ MaxWrites \in Nat
  /\ None \notin Connection
  /\ \A t \in Task : None \notin Calls[t]
  /\ \A t \in Task : \A c \in Calls[t] :
       /\ c = [op |-> c.op, stmt |-> c.stmt, on |-> c.on]
       /\ c.op \in Terminal \cup {"stream"}
       /\ c.on \in {"pool", "tx"}
       /\ Takes(c.op, c.stmt)
       /\ c.stmt = [writes |-> c.stmt.writes, returns |-> c.stmt.returns,
                    binds |-> c.stmt.binds, refused |-> c.stmt.refused,
                    rows |-> c.stmt.rows]
       /\ c.stmt.writes \in BOOLEAN /\ c.stmt.returns \in BOOLEAN
       /\ c.stmt.refused \in BOOLEAN /\ c.stmt.binds \in BindEnd
       /\ c.stmt.rows \in Seq(Row)
       /\ \A i \in DOMAIN c.stmt.rows :
            c.stmt.rows[i] = "fails" => ~c.stmt.writes /\ c.op # "count"

VARIABLES idle,     \* connections in the pool
          waiting,  \* calls and streams in line for one
          call,     \* of each task: the future it awaits, or how the last ended
          stream,   \* of each task: the stream it holds, or how the last ended
          tx,       \* of each task: its transaction
          stored    \* of each task: how many of its writes the database keeps

vars == <<idle, waiting, call, stream, tx, stored>>

\* A future: ran is history, whether the server ran the statement whole.
Start(c) == [op |-> c.op, of |-> c, stage |-> "bind", conn |-> None,
             ran |-> FALSE, end |-> "pending", got |-> <<>>]
Nothing == [op |-> "none", of |-> None, stage |-> "ended", conn |-> None,
            ran |-> FALSE, end |-> "nothing", got |-> <<>>]
NoTx == [conn |-> None, writes |-> 0, state |-> "none"]

Free(t) == call[t].stage = "ended"
Streaming(t) == stream[t].stage # "ended"
StreamOnTx(t) == Streaming(t) /\ stream[t].of.on = "tx"

\* A stream borrows its executor: &mut *tx is the stream's until it is dropped.
TxUsable(t) == tx[t].state # "none" /\ ~StreamOnTx(t)

HasRoom(t) == stored[t] + tx[t].writes < MaxWrites
Takable(t, c) == /\ c.on = "tx" => TxUsable(t)
                 /\ c.stmt.writes => HasRoom(t)

GiveBack(conn) == idle' = IF conn = None THEN idle ELSE idle \cup {conn}

\* A place in line is a call's or a stream's: a task may have one of each.
InLine(x) == \E i \in DOMAIN waiting : waiting[i] = x

\* Mutant of LeaveLine: the place in line is kept.
StayInLine(x) == UNCHANGED waiting

LeaveLine(x) ==
  IF InLine(x)
  THEN \E i \in DOMAIN waiting : waiting[i] = x /\ waiting' = RemoveAt(waiting, i)
  ELSE UNCHANGED waiting

\* The future of t resolves, or the call does, with nothing more held.
Ends(t, end, got) ==
  call' = [call EXCEPT ![t].stage = "ended", ![t].conn = None,
                       ![t].end = end, ![t].got = got]

StreamEnds(t, end) ==
  stream' = [stream EXCEPT ![t].stage = "over", ![t].conn = None, ![t].end = end]
-----------------------------------------------------------------------------
(***************************************************************************)
(* What a task calls.                                                      *)
(***************************************************************************)
\* load, load_one, count and execute: the statement is rendered at the call
\* and nothing else happens before the future is polled.
Await(t, c) ==
  /\ Free(t) /\ c.op \in Terminal /\ Takable(t, c)
  /\ call' = [call EXCEPT ![t] = Start(c)]
  /\ UNCHANGED <<idle, waiting, stream, tx, stored>>

\* Mutant of BoundAs: a value that cannot be bound goes out as something.
BoundAnyway(s) == "all"

\* bind_value, over the statement's values.
BoundAs(s) == s.binds

\* stream: binding ends before there is a stream, whose first poll takes the
\* connection.
Open(t, c) ==
  /\ Free(t) /\ ~Streaming(t) /\ c.op = "stream" /\ Takable(t, c)
  /\ stream' = [stream EXCEPT ![t] =
       IF BoundAs(c.stmt) = "all" THEN [Start(c) EXCEPT !.stage = "unpolled"]
       ELSE [Start(c) EXCEPT !.stage = "ended", !.end = c.stmt.binds]]
  /\ UNCHANGED <<idle, waiting, call, tx, stored>>

\* Where a poll takes a stream: in line for a connection the first time, and
\* to the server once it has one.
PolledOn(s) == CASE s.stage = "unpolled" -> IF s.of.on = "tx" THEN "send" ELSE "acquire"
                 [] s.stage = "granted"  -> "send"
                 [] OTHER                -> s.stage

\* StreamExt::next, which borrows the stream: what the poll goes through is
\* the stream's, so the next one goes on from where a dropped one was.  A
\* stream that is over answers None again.
NextRow(t) ==
  /\ Free(t) /\ Streaming(t) /\ stream[t].stage # "over"
  /\ IF stream[t].stage = "unpolled" /\ stream[t].of.on = "pool"
     THEN waiting' = Append(waiting, <<t, "stream">>)
     ELSE UNCHANGED waiting
  /\ stream' = [stream EXCEPT ![t].stage = PolledOn(stream[t])]
  /\ call' = [call EXCEPT ![t] = [Nothing EXCEPT !.op = "next", !.end = "pending",
                                                 !.stage = "poll"]]
  /\ UNCHANGED <<idle, tx, stored>>

Polled(t) == call[t].stage = "poll"

\* What the holder of a stream it lets go of knows: that nothing ran, or, of
\* what it has rows of, that it did.
LeftEarly(s) == CASE s.stage = "unpolled" -> "unpolled"
                  [] s.stage = "over"     -> s.end
                  [] OTHER -> IF s.got # <<>> THEN "left" ELSE "dropped"

LetGo(t, end) ==
  stream' = [stream EXCEPT ![t].stage = "ended", ![t].conn = None, ![t].end = end]

\* Mutant of ReturnedBy: a stream gives back what it has when it is exhausted.
OnlyOnceOver(s) == None

\* The connection a dropped stream still has.
ReturnedBy(s) == s.conn

\* The stream itself is dropped, and with it its place in line or its
\* connection.
DropStream(t) ==
  /\ Free(t) /\ Streaming(t)
  /\ LetGo(t, LeftEarly(stream[t]))
  /\ GiveBack(ReturnedBy(stream[t]))
  /\ LeaveLine(<<t, "stream">>)
  /\ UNCHANGED <<call, tx, stored>>

\* pool.begin() and tx.commit().
Begin(t) ==
  /\ Free(t) /\ tx[t].state = "none"
  /\ \E c \in Calls[t] : c.on = "tx"
  /\ call' = [call EXCEPT ![t] = [Nothing EXCEPT !.op = "begin", !.end = "pending",
                                                 !.stage = "acquire"]]
  /\ waiting' = Append(waiting, <<t, "call">>)
  /\ UNCHANGED <<idle, stream, tx, stored>>

Commit(t) ==
  /\ Free(t) /\ TxUsable(t)
  /\ call' = [call EXCEPT ![t] = [Nothing EXCEPT !.op = "commit", !.end = "pending",
                                                 !.stage = "send"]]
  /\ UNCHANGED <<idle, waiting, stream, tx, stored>>

\* tx.rollback(), or a transaction that is dropped.
Rollback(t) ==
  /\ Free(t) /\ TxUsable(t)
  /\ GiveBack(tx[t].conn)
  /\ tx' = [tx EXCEPT ![t] = NoTx]
  /\ UNCHANGED <<waiting, call, stream, stored>>

\* The awaited future is dropped: by a timeout around it, a select!, a
\* request that goes away.  With a commit goes its transaction; a poll only
\* borrows its stream, which keeps its place in line or its connection.
Cancel(t) ==
  /\ ~Free(t)
  /\ Ends(t, "dropped", <<>>)
  /\ CASE call[t].op = "commit" ->
            GiveBack(tx[t].conn) /\ tx' = [tx EXCEPT ![t] = NoTx] /\ UNCHANGED waiting
       [] call[t].op = "next" -> UNCHANGED <<idle, waiting, tx>>
       [] OTHER -> GiveBack(call[t].conn) /\ LeaveLine(<<t, "call">>) /\ UNCHANGED tx
  /\ UNCHANGED <<stream, stored>>
-----------------------------------------------------------------------------
(***************************************************************************)
(* What the future goes through.                                           *)
(***************************************************************************)
\* bind_all is the future's first step, before its executor is asked for
\* anything.
Bind(t) ==
  /\ call[t].stage = "bind"
  /\ IF BoundAs(call[t].of.stmt) # "all"
     THEN Ends(t, call[t].of.stmt.binds, <<>>) /\ UNCHANGED waiting
     ELSE IF call[t].of.on = "tx"
     THEN call' = [call EXCEPT ![t].stage = "send"] /\ UNCHANGED waiting
     ELSE /\ call' = [call EXCEPT ![t].stage = "acquire"]
          /\ waiting' = Append(waiting, <<t, "call">>)
  /\ UNCHANGED <<idle, stream, tx, stored>>

\* A connection goes to the first in line.
Acquire(t) ==
  /\ waiting # <<>> /\ Head(waiting) = <<t, "call">>
  /\ \E c \in idle :
       /\ idle' = idle \ {c}
       /\ call' = [call EXCEPT ![t].stage = "send", ![t].conn = c]
  /\ waiting' = Tail(waiting)
  /\ UNCHANGED <<stream, tx, stored>>

\* ... which may be a stream nobody polls any more: the connection is then
\* its own, and waits for the next poll.
AcquireStream(t) ==
  /\ waiting # <<>> /\ Head(waiting) = <<t, "stream">>
  /\ \E c \in idle :
       /\ idle' = idle \ {c}
       /\ stream' = [stream EXCEPT ![t].stage = IF Polled(t) THEN "send" ELSE "granted",
                                   ![t].conn = c]
  /\ waiting' = Tail(waiting)
  /\ UNCHANGED <<call, tx, stored>>

\* acquire_timeout: PoolTimedOut.
TimeOut(t) ==
  /\ call[t].stage = "acquire"
  /\ Ends(t, "PoolTimedOut", <<>>)
  /\ LeaveLine(<<t, "call">>)
  /\ UNCHANGED <<idle, stream, tx, stored>>

\* ... which is a stream's only item, once it is polled for it.
TimeOutStream(t) ==
  /\ Polled(t) /\ stream[t].stage = "acquire"
  /\ Ends(t, "item", <<>>)
  /\ StreamEnds(t, "PoolTimedOut")
  /\ LeaveLine(<<t, "stream">>)
  /\ UNCHANGED <<idle, tx, stored>>

Fails(rows) == \E i \in DOMAIN rows : rows[i] = "fails"

\* What the server refuses: the statement itself, or, read to the end, a row
\* of it.  An aborted transaction refuses everything.
Refuses(t, c) ==
  \/ c.on = "tx" /\ tx[t].state = "aborted"
  \/ c.stmt.refused
  \/ c.op = "load" /\ Fails(c.stmt.rows)
  \/ c.op = "load_one" /\ c.stmt.rows # <<>> /\ c.stmt.rows[1] = "fails"

Abort(t) == tx' = [tx EXCEPT ![t].state = "aborted", ![t].writes = 0]

\* A statement that runs: a write is stored at once, or with its transaction.
Perform(t, c) ==
  LET n == IF c.stmt.writes THEN 1 ELSE 0
  IN IF c.on = "tx"
     THEN tx' = [tx EXCEPT ![t].writes = @ + n] /\ UNCHANGED stored
     ELSE stored' = [stored EXCEPT ![t] = @ + n] /\ UNCHANGED tx

\* The server takes the statement of an awaited call.
Serve(t) ==
  /\ call[t].stage = "send" /\ call[t].op \in Terminal
  /\ call[t].of.on = "tx" => tx[t].state # "lost"
  /\ IF Refuses(t, call[t].of)
     THEN /\ Ends(t, "Database", <<>>)
          /\ GiveBack(call[t].conn)
          /\ IF call[t].of.on = "tx" THEN Abort(t) ELSE UNCHANGED tx
          /\ UNCHANGED stored
     ELSE /\ call' = [call EXCEPT ![t].stage = "answered", ![t].ran = TRUE]
          /\ Perform(t, call[t].of)
          /\ UNCHANGED idle
  /\ UNCHANGED <<waiting, stream>>

\* ... of a stream, whose poll has sent it and may be gone: all of it, however
\* few of its rows are read.
ServeStream(t) ==
  /\ stream[t].stage = "send"
  /\ stream[t].of.on = "tx" => tx[t].state # "lost"
  /\ IF Refuses(t, stream[t].of)
     THEN /\ stream' = [stream EXCEPT ![t].stage = "refused"]
          /\ IF stream[t].of.on = "tx" THEN Abort(t) ELSE UNCHANGED tx
          /\ UNCHANGED stored
     ELSE /\ stream' = [stream EXCEPT ![t].stage = "open", ![t].ran = TRUE]
          /\ Perform(t, stream[t].of)
  /\ UNCHANGED <<idle, waiting, call>>

\* The refusal, as the stream's only item.
Refusal(t) ==
  /\ Polled(t) /\ stream[t].stage = "refused"
  /\ Ends(t, "item", <<>>)
  /\ StreamEnds(t, "Database")
  /\ GiveBack(stream[t].conn)
  /\ UNCHANGED <<waiting, tx, stored>>

\* ... BEGIN, and COMMIT, which ends an aborted transaction without an error.
ServeBegin(t) ==
  /\ call[t].stage = "send" /\ call[t].op = "begin"
  /\ tx' = [tx EXCEPT ![t] = [conn |-> call[t].conn, writes |-> 0, state |-> "open"]]
  /\ Ends(t, "Ok", <<>>)
  /\ UNCHANGED <<idle, waiting, stream, stored>>

ServeCommit(t) ==
  /\ call[t].stage = "send" /\ call[t].op = "commit"
  /\ tx[t].state # "lost"
  /\ call' = [call EXCEPT ![t].stage = "answered", ![t].ran = TRUE]
  /\ stored' = [stored EXCEPT ![t] = @ + tx[t].writes]
  /\ tx' = [tx EXCEPT ![t].writes = 0, ![t].state = "committed"]
  /\ UNCHANGED <<idle, waiting, stream>>

\* Mutant of Decoded: rows that do not decode are left out.
DecodedWhereItCan(rows) == [end |-> "Ok", got |-> SelectSeq(rows, LAMBDA r : r = "decodes")]

\* Decoding rows into a Vec: all of them, or the first error.
Decoded(rows) ==
  IF \A i \in DOMAIN rows : rows[i] = "decodes"
  THEN [end |-> "Ok", got |-> rows]
  ELSE [end |-> "Decode", got |-> <<>>]

\* fetch_all, fetch_optional, count_rows and execute_only, of an answer.
Result(c) ==
  CASE c.op = "load"     -> Decoded(c.stmt.rows)
    [] c.op = "load_one" -> Decoded(SubSeq(c.stmt.rows, 1, 1))
    [] OTHER             -> [end |-> "Ok", got |-> c.stmt.rows]

\* Mutant of AfterAnswer: what does not decode is sent again.
SentAgain(t) ==
  IF Result(call[t].of).end = "Decode"
  THEN call' = [call EXCEPT ![t].stage = "send"] /\ UNCHANGED idle
  ELSE Ends(t, Result(call[t].of).end, Result(call[t].of).got) /\ GiveBack(call[t].conn)

\* The connection goes back, the rows are decoded.
AfterAnswer(t) ==
  Ends(t, Result(call[t].of).end, Result(call[t].of).got) /\ GiveBack(call[t].conn)

Finish(t) ==
  /\ call[t].stage = "answered" /\ call[t].op \in Terminal
  /\ AfterAnswer(t)
  /\ UNCHANGED <<waiting, stream, tx, stored>>

FinishCommit(t) ==
  /\ call[t].stage = "answered" /\ call[t].op = "commit"
  /\ Ends(t, "Ok", <<>>)
  /\ GiveBack(tx[t].conn)
  /\ tx' = [tx EXCEPT ![t] = NoTx]
  /\ UNCHANGED <<waiting, stream, stored>>

\* The next row of a stream, decoded as it arrives; one that does not decode
\* is an item like another.
Item(t) ==
  LET rows == stream[t].of.stmt.rows
      n == Len(stream[t].got) + 1
  IN /\ Polled(t) /\ stream[t].stage = "open" /\ n <= Len(rows)
     /\ IF rows[n] = "fails"
        THEN /\ StreamEnds(t, "broken")
             /\ GiveBack(stream[t].conn)
             /\ IF stream[t].of.on = "tx" THEN Abort(t) ELSE UNCHANGED tx
        ELSE /\ stream' = [stream EXCEPT ![t].got = Append(@, rows[n])]
             /\ UNCHANGED <<idle, tx>>
     /\ Ends(t, "item", <<>>)
     /\ UNCHANGED <<waiting, stored>>

\* Mutant of EndOf: the end of the rows is one more wait.
WaitsForMore(t) == UNCHANGED <<idle, stream, call>>

EndOf(t) ==
  /\ StreamEnds(t, "exhausted")
  /\ GiveBack(stream[t].conn)
  /\ Ends(t, "item", <<>>)

\* ... and None after the last, which lets go of the connection.
Exhaust(t) ==
  /\ Polled(t) /\ stream[t].stage = "open"
  /\ Len(stream[t].got) = Len(stream[t].of.stmt.rows)
  /\ EndOf(t)
  /\ UNCHANGED <<waiting, tx, stored>>

LoseTx(t) == tx' = [tx EXCEPT ![t].state = "lost", ![t].writes = 0]

\* The connection is lost while a statement is on it, or has been before in
\* the transaction: the call ends in an error, a transaction takes nothing
\* more, and the pool opens another connection.
Lose(t) ==
  /\ call[t].stage \in {"send", "answered"}
  /\ Ends(t, "Io", <<>>)
  /\ CASE call[t].op = "commit" -> GiveBack(tx[t].conn) /\ tx' = [tx EXCEPT ![t] = NoTx]
       [] call[t].op \in Terminal /\ call[t].of.on = "tx" -> LoseTx(t) /\ UNCHANGED idle
       [] OTHER -> GiveBack(call[t].conn) /\ UNCHANGED tx
  /\ UNCHANGED <<waiting, stream, stored>>

\* ... and a stream's, which its next poll finds.
LoseStream(t) ==
  /\ Polled(t) /\ stream[t].stage \in {"send", "refused", "open"}
  /\ Ends(t, "item", <<>>)
  /\ StreamEnds(t, "Io")
  /\ IF stream[t].of.on = "tx" THEN LoseTx(t) /\ UNCHANGED idle
     ELSE GiveBack(stream[t].conn) /\ UNCHANGED tx
  /\ UNCHANGED <<waiting, stored>>
-----------------------------------------------------------------------------
Init ==
  /\ idle = Connection
  /\ waiting = <<>>
  /\ call = [t \in Task |-> Nothing]
  /\ stream = [t \in Task |-> Nothing]
  /\ tx = [t \in Task |-> NoTx]
  /\ stored = [t \in Task |-> 0]

\* What a task is free to do, or not.
Caller(t) ==
  \/ \E c \in Calls[t] : Await(t, c) \/ Open(t, c)
  \/ NextRow(t) \/ DropStream(t)
  \/ Begin(t) \/ Commit(t) \/ Rollback(t) \/ Cancel(t)

\* What brings the future it awaits on.
Driver(t) ==
  \/ Bind(t) \/ Acquire(t) \/ AcquireStream(t) \/ TimeOut(t) \/ TimeOutStream(t)
  \/ Serve(t) \/ ServeStream(t) \/ ServeBegin(t) \/ ServeCommit(t)
  \/ Finish(t) \/ FinishCommit(t) \/ Refusal(t) \/ Item(t) \/ Exhaust(t)
  \/ tx[t].state = "lost" /\ (Lose(t) \/ LoseStream(t))

Next == \E t \in Task : Caller(t) \/ Driver(t) \/ Lose(t) \/ LoseStream(t)

\* An awaited future is polled, the pool's timeout runs out, and a server that
\* is there answers.  Nothing makes a task poll its stream or end its
\* transaction.
Fairness == \A t \in Task : WF_vars(Driver(t))

Spec == Init /\ [][Next]_vars /\ Fairness
-----------------------------------------------------------------------------
End == {"pending", "nothing", "Ok", "Decode", "Database", "Io", "PoolTimedOut", "dropped",
        "item", "unpolled", "left", "exhausted", "broken"} \cup (BindEnd \ {"all"})

Stage == {"bind", "acquire", "send", "answered", "poll", "unpolled", "granted", "refused",
          "open", "over", "ended"}

Future(t) == [op : Terminal \cup {"stream", "next", "begin", "commit", "none"},
              of : Calls[t] \cup {None}, stage : Stage,
              conn : Connection \cup {None}, ran : BOOLEAN, end : End, got : Seq(Row)]

Waiter == Task \X {"call", "stream"}

\* The line holds what waits for a connection, once.
TypeOK ==
  /\ idle \subseteq Connection
  /\ waiting \in Seq(Waiter)
  /\ \A i, j \in DOMAIN waiting : waiting[i] = waiting[j] => i = j
  /\ \A t \in Task : /\ call[t].stage = "acquire" <=> InLine(<<t, "call">>)
                     /\ stream[t].stage = "acquire" <=> InLine(<<t, "stream">>)
  /\ DOMAIN call = Task /\ \A t \in Task : call[t] \in Future(t)
  /\ DOMAIN stream = Task /\ \A t \in Task : stream[t] \in Future(t)
  /\ tx \in [Task -> [conn : Connection \cup {None}, writes : Nat,
                      state : {"none", "open", "aborted", "lost", "committed"}]]
  /\ stored \in [Task -> Nat]

\* Who holds a connection: awaited calls, streams, transactions.
Holders(c) ==
  {<<t, "call">> : t \in {t \in Task : call[t].conn = c}} \cup
  {<<t, "stream">> : t \in {t \in Task : stream[t].conn = c}} \cup
  {<<t, "tx">> : t \in {t \in Task : tx[t].conn = c}}

\* Whatever is awaited, streamed, dropped half way or lost, a connection is in
\* the pool or with one holder, and only what is under way holds one
\* (LoadExt::stream, PgExecutor).
EveryConnectionHasItsPlace ==
  /\ \A c \in Connection :
       IF c \in idle THEN Holders(c) = {} ELSE \E h \in Holders(c) : Holders(c) = {h}
  /\ \A t \in Task : Free(t) => call[t].conn = None
  /\ \A t \in Task : stream[t].stage \in {"over", "ended"} => stream[t].conn = None

NothingRan == {"UnresolvedPlaceholder", "FeatureNotEnabled", "PoolTimedOut", "Database", "unpolled"}
ItRan == {"Ok", "Decode", "exhausted", "left"}

\* What the end of a call or a stream says of the database: an unbound value,
\* a pool that timed out and a refusal leave it as it was, a row that does
\* not decode comes after the statement has run, its writes included, and a
\* statement with a value that cannot be bound never reaches it (Error).
AnEndSaysWhatRan ==
  \A t \in Task : \A f \in {call[t], stream[t]} : f.of # None =>
    /\ f.end \in NothingRan => ~f.ran
    /\ f.end \in ItRan => f.ran
    /\ f.of.stmt.binds # "all" => ~f.ran /\ f.conn = None

\* What load would make of the rows a stream has given.
Given(t) == Decoded(stream[t].got)

\* load gives every row or an error, load_one the first, and a stream the
\* rows load would, in order, up to where it was left: none is skipped for
\* not decoding.
NoRowIsLeftOut ==
  \A t \in Task :
    /\ call[t].op = "load" /\ call[t].end = "Ok" => call[t].got = call[t].of.stmt.rows
    /\ call[t].op = "load_one" /\ call[t].end = "Ok" =>
         IF call[t].of.stmt.rows = <<>> THEN call[t].got = <<>>
         ELSE call[t].got = <<call[t].of.stmt.rows[1]>>
    /\ call[t].op = "count" /\ call[t].end = "Ok" =>
         Len(call[t].got) = Len(call[t].of.stmt.rows)
    /\ stream[t].end = "exhausted" =>
         Given(t) = Result([stream[t].of EXCEPT !.op = "load"])

\* Every await ends, also of a task that waits for the connection its own
\* stream or transaction holds: there the pool's timeout is its end.
EveryAwaitEnds == \A t \in Task : ~Free(t) ~> Free(t)
-----------------------------------------------------------------------------
\* What the end of f tells its task.
Tells(f) == CASE f.end = "pending" -> "pending"
              [] f.end \in ItRan -> "done"
              [] f.end \in NothingRan -> "not done"
              [] OTHER -> "unknown"

\* Of a commit, the transaction; of other calls, what they were made on.
Asked(f) == [inside |-> f.op = "commit" \/ (f.of # None /\ f.of.on = "tx"),
             ran |-> f.ran, told |-> Tells(f)]

AbstractNothing == [inside |-> FALSE, ran |-> FALSE, told |-> "unknown"]

States == [x \in Task \X {"call", "stream"} |->
             LET f == IF x[2] = "call" THEN call[x[1]] ELSE stream[x[1]]
             IN IF f.op \in Terminal \cup {"stream", "commit"} THEN Asked(f) ELSE AbstractNothing]

Promise == INSTANCE UnitOfWork
             WITH Slot <- {"call", "stream"}, state <- States,
                  work <- [t \in Task |-> tx[t].writes]

\* Run at most once, told the truth, and in a transaction all or nothing.
ImplementsUnitOfWork == Promise!Spec
=============================================================================
