----------------------------- MODULE MCExecution -----------------------------
(* Two tasks and one connection: one streams a write's rows and runs queries *)
(* beside the stream, the other has a transaction and a query on the pool.   *)
EXTENDS Execution

CONSTANTS streamer, banker

Statement(writes, rows) ==
  [writes |-> writes, returns |-> TRUE, binds |-> "all", refused |-> FALSE, rows |-> rows]

Query == Statement(FALSE, <<"fails">>)
Plain == Statement(FALSE, <<"decodes", "decodes">>)
Returning == Statement(TRUE, <<"does not", "decodes">>)
Rejected == [Statement(TRUE, <<>>) EXCEPT !.returns = FALSE, !.refused = TRUE]
Unbound == [Plain EXCEPT !.binds = "UnresolvedPlaceholder"]

C(op, stmt, on) == [op |-> op, stmt |-> stmt, on |-> on]

MCCalls == [t \in Task |->
  IF t = streamer
  THEN {C("stream", Returning, "pool"), C("stream", Unbound, "pool"),
        C("load_one", Plain, "pool"), C("count", Unbound, "pool")}
  ELSE {C("load", Returning, "tx"), C("execute", Rejected, "tx"), C("stream", Query, "tx"),
        C("load", Plain, "pool")}]
=============================================================================
