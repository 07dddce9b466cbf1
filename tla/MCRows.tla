------------------------------- MODULE MCRows -------------------------------
(* A table with a nullable column and a CTE, both with an id; every join of  *)
(* them, and lists that name an id once or twice, under a label or not.      *)
EXTENDS Rows

CONSTANTS users, recent

Named(name, type, null) == [name |-> name, type |-> type, null |-> null]

MCColumns == [t \in Table |->
  IF t = users THEN <<Named("id", "Integer", FALSE), Named("email", "Text", TRUE)>>
  ELSE <<Named("id", "Integer", FALSE), Named("total", "Integer", FALSE),
        Named("paid", "BigInt", FALSE)>>]

Aggregate(op, t, name) == [part |-> "aggregate", op |-> op, table |-> t, name |-> name]
CountStar == [part |-> "count"]
Raw == [part |-> "sql", type |-> "Integer", null |-> FALSE]
Label(name, inner) == [part |-> "label", label |-> name, inner |-> inner]

MCParts ==
  {ColumnPart(users, "id"), ColumnPart(users, "email"), ColumnPart(recent, "total"),
   Aggregate("sum", recent, "total"), Aggregate("sum", recent, "paid"),
   Aggregate("avg", recent, "paid"), Aggregate("max", users, "email"),
   Aggregate("count_of", users, "email"), CountStar, Raw,
   Label("id", ColumnPart(recent, "id")), Label("total", Raw),
   [part |-> "all", table |-> users], [part |-> "all", table |-> recent],
   [part |-> "tuple", parts |-> <<ColumnPart(recent, "id"), ColumnPart(users, "email")>>]}

Cell(name, type, null) == Field(<<"column", users, name>>, type, null)
Id == Cell("id", "Integer", FALSE)
Total == Field(<<"label", "total">>, "Integer", FALSE)
Paid == Field(<<"sum", users, "paid">>, "BigInt", FALSE)

MCBodies ==
  {<<Id, Total, Paid>>, <<Total, Id, Paid>>, <<Id, Total>>, <<Id, Field(Anon, "Integer", FALSE), Paid>>,
   <<Id, Total, [Paid EXCEPT !.null = TRUE]>>, <<Id, Total, [Paid EXCEPT !.type = "Integer"]>>}

By(by, key, type, null) == [by |-> by, key |-> key, type |-> type, null |-> null]
ByName(name, type, null) == By("name", <<"field", name>>, type, null)

MCStructs ==
  {<<ByName("id", "Integer", FALSE)>>,
   <<ByName("email", "Text", TRUE), ByName("id", "Integer", FALSE)>>,
   <<By("from", <<"column", users, "id">>, "Integer", FALSE), ByName("id", "Integer", FALSE)>>,
   <<ByName("total", "Integer", FALSE), ByName("id", "Integer", TRUE)>>,
   <<ByName("paid", "BigInt", TRUE), ByName("total", "BigInt", TRUE)>>}
=============================================================================
