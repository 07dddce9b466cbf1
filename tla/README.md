# A verification development of qbrs

qbrs builds SQL statements from Rust values, renders them for Postgres, MySQL or
SQLite, and (in `qbrs-sqlx`) runs them. Its types decide much before a program
runs. What is left to get wrong is in what the builders accumulate over a sequence
of calls, in the text they render, in how a server reads that text, and in what
happens between a call and its rows. The modules here model the builders' state
and calls, render the statement the way the code does, read it back with the
server's rules, and compare the result with what the calls asked for. Running
statements is modelled as tasks over a pool of connections, with futures that are
dropped and connections that are lost.

Paths below are relative to the repository; `expr.rs` and the like stand for
`crates/core/src/expr.rs`.

## Inventory

| component | state | operations | what makes it correct |
|---|---|---|---|
| values (`expr.rs` `Value`) | none | `==`, `binds_same_as`, `hash_into`, the driver's `bind_value` | two values share a parameter only if the server stores them alike |
| query sink (`render.rs`, `dialect.rs`) | SQL text, params, the index of bound values and its hash seed | `text`, `bind`, `write_placeholder` | the text with its parameters put back is what was asked for; placeholders and parameters agree in number; one value has one text |
| fragments (`render.rs`) | a head and segments of (value, text) | `text`, `bind`, `finish`, `splice_into` | a fragment rendered early reads as if rendered in place, also twice and inside another |
| prepared queries (`prepare.rs`, `select/prepared.rs`) | a template of text and params | `prepare!`, `placeholder`, `prepare`, `resolve` | a resolved call sends its caller's arguments or reports what is missing |
| scope and joins (`scope.rs`, `select/mod.rs`) | the tables in scope with their nullability, the join list, the CTE bindings | `from`, the four joins | a column decodes into `Option` exactly where its table can be missing; every CTE in scope is bound |
| SELECT (`select/mod.rs`, `dyn_select.rs`, `selection.rs`) | `SelectBody`: clauses, page | `filter`, `group_by`, `having`, `order_by*`, `distinct`, `limit`, `offset`, `reselect`, `erase`, `to_sql`, `count_sql` | the total counts the query's rows; the page is the one asked for; a checked sort is of a selected item, until a `reselect` |
| set operations (`select/set_op.rs`) | first branch, the rest, ordering, page | `union` and its siblings, `order_by_column`, `limit`, `offset`, `to_sql`, `count_sql` | each server reads the left fold the calls spell |
| conditions and subqueries (`expr.rs`, `render.rs`, `select/mod.rs`) | expression trees with the tables they require, queries correlated in one another | `and`, `or`, `eq`, `is_null`, `!`, `is_in`, `sql!`, `any_of`, `all_of`, `predicate`, `correlated`, `exists`, `contains`, `filter` | the text reads back as the tree; every name is found in the query around it |
| writes (`insert.rs`, `update.rs`, `delete.rs`, `statement.rs`, the derive's `*Insert`/`*Update`) | a row in the making, rows, a SET list, ON CONFLICT, filters | builders' setters, `values`, `values_all`, `select`, `on_conflict_*`, `set`, `set_to`, `filter`, `returning` | each row stored, changed or left exactly as said |
| CTEs (`cte.rs`, `with!`) | a binding carried by a marker, the row it declares | `with!`, `with`, joining | bound where used; its columns are the body's, by name |
| rows (`select/selection.rs`, `row.rs`, `derive(FromRow)`) | a list of parts that is items to the server and a type to the program; the row, a heterogeneous list | `items`, `decode_at`, `get`, `take`, `into_struct`, `into_tuple` | each field holds what was selected under its key, and has room for the NULLs it may be sent |
| execution (`qbrs-sqlx`) | the pool and its line of waiters; each task's future, stream and transaction | `load`, `load_one`, `stream`, `count`, `execute`, on a pool or a transaction | connections come back; what a call ends in is true of the database; no row is left out |
| windows, raw SQL | clause text | `window`, `sql!` | typing and text |
| macros, facade, examples, tests | none at run time | code generation | not part of the running state |

How they interact. A builder owns its state by value and every call consumes it,
so one statement is built by one thread: there is no shared state until a
statement is run. `to_sql` drives a renderer that writes into a `Sink`, which is
the statement's `QuerySink` or a `FragmentSink`. CTE bodies, set-operation
branches, subqueries and the query of an `INSERT .. SELECT` are rendered to
fragments first and spliced later. A `Prepared` is the one value many callers use
at once, each through its own `resolve`. `qbrs-sqlx` binds `params` one by one,
asks the pool (or a transaction) for a connection, sends the text, and decodes
what comes back with the type the selection computed: the scope's nullability
meets the server's NULLs there. Tasks share the pool, and a stream keeps its
connection while its caller does something else, which may be to wait for another.

What is hard here: the order and repetition of builder calls (a later
`on_conflict` replaces an earlier one, a RIGHT JOIN changes tables joined
before); placeholders renumbered when fragments nest; values that are equal and
yet stored differently; precedence and clause attachment, which differ by server;
the edges of row counts and of empty rows, patches and collections; a list and
the type it decodes into walked in step; and, in execution, the interleaving of tasks
on few connections with timeouts, dropped futures and lost connections.
`PROJECT.json` lists each such hazard at its line.

## Modules

| module | models | composes |
|---|---|---|
| `Values` | the relations between values | |
| `StatementText` | abstract: a statement with every value standing in the text | `Values` |
| `QuerySink` | `QuerySink`, `BoundValues`, placeholder styles | `Values`; refines `StatementText` |
| `Fragments` | `FragmentSink`, `Fragment`, `splice_into` | `QuerySink` |
| `Prepared` | `prepare!`, `Prepared::resolve`; what a call sends | `QuerySink` |
| `QuerySink_proofs` | theorems of the sink, of prepared queries and of fragments | `Prepared`, `Fragments` |
| `Joins` | the scope, the joins, CTE bindings | |
| `Rows` | selection lists, their decoding, rows, structs, what `with!` declares | `Joins` |
| `Rows_proofs` | theorems of joins and of rows | `Rows` |
| `Dialects`, `Paging` | dialect constants; `IntoRowCount`, LIMIT and OFFSET, and the server's reading of them | |
| `SetOperation` | `SetOp` | `Paging` |
| `Selects` | `SelectBody`, `Select`, `DynSelect`, totals | `Paging` |
| `Selects_proofs` | theorems of pages, of queries and their totals, and of chains | `Selects`, `SetOperation` |
| `Trees` | a tree as the sequence of its nodes in postfix order, and what it amounts to | |
| `Conditions` | the nodes conditions are made of, the tables they require, correlated subqueries | `Trees` |
| `Conditions_proofs` | theorems of conditions | `Conditions` |
| `Lists` | the part of a list, and each name once | |
| `Columns` | a table's columns, setters' arguments, `push_set` | `Lists` |
| `Inserts`, `Updates` | the three writing statements | `Columns` |
| `Inserts_proofs` | theorems of INSERT | `Inserts` |
| `Updates_proofs` | theorems of UPDATE and DELETE | `Updates` |
| `UnitOfWork` | abstract: what is asked is run at most once, told truly, and stored whole or not at all | |
| `Execution` | the terminals, streams and transactions of `qbrs-sqlx` over a pool | refines `UnitOfWork` |
| `Execution_proofs` | its invariants, and the refinement of `UnitOfWork` | `Execution` |
| `FoldTheorems` | that a fold has a value at every length, and what is chosen of a list | `Lists` |
| `MC*` | the instances TLC checks | the module named |

Each builder method is an action of that name. What the type system forbids (a
method a state has no impl of, a column the scope lacks, a missing required
setter) is the action's guard, because such a call does not compile. Variables
the comments mark as history hold what the calls asked for and are read by
properties only. Five ideas recur.

* *Text is a sequence of tokens.* A piece of SQL is a model value or a
  keyword. Spelling and layout are left out. What the renderers decide is kept:
  which clause, in which order, inside which parentheses, with which placeholder.
* *A server reads the text.* `ReadByServer`, `Read` and `Answer` are operators
  written from the servers' grammars; `map` marks them external. No property
  compares text with text: each compares what is read with what was asked.
* *A value* is a variant, what `==` compares, and what a column stores. That is
  enough to tell `0.0` from `-0.0`, `1.0` from `1.00`, two texts of one JSON
  document, and NaN from itself.
* *The driver and the pool* are external to the code and modelled from what it
  asks of them: a connection for the first in line, a timeout, an answer or an error,
  rows one by one.
* *A mutant* next to a definition is the same code with a plausible slip. No
  specification uses it.

## Runs

| run | shows | instance, and why it is enough |
|---|---|---|
| `Fragments` | a fragment spliced twice, nested, after other binds, reads as rendered in place | two fragments, two zeros that are one number; nesting deeper repeats the same splice loop |
| `Prepared` | sharing of parameters is exact with numbered and with positional placeholders, and the sink refines `StatementText`; two callers resolve one template, a step at a time, with their own arguments, and a missing name is reported | two structs sharing a field name, two zeros that are one number and two stored values, one hash key so that all collide, four tokens: three binds can meet in any order with text between. NaN, numerics of different scale and other hash keys are covered by the theorems |
| `Rows` | nullability through two joins of every kind, CTE bindings and bodies; every list of two parts decoded; fields taken by key, by name, into structs and tuples | two tables of at most one row, one a CTE, so a table may be joined to itself; matches and NULLs are arbitrary; parts of every kind, ids that meet under one name, bodies in another order, of other names or types than declared |
| `Execution` | calls, streams and transactions end as documented, connections return, every await ends; the refinement of `UnitOfWork` | two tasks, one connection, so that each may wait for what the other, or itself, holds; statements that decode, do not, fail half way, are refused or cannot be bound, and writes that return rows |
| `SetOperation` | every chain of up to four branches, by each server's grammar; totals but on MySQL of columns that share a name, see Findings | four SELECTs: plain, with a page of its own, with its columns swapped, with one name twice; four branches are needed for an operator to change twice |
| `Conditions` | precedence, empty collections and lists, the names of subqueries | four nodes, three queries deep, two tables of one column of three truth values: an operator in an operator, two filters, a column in a subquery that is its own or an enclosing query's. A correlated subquery taken to another query is among them |
| `Selects` | totals, pages, checked sorts on the three servers | items of every kind alone and in pairs, three results, counts below zero, within reach and past `i64`'s maximum (`I64Max` scaled to 7), at most one entry per clause |
| `Inserts` | rows, defaults, NULLs, queries as source, conflicts | three tables holding every kind of column, one with nothing to name, one keyed table for conflicts, two rows, two SETs and two filters |
| `Updates` | patches, layered SETs, filters, deletes | one table with a generated key, a plain and a nullable column; every row over two values; three filters |
| `PreparedSameName`, `UpsertOfNoColumns`, `CountOnMySql` | violations, see Findings | |

Builders finish, so `CHECK_DEADLOCK FALSE` is set wherever a state has no further
call. `Selects` always has one, and in `Execution` deadlock is checked: no state may
leave a task with nothing it or its driver can do. `SYMMETRY` is used where the
elements are interchangeable and only invariants are checked (`Fragments`,
`Conditions`).

Bounds are named where they are declared: `MaxTokens`, `MaxPieces`, `MaxJoins`,
`MaxParts`, `MaxBranches`, `MaxKeys`, `MaxNodes`, `MaxHeld`, `MaxFilters`, `MaxDepth`,
`MaxClauses`, `MaxRows`, `MaxWrites`. They limit how many calls are made, never how
one behaves.

Fairness. A builder makes progress only when its caller calls it, and a caller may
stop anywhere: no fairness is assumed there. `Execution` assumes weak fairness of
`Driver(t)` for each task and of nothing else. An awaited future is polled, because
that is what awaiting it means; the pool's timeout runs out; the server
answers or the connection is lost. Nothing makes a task poll its stream, drop it or
end its transaction, and losses and cancellations need not happen. Under that
`EveryAwaitEnds` holds, also where a task awaits a query while its own stream
holds the only connection: it is `TimeOut` that ends the wait there, and the
property would fail without it.

The fault model is what the code can meet: a future dropped at any await, with its
transaction where it owns one (a commit does); the pool's timeout; a connection lost
before or after the server has run the statement, so that the caller cannot know; a
statement the server refuses; an aborted transaction, which refuses the
rest and whose COMMIT ends it without storing anything; a row that fails in the
middle of a query. `next` only borrows its stream: a poll that is dropped (`Cancel`) leaves
the stream what it had, a place in line, a connection or an answer, and the next poll goes
on from there; only `DropStream`, the last row or an error gives the connection back. A
stream in line may be given one while nobody polls it (`AcquireStream`, "granted"),
and what the server or the pool has to say waits for the poll that hears it
(`TimeOutStream`, `Refusal`, `LoseStream`).

`UnitOfWork` is what a caller may rely on: a call is asked, run at most once, and
told `done`, `not done` or `unknown`, where the first two are true; a transaction's
writes are stored together by a commit that ran, or dropped. The mapping takes each
task's future and stream as its two slots, and `Tells` maps each end to what it says.

What properties leave out, with the reason:

* `CheckedSortsAreSelected` speaks of the sorts checked since the last `reselect`, which keeps
  the clauses and drops their guarantee. A DISTINCT query can so be left with an ORDER BY it no
  longer selects, which Postgres refuses; `select/mod.rs:631-632` documents it as a known
  limitation, so there is no promise to check and `Reselect` clears the list.
* `CountsTheWholeCombination` leaves out, on MySQL, the chains with two columns of one name
  (Findings).
* `PageIsTheOneAskedFor` does not speak of a row count passed as an expression that is
  negative: it is bound, not clamped, and the server decides. It speaks of results an `i64`
  can count: of a longer one, the limit a `u64` is clamped to would leave rows out.
* `Inserts` takes no DEFAULT in a VALUES row on SQLite, which README.md's status
  table names as unsupported.
* `EveryRowEndsAsAsked` leaves out, on MySQL, an assignment that reads a column
  assigned earlier in the same SET: MySQL evaluates from left to right, and the code
  promises nothing there.
* `Selects` takes no writing CTE (`Binding`). With one, the total of a grouped or
  distinct query wraps the write in a derived table, where Postgres refuses it.
  README.md names EXISTS, IN and branches for that limit, not the total.

## Proofs

`QuerySink_proofs` holds for every set of values, texts, hash keys and dialects,
whichever of them number their placeholders, and any length (`MaxTokens` is any
natural). It assumes `ValueAssumption` (only the three variants store
finer than `==`, and only their `==` is irreflexive) and `SinkAssumption` (texts
are not values or placeholders).

* `ServerReadsWhatWasAsked` is not inductive: a bind may reuse an index entry, so
  the entry must be known to hold the right parameter, and a later bind must
  find it. `IInv` therefore adds `Aligned` and `PlaceholdersHold` (text, history
  and params correspond), `OnePlaceholderPerParameter` (for `?`), and `IndexExact`:
  parameters are distinct, buckets hold indices of their own key, each once, and
  every parameter is indexed. The two lemmas it turns on are
  `BindsSameAsIsStoredAlike` and `StoredAlikeHashAlike`.
* `Invariance` gives `TypeCorrect`, `ReadsWhatWasAsked`, `SameText` and
  `ParametersNamed`. `SinkImplementsInlining` shows initial states map to
  initial states and each `text` or `bind` to one step of `StatementText`.

Prepared queries hold for any structs, values, text and callers, from
`DeclarationAssumption` and the sink's two.

* `PreparedIInv` is the sink's `IInv` with `SlotsAligned` (what was written at a position is
  the placeholder of the field bound there, or no placeholder) and `CallsProgress`
  (every call has answered the entries it has passed, and one that was refused
  stands at an entry no field of `Params` answers). The sink's part is needed because
  fields and literals share parameters: `ParameterIsWritten` turns "stored alike" into "the
  same placeholder".
* `CallersArgumentsRead` needs no more. `MismatchRefused` assumes `NamesAreOfOneStruct`, that a
  module and a name tell structs apart: without it the property is false, as the
  run `PreparedSameName` shows.
* Every step of `Prepared` is a step of the sink or leaves it alone (`SinkSteps`), so the sink's
  refinement carries over (`TemplateImplementsInlining`).

Fragments hold for any names of fragments, nested to any depth, from `FragmentsAssumption`
and the sink's two.

* `SplicedAsRenderedThere` is an equality at the end of a loop, so `FragmentsIInv` speaks
  of its middle. `AllGrow` gives each finished fragment a witness, what its first
  n segments amount to; `SplicedSoFar` says the loop has asked its sink for
  exactly that up to the segment it stands at, and half of a segment between `bind` and
  `text`. `SpansHold` keeps what was spliced earlier where it was, since text only
  grows at its end (`PartStays`).
* `SplicedTwiceIsOneText` needs the sink's `SameText` as well: the two places ask for the
  same values, and only sharing makes their placeholders the same.

`Rows_proofs` holds for any schema, contents, bodies, lists and number of joins, from
`JoinsAssumption`, `RowsAssumption` and `NullAssumption`.

* `NoNullWithoutOption` speaks of the rows of one database. It follows from two
  parts of `IInv`: `OptionOnlyWhereNeeded`, that the scope is exact about the patterns
  of absent tables any contents can show, and `RowsFitPatterns`, that the
  rows follow the patterns. `Shape` (some pattern exists once there is a FROM) is
  what makes a RIGHT JOIN's flipped slots necessary.
* `PresenceNeverReturns` proves the action property `NullabilityIsSticky`.
* `items` and `decode_at` are two walks over one list. `RowsDecode` shows both to be images of one
  sequence of leaves, so an item and the field at its index are of one leaf; that
  the field has room for what the server sends is then the scope's exactness.
* `RowsIInv` adds that each body fits its declared row and that reading only moves
  cells. `OrderIgnored` needs no invariant: a struct finds each field by key, and a
  permutation keeps what stands under a key.

`Execution_proofs` holds for any tasks, connections, statements with any rows, and any
`MaxWrites`, from `ExecutionAssumption`. None of its properties is inductive, since each
speaks of the end of a call and the steps that lead there carry the reason. `IInv` is

* `Local(t)`: for each task, which stage its future, stream and transaction may be
  in together (`Together`), what a stage says of the connection held and of
  `ran` (`CallRan`, `StreamRan`), and that the rows given so far are the first
  of the result (`FirstRows`);
* `Line`: the line holds each call and each stream that waits, once, which `LeaveLine` needs to
  take out the right entry when a future or a stream is dropped or times out;
* `Placed(idle, Hold)`: a connection is idle or held once. It speaks of one function
  from holders to connections, so that each step is an instance of three lemmas (`Grab`,
  `Release`, `Pass`) and not of the whole state.

`ConnectionsPlaced`, `EndsSayWhatRan`, `RowsComplete` and `TypeCorrect` follow from it.

`ExecutionImplementsUnitOfWork` is `Spec => ImplementsUnitOfWork`, a lemma to an action. `Await`,
`Open` and `Commit` map to `Ask`; `NextRow` and `Begin` reuse the task's future, so they map to
`Forget`; `Serve` and `ServeStream` to `Run`; where the server refuses, `Serve` and, for a
stream, the `Refusal` its poll hears to `Tell`; `ServeCommit` to the abstract `Commit`; `ServeBegin`, `Rollback` and a stream refused in a transaction to `Abandon`; what
ends a call or a stream to `Tell`; the rest stutter. `IInv` is needed for two
facts: what has ended is told truly, and what is run has not run before.

`Updates_proofs` holds for any table, conditions, rows and dialect, from
`ColumnsAssumption` and `UpdatesAssumption`.

* `RowsEndAsAsked` needs `Matches(sets, said)` in `IInv`: the SET list names a column once, with
  what was last said of it. That is what `push_set` keeps by its `retain`
  (`PushSet` over a list of any length) and what `from_row` makes of a patch. With each
  column once, the order in which the server assigns does not matter.
* `EmptyPatchesRefused`: by `PatchInHand` a patch has a field to set exactly where
  something was said, however often it was set and made untouched again.
* `FiltersNarrow` is an action property. What a row becomes depends on the text through
  its assignments and filters alone (`RunOf`), a superset of the filters writes no more
  (`MoreFilters`), and of the steps only `filter` touches them (`OnlyFilterFilters`).

`Inserts_proofs` holds for any tables, rows, queries, conflict targets and filters, from
`ColumnsAssumption` and `InsertsAssumption` (mostly that `None` is none of the values it
stands beside).

* Of what is read at the end nothing is inductive. `IInv` has a part for each thing in the
  making: the row being built has what its setters last said (`BuildingInv`), the rows
  built are each what was said of them (`HeldInv`), a statement has the rows it was given,
  in their order and one where the table has nothing to name, and the clause of the last
  `on_conflict` call (`StatementInv`, `ConflictAgrees`), and a SET list names a column
  once, with what was last said of it (`ChangeInv`).
* Then the text is read back. It is three runs of clauses, `Whole(rows, conflict, returned)`,
  whose keywords are disjoint, so a clause is found in the run it was written in whatever the
  others hold (`Places`, `RowPlaces`, `ConflictAt`). With the places known, the
  server accepts it, each row is read at its own clause (`RowRead`), and the two WHEREs of
  a conflict are told apart by where they stand (`ConflictRead`).
* `EveryRow`, `RowsStored` and `ConflictsSettled` assume `NamesSomething`: if SQLite is served,
  no conflict target is of a table with nothing to name. Without it they are false, as the
  run `UpsertOfNoColumns` shows; the run `Inserts` satisfies it. `QueryFills` needs no such
  hypothesis.

`Selects_proofs` holds for any selections, columns, requests, rows and `MaxClauses`, for each
dialect and any `I64Max`, from `SelectsAssumption`, `PagingAssumption` and `DialectsAssumption`.

* Pages need no invariant of their own: `PageReadIsPageWritten` splits on which of the two
  clauses are given and on whether the dialect writes a filler LIMIT. `CountsInRange` and
  `FittingLosesNoRow` are about `IntoRowCount`. `PagesAsAsked` then needs, in `IInv`,
  that either count of the body is the last one asked for, made to fit (`AskedAgree`).
* `CountsOfTheRows` compares two statements. Where nothing repeats rows or drops them, the
  count is one aggregate of the rows kept, which are as many as the query's; else
  the query is wrapped, and what a server yields depends on the clauses two
  statements share (`ClausesOf`). It assumes `Countable`: no CTE writes, and on MySQL no
  selection has two columns of one name. Without the second it is false, as
  the run `CountOnMySql` shows.
* `CheckedSorts` speaks of positions in the ORDER BY list, so `IInv` adds that the list only
  grows past the checked positions, that a query's clauses stay typed and that every
  selected item is one of `Item`.
* Chains have an invariant of their own, `ChainIInv`: the branches are of one shape, and an
  ORDER BY key stands in one place of it. `ChainsReadAsLeftFold` and `ChainsAreCountedWhole` hold
  for any branches and any number of them, from `SetOperationAssumption`, the second, as the
  property itself, of the chains whose count the server takes for a derived table
  (`DerivedTable`; a left fold has its first branch's columns, `LeftFoldColumns`): a server that
  has read i branches stands in a group in which the operand is the left fold of them,
  with the groups still to close around it (`Stands`, `Outside`, `Pending`). A group closed at each
  change of operator is why precedence, which SQLite lacks, plays no part.

`Conditions_proofs` holds for any tables, lists, conditions of any size and queries nested to
any depth, from `ConditionsAssumption`.

* A condition is a tree, and a recursive operator over trees is out of the prover's reach. So a
  tree is the sequence of its nodes in postfix order (`Trees`), whose value is one
  fold over a stack, and the conditions are the least set closed under nodes (`Expr`).
  `Structural` is induction over that set, and `EvaluateTree` says that what a tree amounts to
  is what its node makes of what its operands amount to; rendering, meaning, names and truth
  are four instances of it.
* `ReadBack`: what is rendered reads as it is meant. The induction needs more
  than that: a rendering reads as one operand whatever the server has read and has
  waiting (`ReadsAs`), which the parentheses give (`EnclosedReads`), and a WHERE of several
  filters reads as their AND before its bracket closes (`SoFar`, `FiltersRead`).
* `IInv` says of what the program holds that a condition names tables of its type alone
  (`HeldCondition`), and of a query that its filters name tables of its scope alone
  (`Building`). A subquery then leaves unbound only tables it is correlated with
  (`SubqueryIs`), and a meaning keeps the names of what was said (`MeaningKeepsNames`).
* `CollectionsAnswer` adds the history: what was collected is conditions, and its fold the one
  `fold_conditions` makes of them (`WasAsked`). That AND is true where all are and OR false where all
  are is again an induction, over the fold (`AllSay`).

`FoldTheorems` is what the proofs about lists of any length rest on. The provers take no
theorem with an operator as parameter, so induction is had once, first order, from
the library's well-foundedness of `<` on `Nat` (`Least`, `EveryNumber`). `FoldExists`
and `FoldRightExists` say that a fold over 1..N of a given step has a value at every set of
indices, and the proofs unfold the community modules' folds with that value. Of `Only` and
`FirstOfEach` it says which entries they keep, and in which order.

Only model-checked: `EveryAwaitEnds`, since liveness under fairness is beyond the prover.

## Findings

* `PreparedSameName` (documentation and code disagree): a placeholder's name is module
  path, struct and field. Two structs of one name declared in two functions of
  one module have the same names, so one's values can be bound to the other's
  query; `select/prepared.rs:26-28` says that never happens.
* `UpsertOfNoColumns` (bug): on SQLite, `ON CONFLICT` after `DEFAULT VALUES` is a
  syntax error; a table whose columns are all generated builds exactly that.
* `CountOnMySql` (bug): the total of a DISTINCT or grouped query with two
  columns of one name is a derived table MySQL refuses, though it runs the query. The total
  of a chain (`set_op.rs:157-160`) is rendered by the same `render_count_wrapped`, and
  `SameShape` asks only that the branches have one list of names, not that each
  stand there once: such a chain has no total on MySQL either. The reader of `SetOperation`
  refuses it, `CountsTheWholeCombination` names it as the case it leaves out, and its
  instance has a branch of that kind, which on Postgres and SQLite is counted.

## Not modelled

* Windows (`window.rs`): a list of keys written between parentheses and commas, where
  precedence cannot reach; the tables they name are required like any
  expression's. `sql!`'s splitting of its literal at each `?`: text. The template it
  makes is modelled in `Conditions`.
* Casts, functions, `= ANY` and aggregates as nodes of a condition: calls in the text, for
  the same reason. The seven comparisons are one operator, `=`.
* What a subquery selects, and its joins and clauses: those of any `Select`.
* A query that selects one bare column and decodes to it without a row; groups of
  optional tables; `Debug`, `Clone` and `==` of rows.
* The type-level relations of `expr.rs` (`SqlType`, `Comparable`) except where a
  guard needs one (`Fits` for `AssignsTo`, `SameShape`, `Superset`).
* `crates/macros`' parsing of its input: compile time. What it emits is modelled
  where it runs.
* `RETURNING`'s projection is every column; which columns is decided by types.
* What the driver does on its own: statement caching, the wire, growing the pool.
  Nested transactions, which the crate has no call for.
* Facade, examples, tests, benchmarks.

## Plan

Done, in this order: `Values`, `QuerySink` and its proofs, `Fragments`, `Prepared`,
`Joins` and its proofs, `SetOperation`, `Conditions`, `Selects`, `Columns`, `Inserts`,
`Updates`, `Rows` (with the CTEs' columns), `Execution`, `UnitOfWork` and their proofs,
subqueries in `Conditions`, and the proofs about `Paging`, `Prepared`, `Fragments`, `Rows`,
`Updates`, `SetOperation`, `Selects`, `Inserts` and `Conditions`.

Next:

1. Windows as nodes of `Selects`' items.
