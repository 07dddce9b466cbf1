----------------------------- MODULE UnitOfWork -----------------------------
(***************************************************************************)
(* What running statements promises, without pools, connections or rows:   *)
(* what a task asks for is run at most once, what it is told afterwards is *)
(* true, and what it writes in a transaction is stored whole or not at all *)
(***************************************************************************)
EXTENDS Naturals

CONSTANTS Task,
          Slot       \* what a task may have asked for at one time

VARIABLES state,     \* of each <<task, slot>>: [inside, ran, told]
          work,      \* of each task: writes of its transaction in hand
          stored     \* of each task: writes the database keeps

vars == <<state, work, stored>>

NothingAsked == [inside |-> FALSE, ran |-> FALSE, told |-> "unknown"]

Init ==
  /\ state = [x \in Task \X Slot |-> NothingAsked]
  /\ work = [t \in Task |-> 0]
  /\ stored = [t \in Task |-> 0]

\* Asked, in the transaction or on its own; and perhaps declined at once.
Ask(x) ==
  /\ state[x].told # "pending"
  /\ \E inside \in BOOLEAN, told \in {"pending", "not done"} :
       state' = [state EXCEPT ![x] = [inside |-> inside, ran |-> FALSE, told |-> told]]
  /\ UNCHANGED <<work, stored>>

Forget(x) ==
  /\ state[x].told # "pending"
  /\ state' = [state EXCEPT ![x] = NothingAsked]
  /\ UNCHANGED <<work, stored>>

\* The database runs what was asked, whether it writes or not: a write on its
\* own is stored, one in a transaction waits for its end.
Run(x) ==
  /\ state[x].told = "pending" /\ ~state[x].ran
  /\ state' = [state EXCEPT ![x].ran = TRUE]
  /\ \E n \in {0, 1} :
       IF state[x].inside
       THEN work' = [work EXCEPT ![x[1]] = @ + n] /\ UNCHANGED stored
       ELSE stored' = [stored EXCEPT ![x[1]] = @ + n] /\ UNCHANGED work

Commit(x) ==
  /\ state[x].told = "pending" /\ ~state[x].ran /\ state[x].inside
  /\ state' = [state EXCEPT ![x].ran = TRUE]
  /\ stored' = [stored EXCEPT ![x[1]] = @ + work[x[1]]]
  /\ work' = [work EXCEPT ![x[1]] = 0]

\* Told how what was asked ended; a fault may take the transaction with it.
Tell(x) ==
  /\ state[x].told = "pending"
  /\ \E told \in {IF state[x].ran THEN "done" ELSE "not done", "unknown"} :
       state' = [state EXCEPT ![x].told = told]
  /\ UNCHANGED work \/ work' = [work EXCEPT ![x[1]] = 0]
  /\ UNCHANGED stored

Abandon(t) ==
  /\ work' = [work EXCEPT ![t] = 0]
  /\ UNCHANGED <<state, stored>>

Next ==
  \/ \E x \in Task \X Slot : Ask(x) \/ Forget(x) \/ Run(x) \/ Commit(x) \/ Tell(x)
  \/ \E t \in Task : Abandon(t)

Spec == Init /\ [][Next]_vars
=============================================================================
