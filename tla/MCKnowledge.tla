---------------------------- MODULE MCKnowledge ----------------------------
(* A small instance of Knowledge for TLC: the callers are interchangeable.  *)
EXTENDS Knowledge, TLC

CONSTANTS t1, t2

\* One topic is loaded for two of the roles, the other for all, and two of its
\* records do not fit the budget together.
MCTargetsOf == [t \in Topics |-> IF t = t1 THEN {"manager", "coder"} ELSE Roles]
MCCostOf == [t \in Topics |-> IF t = t1 THEN 1 ELSE 2]

\* A skill for coders only that survives, and one its triggers must ask for.
MCBundle == {[name |-> "tdd", keywords |-> {}, tags |-> {}, agents |-> {}, targets |-> {"coder"},
              survives |-> TRUE, cost |-> 1],
             [name |-> "web", keywords |-> {"page"}, tags |-> {"ui"}, agents |-> {"librarian"}, targets |-> {},
              survives |-> FALSE, cost |-> 2]}
MCTasks == {[words |-> {}, tags |-> {}], [words |-> {"page"}, tags |-> {}]}

Symmetry == Permutations(Callers)
=============================================================================
