----------------------------- MODULE AtomicPlan -----------------------------
(***************************************************************************)
(* What the plan service promises: one plan document that every writer     *)
(* tool changes in a single step, computed from the document as it is at   *)
(* that step ("Serialized through Plan MCP (one call at a time)",          *)
(* docs/internals/architecture.md).  A call that fails changes nothing.    *)
(***************************************************************************)
EXTENDS PlanDocument

VARIABLES
  plan,   \* the document
  last    \* the call that produced it

TypeOK ==
  /\ plan \in Docs \cup {NoDoc}
  /\ last \in Calls \cup [tool : {"none", "plan_append_history"}]

Init ==
  /\ plan = NoDoc
  /\ last = [tool |-> "none"]

Write(c) ==
  /\ Effect(c, plan) # Rejected
  /\ plan' = Effect(c, plan)
  /\ last' = c

\* The offline backfill of history.
Backfill(id) ==
  /\ AppendHistory(id, plan) # Rejected
  /\ plan' = AppendHistory(id, plan)
  /\ last' = [tool |-> "plan_append_history"]

Next == (\E c \in Calls : Write(c)) \/ (\E id \in StageId : Backfill(id))

Spec == Init /\ [][Next]_<<plan, last>>

-----------------------------------------------------------------------------
\* No tool loses, reorders or repeats a completed stage.
HistoryAppendOnly == [][IsPrefix(History(plan), History(plan'))]_<<plan, last>>

\* A stage that has been completed is never planned or executed again: its id
\* stays out of the active list, so run_manager's gate can never admit it.
NeverReplanned ==
  plan # NoDoc => Ids(plan.stages) \cap Range(plan.history) = {}
=============================================================================
