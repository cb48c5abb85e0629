--------------------------- MODULE MCOrchestrator ---------------------------
(* Instance of Orchestrator for TLC: a plan of two stages, and of the workers *)
(* of the roster a stage-scoped one and a one-shot one.                       *)
EXTENDS Orchestrator

CONSTANTS s1, s2, t1, t2

R == INSTANCE Roster

ASSUME RoleAssumption ==
  \A r \in Role : r \in R!DispatchToolsFor("manager") /\ "stageId" \in R!DispatchRequires(r)

Planned(id) == [id |-> id, started |-> FALSE]

MCPlan == [stages |-> <<Planned(s1), Planned(s2)>>, current |-> None, history |-> <<>>]

MCPlannerCalls ==
  [tool : {"plan_set_current"}, id : StageId]

\* The stage-scoped worker is told a second task; the other needs but one.
MCTasksFor == [r \in Role |-> IF r = "reviewer" THEN {t1, t2} ELSE {t1}]

\* Bound: runs are followed up to the first that strays.
NotStrayed == ~strayed

MCPriority == [r \in Role |-> R!ROSTER[r].abortPriority]
MCScopedRole == {r \in Role : R!ROSTER[r].stageScoped}
=============================================================================
