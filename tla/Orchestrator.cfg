CONSTANTS
  s1 = s1
  s2 = s2
  StageId = {s1, s2}
  None = None
  StageLists = {}
  Mgr = {m1}
  AgentId = {a1, a2}
  Role = {"reviewer", "coder"}
  ScopedRole <- MCScopedRole
  AbortPriority <- MCPriority
  t1 = t1
  t2 = t2
  Task = {t1, t2}
  TasksFor <- MCTasksFor
  PlannerCalls <- MCPlannerCalls
  InitialPlan <- MCPlan
SPECIFICATION Spec
CONSTRAINT NotStrayed
INVARIANTS ManagerStageIsCurrent BookkeepingAgrees PromptedForItsTask OneShotCancelIsAimed
PROPERTIES ShutdownEndsRuns
CHECK_DEADLOCK FALSE
