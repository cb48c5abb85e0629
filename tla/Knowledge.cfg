SPECIFICATION Spec
CONSTANTS
  Callers = {c1, c2}
  Roles = {"manager", "coder", "librarian"}
  t1 = t1
  t2 = t2
  Topics = {t1, t2}
  TargetsOf <- MCTargetsOf
  CostOf <- MCCostOf
  SurvivingTopics = {t1}
  Budget = 3
  Bundle <- MCBundle
  Tasks <- MCTasks
  RagTopics = {t1}
  Stages = {s1}
  CallerStage = s1
  MaxWrites = 3
  Nobody = Nobody
  Dead = Dead
SYMMETRY Symmetry
INVARIANTS
  DuplicatesComeFromSupersession
  ReadersFollowStatus
  LockIsOfTheIngest
PROPERTIES
  AnswersAreLive
  WritesStayInScope
CHECK_DEADLOCK FALSE
