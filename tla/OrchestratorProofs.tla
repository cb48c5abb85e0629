------------------------- MODULE OrchestratorProofs -------------------------
(* The bookkeeping of the agent hierarchy, for any stages, roles, agents,    *)
(* tasks and plans, and any number of dispatches one after the other.        *)
EXTENDS Orchestrator, SequenceTheorems, TLAPS

(***************************************************************************)
(* The plan keeps its shape under every tool call.                         *)
(***************************************************************************)

\* Removing a stage that is there leaves a list of stages.
LEMMA WithoutTypes ==
  ASSUME NEW stages \in Seq(Stages), NEW id \in Ids(stages)
  PROVE  Without(stages, id) \in Seq(Stages)
<1> DEFINE i == CHOOSE k \in DOMAIN stages : stages[k].id = id
<1>1. i \in 1..Len(stages) /\ Len(stages) \in Nat
  BY DEF Ids
<1> HIDE DEF i
<1>2. SubSeq(stages, 1, i - 1) \in Seq(Stages)
  <2>1. i - 1 \in Int /\ \A k \in 1..(i - 1) : stages[k] \in Stages
    BY <1>1
  <2> QED BY <2>1, SubSeqProperties
<1>3. SubSeq(stages, i + 1, Len(stages)) \in Seq(Stages)
  <2>1. /\ i + 1 \in Int /\ Len(stages) \in Int
        /\ \A k \in (i + 1)..Len(stages) : stages[k] \in Stages
    BY <1>1
  <2> QED BY <2>1, SubSeqProperties
<1> QED BY <1>2, <1>3, ConcatProperties DEF Without, RemoveAt, i

\* So do the stamps on start times.
LEMMA StampTypes ==
  ASSUME NEW stages \in Seq(Stages), NEW id, NEW existing
  PROVE  /\ StampStarted(stages, id) \in Seq(Stages)
         /\ PreserveStartedAt(stages, existing) \in Seq(Stages)
<1>1. \A i \in DOMAIN stages :
        stages[i] \in Stages /\ [id |-> stages[i].id, started |-> TRUE] \in Stages
  <2>1. \A s \in Stages : [id |-> s.id, started |-> TRUE] \in Stages
    BY DEF Stages
  <2>2. \A i \in DOMAIN stages : stages[i] \in Stages
    OBVIOUS
  <2> QED BY <2>1, <2>2
<1>2. Len(stages) \in Nat /\ DOMAIN stages = 1..Len(stages)
  OBVIOUS
<1>3. StampStarted(stages, id) \in [DOMAIN stages -> Stages]
  <2>1. \A i \in DOMAIN stages :
          stages[i].id = id => [id |-> id, started |-> TRUE] \in Stages
    BY <1>1
  <2> QED BY <1>1, <2>1 DEF StampStarted
<1>4. PreserveStartedAt(stages, existing) \in [DOMAIN stages -> Stages]
  BY <1>1 DEF PreserveStartedAt
<1> QED BY <1>2, <1>3, <1>4, SeqDef

\* A plan whose parts are replaced is a plan.
LEMMA PlanTypes ==
  ASSUME NEW doc \in Docs
  PROVE  /\ doc.stages \in Seq(Stages) /\ doc.history \in Seq(StageId)
         /\ doc.current \in StageId \cup {None}
         /\ \A stages \in Seq(Stages) : [doc EXCEPT !.stages = stages] \in Docs
         /\ \A stages \in Seq(Stages), current \in StageId \cup {None} :
              [doc EXCEPT !.stages = stages, !.current = current] \in Docs
BY DEF Docs

\* A plan is a plan after every call, rejected or not.
LEMMA OutcomeTypes ==
  ASSUME plan \in Docs, NEW c \in Calls
  PROVE  Outcome(c) \in Docs
<1> DEFINE new == Effect(c, plan)
<1>1. SUFFICES ASSUME new # Rejected PROVE new \in Docs
  BY DEF Outcome
<1>2. \A doc : Checked(doc) # Rejected => Checked(doc) = doc
  BY DEF Checked
<1>3. /\ plan.stages \in Seq(Stages) /\ plan.history \in Seq(StageId)
      /\ plan.current \in StageId \cup {None}
  BY PlanTypes
<1>4. \A stages \in Seq(Stages), current \in StageId \cup {None}, history \in Seq(StageId) :
        [stages |-> stages, current |-> current, history |-> history] \in Docs
  BY DEF Docs
<1>5. \A stages \in Seq(Stages), current \in StageId \cup {None} :
        [plan EXCEPT !.stages = stages, !.current = current] \in Docs
  BY PlanTypes
<1>6. \A stages \in Seq(Stages) : [plan EXCEPT !.stages = stages] \in Docs
  BY PlanTypes
<1>7. CASE c.tool = "plan_init"
  <2>1. new = [stages |-> c.stages, current |-> None, history |-> <<>>] /\ c.stages \in StageLists
    BY <1>1, <1>2, <1>7 DEF Effect, InitPlan, Calls
  <2> QED BY <1>4, <2>1, StageListsAssumption, EmptySeq
<1>8. CASE c.tool = "plan_set_stages"
  <2>1. c.stages \in Seq(Stages) /\ c.current \in StageId \cup {None}
    BY <1>8, StageListsAssumption DEF Calls
  <2>2. new = [plan EXCEPT
          !.stages = StampStarted(PreserveStartedAt(c.stages, plan.stages), c.current),
          !.current = c.current]
    BY <1>1, <1>2, <1>8 DEF Effect, SetStages
  <2>3. PreserveStartedAt(c.stages, plan.stages) \in Seq(Stages)
    BY <2>1, StampTypes
  <2>4. StampStarted(PreserveStartedAt(c.stages, plan.stages), c.current) \in Seq(Stages)
    BY <2>3, StampTypes
  <2> QED BY <1>5, <2>1, <2>2, <2>4
<1>9. CASE c.tool = "plan_add_stage"
  <2>1. c.stage \in Stages
    BY <1>9 DEF Calls
  <2>2. new = [plan EXCEPT !.stages = Append(plan.stages, c.stage)]
    BY <1>1, <1>2, <1>9 DEF Effect, AddStage
  <2>3. Append(plan.stages, c.stage) \in Seq(Stages)
    BY <1>3, <2>1, AppendProperties
  <2> QED BY <1>6, <2>2, <2>3
<1>10. CASE c.tool = "plan_remove_stage"
  <2>1. /\ c.id \in Ids(plan.stages)
        /\ new = [plan EXCEPT !.stages = Without(plan.stages, c.id),
                              !.current = CurrentWithout(plan, c.id)]
    BY <1>1, <1>2, <1>10 DEF Effect, RemoveStage
  <2>2. Without(plan.stages, c.id) \in Seq(Stages)
    BY <1>3, <2>1, WithoutTypes
  <2>3. CurrentWithout(plan, c.id) \in StageId \cup {None}
    BY <1>3 DEF CurrentWithout
  <2> QED BY <1>5, <2>1, <2>2, <2>3
<1>11. CASE c.tool = "plan_set_current"
  <2>1. /\ c.id \in StageId \cup {None}
        /\ new = [plan EXCEPT !.stages = StampStarted(plan.stages, c.id), !.current = c.id]
    BY <1>1, <1>2, <1>11 DEF Effect, SetCurrent, Calls
  <2>2. StampStarted(plan.stages, c.id) \in Seq(Stages)
    BY <1>3, StampTypes
  <2> QED BY <1>5, <2>1, <2>2
<1>12. CASE c.tool = "plan_complete_stage"
  <2>1. /\ [id |-> c.id, started |-> TRUE] \in Range(plan.stages)
        /\ new = [stages |-> Without(plan.stages, c.id),
                  current |-> CurrentWithout(plan, c.id),
                  history |-> Append(plan.history, c.id)]
        /\ c.id \in StageId
    BY <1>1, <1>2, <1>12 DEF Effect, CompleteStage, Calls
  <2>2. c.id \in Ids(plan.stages)
    BY <2>1 DEF Range, Ids
  <2>3. Without(plan.stages, c.id) \in Seq(Stages)
    BY <1>3, <2>2, WithoutTypes
  <2>4. Append(plan.history, c.id) \in Seq(StageId)
    BY <1>3, <2>1, AppendProperties
  <2>5. CurrentWithout(plan, c.id) \in StageId \cup {None}
    BY <1>3 DEF CurrentWithout
  <2> QED BY <1>4, <2>1, <2>3, <2>4, <2>5
<1> QED BY <1>7, <1>8, <1>9, <1>10, <1>11, <1>12 DEF Calls

(***************************************************************************)
(* Types.                                                                  *)
(***************************************************************************)

\* The types of what a manager's steps change.
ManagersOK == mgr \in [Mgr -> ManagerType]

\* The types of what a worker's steps change.
WorkersOK ==
  /\ worker \in [Slot -> WorkerType] /\ agent \in [AgentId -> AgentType]
  /\ cache \in [StageId \X ScopedRole -> AgentId \cup {None}]
  /\ running \in SUBSET (Mgr \cup AgentId) /\ timers \in SUBSET AgentId

\* A dispatch has its agent from its creation, or its reuse, to its end.
Holds == {"recording", "entering", "top", "asking"}
AgentsHeld == \A d \in Slot : worker[d].agent # None <=> worker[d].phase \in Holds

\* The states at rest have their types.
LEMMA RestTypes ==
  IdleManager \in ManagerType /\ IdleWorker \in WorkerType /\ NewAgent \in AgentType
BY DEF IdleManager, IdleWorker, NewAgent, ManagerType, WorkerType, AgentType, ManagerPhases,
       WorkerPhases, StageOrNone

\* A manager's record keeps its type under what its steps do to it.
LEMMA ManagerTypes ==
  ASSUME NEW r \in ManagerType
  PROVE  /\ \A p \in ManagerPhases : [r EXCEPT !.phase = p] \in ManagerType
         /\ \A s \in StageOrNone : [r EXCEPT !.phase = "lookup", !.seen = s] \in ManagerType
         /\ \A c \in BOOLEAN : [r EXCEPT !.phase = "top", !.cancelled = c] \in ManagerType
         /\ [r EXCEPT !.cancelled = TRUE] \in ManagerType
BY DEF ManagerType, ManagerPhases

\* What the steps of the planner, of the workers and of those who cancel leave alone.
LEMMA Frames ==
  /\ \A c \in PlannerCalls : PlannerCall(c) \/ CallTimesOut(c) =>
       UNCHANGED <<mgr, worker, agent, cache, running, stage, down, frozen, timers, strayed>>
  /\ PlannerStops =>
       UNCHANGED <<plan, late, mgr, worker, agent, cache, running, stage, down, frozen, timers, strayed>>
  /\ LateCallLands =>
       UNCHANGED <<over, worker, agent, cache, running, stage, down, frozen, timers, strayed>>
  /\ \A batch \in [Mgr -> StageOrNone] : DispatchManagers(batch) =>
       UNCHANGED <<plan, late, worker, agent, cache, running, stage, down, frozen, timers, strayed>>
  /\ \A d \in Slot : WorkerStep(d) =>
       UNCHANGED <<plan, late, over, mgr, down, frozen, timers, strayed>>
  /\ \A d \in Slot : SupervisorAbortsWorker(d) =>
       UNCHANGED <<plan, late, over, mgr, cache, running, stage, down, frozen, strayed>>
  /\ \A m \in Mgr : SupervisorAbortsManager(m) =>
       UNCHANGED <<plan, late, over, worker, agent, cache, running, stage, down, frozen, timers, strayed>>
  /\ \A a \in AgentId : SupervisorCancelsAgain(a) =>
       UNCHANGED <<plan, late, over, mgr, worker, cache, running, stage, down, frozen, strayed>>
  /\ RequestShutdown =>
       UNCHANGED <<plan, late, over, worker, cache, running, stage, frozen, timers, strayed>>
  /\ Freeze => UNCHANGED <<plan, late, over, mgr, worker, agent, cache, running, stage, down, timers, strayed>>
<1> USE DEF planning, workers, signals
<1>1. \A c \in PlannerCalls : PlannerCall(c) \/ CallTimesOut(c) =>
        UNCHANGED <<mgr, worker, agent, cache, running, stage, down, frozen, timers, strayed>>
  BY DEF PlannerCall, CallTimesOut
<1>2. \A d \in Slot : WorkerStep(d) => UNCHANGED <<plan, late, over, mgr, down, frozen, timers, strayed>>
  BY DEF WorkerStep, CreateWorker, WorkerNotStarted, StartWorker, Prompt, WorkerLoops, WorkerAnswers, EndRun
<1> QED
  BY <1>1, <1>2 DEF PlannerStops, LateCallLands, DispatchManagers, SupervisorAbortsWorker,
     SupervisorAbortsManager, SupervisorCancelsAgain, RequestShutdown, Freeze

\* So do the steps of a manager, and which of them touch what.
LEMMA ManagerFrames ==
  ASSUME NEW m \in Mgr
  PROVE  /\ GateReadsPlan(m) \/ GateLooksUp(m) \/ ManagerNotCreated(m) \/ ManagerLoops(m)
              \/ BatchReturns(m) \/ ManagerEnds(m) =>
              UNCHANGED <<plan, late, over, worker, agent, cache, running, stage, down, frozen, timers, strayed>>
         /\ StartManager(m) =>
              UNCHANGED <<plan, late, over, worker, agent, cache, down, frozen, timers>>
         /\ \A s, tasks : DispatchWorkers(m, s, tasks) =>
              UNCHANGED <<plan, late, over, agent, cache, running, down, frozen, timers>>
         /\ SettleManager(m) =>
              UNCHANGED <<plan, late, over, worker, agent, down, frozen, timers, strayed>>
<1> USE DEF planning, workers, signals
<1>1. \A s, tasks : DispatchWorkers(m, s, tasks) =>
        UNCHANGED <<plan, late, over, agent, cache, running, down, frozen, timers>>
  BY DEF DispatchWorkers
<1> QED
  BY <1>1 DEF GateReadsPlan, GateLooksUp, ManagerNotCreated, ManagerLoops, BatchReturns, ManagerEnds,
     StartManager, SettleManager

\* What has strayed has: a manager that starts while another is at work, or
\* that names another stage than its own, makes the history say so.
LEMMA Straying ==
  ASSUME TypeOK, [Next]_vars
  PROVE  /\ strayed' \in BOOLEAN /\ (strayed => strayed')
         /\ \A m \in Mgr : StartManager(m) /\ ~strayed' => \A n \in Mgr : ~AtWork(n)
         /\ \A m \in Mgr : \A s, tasks : DispatchWorkers(m, s, tasks) /\ ~strayed' => s = mgr[m].stage
<1>1. strayed \in BOOLEAN
  BY DEF TypeOK
<1>2. \A m \in Mgr : StartManager(m) => strayed' = (strayed \/ \E n \in Mgr : AtWork(n))
  BY DEF StartManager
<1>3. \A m \in Mgr : \A s, tasks :
        DispatchWorkers(m, s, tasks) => strayed' = (strayed \/ s # mgr[m].stage)
  BY DEF DispatchWorkers
<1>4. ASSUME NEW m \in Mgr, ManagerStep(m) PROVE strayed' \in BOOLEAN /\ (strayed => strayed')
  BY <1>1, <1>2, <1>3, <1>4, ManagerFrames DEF ManagerStep
<1>5. strayed' \in BOOLEAN /\ (strayed => strayed')
  BY <1>1, <1>4, Frames DEF Next, PlannerStep, vars, signals
<1> QED BY <1>1, <1>2, <1>3, <1>5

\* Managers keep their types.
LEMMA StepManagers == TypeOK /\ [Next]_vars => ManagersOK'
<1> SUFFICES ASSUME TypeOK, [Next]_vars PROVE ManagersOK'
  OBVIOUS
<1>1. mgr \in [Mgr -> ManagerType] /\ plan.current \in StageOrNone
  BY PlanTypes DEF TypeOK, StageOrNone
<1>2. ASSUME NEW m \in Mgr, NEW phase \in ManagerPhases, ManagerGoes(m, phase) PROVE ManagersOK'
  BY <1>1, <1>2, ManagerTypes DEF ManagersOK, ManagerGoes
<1>3. CASE LateCallLands
  BY <1>1, <1>3 DEF LateCallLands, ManagersOK, ManagerType
<1>4. ASSUME NEW batch \in [Mgr -> StageOrNone], DispatchManagers(batch) PROVE ManagersOK'
  BY <1>4, RestTypes DEF DispatchManagers, ManagersOK, IdleManager, ManagerType, ManagerPhases, StageOrNone
<1>5. ASSUME NEW m \in Mgr, GateReadsPlan(m) PROVE ManagersOK'
  BY <1>1, <1>5, ManagerTypes DEF GateReadsPlan, ManagersOK
<1>6. ASSUME NEW m \in Mgr, GateLooksUp(m) PROVE ManagersOK'
  BY <1>1, <1>6, ManagerTypes, RestTypes DEF GateLooksUp, ManagersOK, ManagerPhases
<1>7. ASSUME NEW m \in Mgr, StartManager(m) PROVE ManagersOK'
  BY <1>1, <1>7, ManagerTypes DEF StartManager, ManagersOK, TypeOK
<1>8. ASSUME NEW m \in Mgr, ManagerNotCreated(m) \/ SettleManager(m) PROVE ManagersOK'
  BY <1>1, <1>8, RestTypes DEF ManagerNotCreated, SettleManager, ManagersOK
<1>9. ASSUME NEW m \in Mgr, ManagerLoops(m) \/ BatchReturns(m) \/ ManagerEnds(m) PROVE ManagersOK'
  BY <1>2, <1>9 DEF ManagerLoops, BatchReturns, ManagerEnds, ManagerPhases
<1>10. ASSUME NEW m \in Mgr, NEW s \in StageId, NEW roles \in SUBSET Role, NEW tasks \in [roles -> Task],
              DispatchWorkers(m, s, tasks)
       PROVE  ManagersOK'
  BY <1>2, <1>10 DEF DispatchWorkers, ManagerPhases
<1>11. ASSUME NEW m \in Mgr, SupervisorAbortsManager(m) PROVE ManagersOK'
  BY <1>1, <1>11, ManagerTypes DEF SupervisorAbortsManager, ManagersOK
<1>12. CASE RequestShutdown
  BY <1>1, <1>12 DEF RequestShutdown, ManagersOK, ManagerType
<1>13. CASE mgr' = mgr
  BY <1>1, <1>13 DEF ManagersOK
<1> QED
  BY <1>3, <1>4, <1>5, <1>6, <1>7, <1>8, <1>9, <1>10, <1>11, <1>12, <1>13, Frames
  DEF Next, PlannerStep, ManagerStep, vars

\* A worker's record and an agent's keep their types.
LEMMA WorkerTypes ==
  /\ \A r \in WorkerType, p \in WorkerPhases : [r EXCEPT !.phase = p] \in WorkerType
  /\ \A r \in WorkerType, a \in AgentId : [r EXCEPT !.phase = "recording", !.agent = a] \in WorkerType
  /\ \A r \in WorkerType : [r EXCEPT !.blamed = TRUE] \in WorkerType
BY DEF WorkerType, WorkerPhases

\* The same of an agent.
LEMMA AgentTypes ==
  /\ \A t \in Task \cup {None} : [NewAgent EXCEPT !.prompt = t] \in AgentType
  /\ \A r \in AgentType, c \in BOOLEAN : [r EXCEPT !.cancelled = c] \in AgentType
  /\ \A r \in AgentType, c \in BOOLEAN : [r EXCEPT !.used = TRUE, !.cancelled = c] \in AgentType
  /\ \A r \in AgentType, t \in Task \cup {None} : [r EXCEPT !.prompt = t] \in AgentType
BY DEF AgentType, NewAgent

\* Workers, agents, the cache and the registry keep their types.
LEMMA StepWorkers == TypeOK /\ AgentsHeld /\ [Next]_vars => WorkersOK'
<1> SUFFICES ASSUME TypeOK, AgentsHeld, [Next]_vars PROVE WorkersOK'
  OBVIOUS
<1>1. /\ worker \in [Slot -> WorkerType] /\ agent \in [AgentId -> AgentType]
      /\ cache \in [StageId \X ScopedRole -> AgentId \cup {None}]
      /\ running \in SUBSET (Mgr \cup AgentId) /\ timers \in SUBSET AgentId
  BY DEF TypeOK
<1>2. ASSUME UNCHANGED <<worker, agent, cache, running, timers>> PROVE WorkersOK'
  BY <1>1, <1>2 DEF WorkersOK
<1>3. ASSUME NEW m \in Mgr, StartManager(m) PROVE WorkersOK'
  BY <1>1, <1>3, ManagerFrames DEF StartManager, WorkersOK
<1>4. ASSUME NEW m \in Mgr, SettleManager(m) PROVE WorkersOK'
  BY <1>1, <1>4, ManagerFrames DEF SettleManager, WorkersOK
<1>5. ASSUME NEW m \in Mgr, NEW s \in StageId, NEW roles \in SUBSET Role, NEW tasks \in [roles -> Task],
             DispatchWorkers(m, s, tasks)
      PROVE  WorkersOK'
  <2>1. worker' \in [Slot -> WorkerType]
    BY <1>1, <1>5 DEF DispatchWorkers, WorkerType, WorkerPhases, Scoped, Slot, StageOrNone
  <2> QED BY <1>1, <1>5, <2>1, ManagerFrames DEF WorkersOK
<1>6. ASSUME NEW d \in Slot, NEW a \in AgentId, CreateWorker(d, a) PROVE WorkersOK'
  <2>1. worker' \in [Slot -> WorkerType]
    BY <1>1, <1>6, WorkerTypes DEF CreateWorker
  <2>2. agent' \in [AgentId -> AgentType]
    BY <1>1, <1>6, AgentTypes DEF CreateWorker, WorkerType
  <2>3. cache' \in [StageId \X ScopedRole -> AgentId \cup {None}]
    BY <1>1, <1>6 DEF CreateWorker
  <2> QED BY <1>1, <1>6, <2>1, <2>2, <2>3 DEF CreateWorker, WorkersOK
<1>7. ASSUME NEW d \in Slot, WorkerNotStarted(d) PROVE WorkersOK'
  BY <1>1, <1>7, RestTypes DEF WorkerNotStarted, WorkersOK
<1>8. ASSUME NEW d \in Slot, StartWorker(d) PROVE WorkersOK'
  <2>1. worker' \in [Slot -> WorkerType]
    BY <1>1, <1>8, WorkerTypes DEF StartWorker, WorkerGoes, WorkerPhases
  <2>2. agent' \in [AgentId -> AgentType]
    BY <1>1, <1>8, AgentTypes DEF StartWorker
  <2>3. running' \in SUBSET (Mgr \cup AgentId)
    <3>1. worker[d].agent # None /\ worker[d].agent \in AgentId \cup {None}
      BY <1>1, <1>8 DEF StartWorker, AgentsHeld, Holds, WorkerType
    <3>2. running' = running \cup {worker[d].agent}
      BY <1>8 DEF StartWorker
    <3> QED BY <1>1, <3>1, <3>2
  <2> QED BY <1>1, <1>8, <2>1, <2>2, <2>3 DEF StartWorker, WorkersOK
<1>9. ASSUME NEW d \in Slot, Prompt(d) PROVE WorkersOK'
  <2>1. worker' \in [Slot -> WorkerType]
    BY <1>1, <1>9, WorkerTypes DEF Prompt, WorkerGoes, WorkerPhases
  <2>2. agent' \in [AgentId -> AgentType]
    BY <1>1, <1>9, AgentTypes DEF Prompt, WorkerType
  <2> QED BY <1>1, <1>9, <2>1, <2>2 DEF Prompt, WorkersOK
<1>10. ASSUME NEW d \in Slot, NEW good \in BOOLEAN, EndRun(d, good) PROVE WorkersOK'
  BY <1>1, <1>10, RestTypes DEF EndRun, WorkersOK
<1>11. ASSUME NEW d \in Slot, WorkerLoops(d) \/ WorkerAnswers(d) PROVE WorkersOK'
  <2>1. CASE \E good \in BOOLEAN : EndRun(d, good)
    BY <1>10, <2>1
  <2>2. CASE WorkerGoes(d, "asking") \/ WorkerGoes(d, "top")
    <3>1. worker' \in [Slot -> WorkerType]
      <4>1. PICK p \in WorkerPhases : WorkerGoes(d, p)
        BY <2>2 DEF WorkerPhases
      <4> QED BY <1>1, <4>1, WorkerTypes DEF WorkerGoes
    <3>2. UNCHANGED <<agent, cache, running, timers>> \/ \E good \in BOOLEAN : EndRun(d, good)
      BY <1>11 DEF WorkerLoops, WorkerAnswers
    <3> QED BY <1>1, <1>10, <3>1, <3>2 DEF WorkersOK
  <2> QED BY <1>11, <2>1, <2>2 DEF WorkerLoops, WorkerAnswers
<1>12. ASSUME NEW d \in Slot, SupervisorAbortsWorker(d) PROVE WorkersOK'
  <2>1. worker' \in [Slot -> WorkerType]
    BY <1>1, <1>12, WorkerTypes DEF SupervisorAbortsWorker
  <2>2. agent' \in [AgentId -> AgentType]
    BY <1>1, <1>12, AgentTypes DEF SupervisorAbortsWorker
  <2>3. worker[d].agent # None /\ worker[d].agent \in AgentId \cup {None}
    BY <1>1, <1>12 DEF SupervisorAbortsWorker, Executing, AgentsHeld, Holds, WorkerType
  <2>4. timers' \in SUBSET AgentId
    BY <1>1, <1>12, <2>3 DEF SupervisorAbortsWorker
  <2> QED BY <1>1, <1>12, <2>1, <2>2, <2>4, Frames DEF WorkersOK
<1>13. ASSUME NEW a \in AgentId, SupervisorCancelsAgain(a) PROVE WorkersOK'
  BY <1>1, <1>13, AgentTypes DEF SupervisorCancelsAgain, WorkersOK
<1>14. CASE RequestShutdown
  <2>1. agent' \in [AgentId -> AgentType]
    BY <1>1, <1>14, AgentTypes DEF RequestShutdown
  <2> QED BY <1>1, <1>14, <2>1, Frames DEF WorkersOK
<1> QED
  BY <1>2, <1>3, <1>4, <1>5, <1>6, <1>7, <1>8, <1>9, <1>11, <1>12, <1>13, <1>14, Frames, ManagerFrames
  DEF Next, PlannerStep, ManagerStep, WorkerStep, vars, workers

(***************************************************************************)
(* What each step makes of the dispatch it belongs to.                     *)
(***************************************************************************)

\* Dispatch m goes from one phase to another and stays what it is.
Moves(m, from, to) ==
  /\ \A n \in Mgr \ {m} : mgr'[n] = mgr[n]
  /\ mgr[m].phase \in from /\ mgr'[m].phase \in to
  /\ mgr'[m].stage = mgr[m].stage /\ (mgr'[m].moved <=> mgr[m].moved)

\* Dispatch m is over.
Leaves(m) ==
  /\ \A n \in Mgr \ {m} : mgr'[n] = mgr[n]
  /\ mgr'[m].phase = "idle" /\ ~mgr'[m].moved

\* The steps of a manager's dispatch.
LEMMA ManagerMoves ==
  ASSUME TypeOK, NEW m \in Mgr
  PROVE  /\ GateReadsPlan(m) => Moves(m, {"gate"}, {"lookup"}) /\ mgr'[m].seen = plan.current
         /\ GateLooksUp(m) =>
              \/ Moves(m, {"lookup"}, {"starting"}) /\ mgr[m].seen = mgr[m].stage
              \/ Leaves(m)
         /\ StartManager(m) => Moves(m, {"starting"}, {"top"})
         /\ ManagerLoops(m) => Moves(m, {"top"}, {"settling", "asking"})
         /\ \A s, tasks : DispatchWorkers(m, s, tasks) => Moves(m, {"asking"}, {"working"})
         /\ BatchReturns(m) => Moves(m, {"working"}, {"top"})
         /\ ManagerEnds(m) => Moves(m, {"asking"}, {"settling"})
         /\ ManagerNotCreated(m) => Leaves(m) /\ mgr[m].phase = "starting"
         /\ SettleManager(m) => Leaves(m) /\ mgr[m].phase = "settling"
<1>1. mgr \in [Mgr -> ManagerType]
  BY DEF TypeOK
<1>2. ASSUME NEW p \in ManagerPhases, ManagerGoes(m, p) PROVE Moves(m, {mgr[m].phase}, {p})
  BY <1>1, <1>2 DEF ManagerGoes, Moves, ManagerType
<1>3. GateReadsPlan(m) => Moves(m, {"gate"}, {"lookup"}) /\ mgr'[m].seen = plan.current
  BY <1>1 DEF GateReadsPlan, Moves, ManagerType
<1>4. mgr' = [mgr EXCEPT ![m] = IdleManager] => Leaves(m)
  BY <1>1 DEF Leaves, IdleManager
<1>5. GateLooksUp(m) =>
        \/ Moves(m, {"lookup"}, {"starting"}) /\ mgr[m].seen = mgr[m].stage
        \/ Leaves(m)
  BY <1>1 DEF GateLooksUp, Moves, Leaves, ManagerType, IdleManager
<1>6. StartManager(m) => Moves(m, {"starting"}, {"top"})
  BY <1>1 DEF StartManager, Moves, ManagerType
<1>7. ManagerLoops(m) => Moves(m, {"top"}, {"settling", "asking"})
  BY <1>2 DEF ManagerLoops, Moves, ManagerPhases
<1>8. \A s, tasks : DispatchWorkers(m, s, tasks) => Moves(m, {"asking"}, {"working"})
  BY <1>2 DEF DispatchWorkers, Moves, ManagerPhases
<1>9. BatchReturns(m) => Moves(m, {"working"}, {"top"})
  BY <1>2 DEF BatchReturns, Moves, ManagerPhases
<1>10. ManagerEnds(m) => Moves(m, {"asking"}, {"settling"})
  BY <1>2 DEF ManagerEnds, Moves, ManagerPhases
<1>11. ManagerNotCreated(m) => Leaves(m) /\ mgr[m].phase = "starting"
  BY <1>4 DEF ManagerNotCreated
<1>12. SettleManager(m) => Leaves(m) /\ mgr[m].phase = "settling"
  BY <1>4 DEF SettleManager
<1> QED BY <1>3, <1>5, <1>6, <1>7, <1>8, <1>9, <1>10, <1>11, <1>12

\* Cancellations and late calls leave the dispatches in their places.
Stays(m) ==
  mgr'[m].phase = mgr[m].phase /\ mgr'[m].stage = mgr[m].stage /\ mgr'[m].seen = mgr[m].seen

\* A late call that changes the current stage is remembered by the dispatches.
LEMMA OthersMove ==
  ASSUME TypeOK
  PROVE  /\ RequestShutdown \/ (\E m \in Mgr : SupervisorAbortsManager(m)) =>
              \A n \in Mgr : Stays(n) /\ (mgr'[n].moved <=> mgr[n].moved)
         /\ LateCallLands =>
              \A n \in Mgr :
                /\ Stays(n)
                /\ mgr'[n].moved <=> mgr[n].moved \/ (mgr[n].phase # "idle" /\ plan'.current # plan.current)
<1>1. mgr \in [Mgr -> ManagerType]
  BY DEF TypeOK
<1>2. RequestShutdown => \A n \in Mgr : Stays(n) /\ (mgr'[n].moved <=> mgr[n].moved)
  BY <1>1 DEF RequestShutdown, Stays, ManagerType
<1>3. ASSUME NEW m \in Mgr, SupervisorAbortsManager(m)
      PROVE  \A n \in Mgr : Stays(n) /\ (mgr'[n].moved <=> mgr[n].moved)
  BY <1>1, <1>3 DEF SupervisorAbortsManager, Stays, ManagerType
<1>4. LateCallLands =>
        \A n \in Mgr :
          /\ Stays(n)
          /\ mgr'[n].moved <=> mgr[n].moved \/ (mgr[n].phase # "idle" /\ plan'.current # plan.current)
  <2>1. \A r \in ManagerType, x \in BOOLEAN :
          LET new == [r EXCEPT !.moved = x]
          IN  /\ new.phase = r.phase /\ new.stage = r.stage /\ new.seen = r.seen
              /\ new.moved = x
    BY DEF ManagerType
  <2>2. ASSUME LateCallLands, NEW n \in Mgr
        PROVE  /\ Stays(n)
               /\ mgr'[n].moved <=> mgr[n].moved \/ (mgr[n].phase # "idle" /\ plan'.current # plan.current)
    <3> DEFINE x == mgr[n].moved \/ (mgr[n].phase # "idle" /\ plan'.current # plan.current)
    <3>1. mgr'[n] = [mgr[n] EXCEPT !.moved = x]
      BY <2>2 DEF LateCallLands
    <3>2. mgr[n] \in ManagerType /\ x \in BOOLEAN
      BY <1>1
    <3> HIDE DEF x
    <3>3. mgr'[n].phase = mgr[n].phase /\ mgr'[n].stage = mgr[n].stage /\ mgr'[n].seen = mgr[n].seen
          /\ mgr'[n].moved = x
      BY <2>1, <3>1, <3>2
    <3> QED BY <3>3 DEF Stays, x
  <2> QED BY <2>2
<1> QED BY <1>2, <1>3, <1>4

\* What planner calls do to the plan happens while no dispatch is open.
LEMMA DispatchesOpen ==
  /\ \A c \in PlannerCalls : PlannerCall(c) => Thinking
  /\ \A c \in PlannerCalls : CallTimesOut(c) => plan' = plan
  /\ \A batch \in [Mgr -> StageOrNone] : DispatchManagers(batch) =>
       /\ Thinking
       /\ \A m \in Mgr : mgr'[m].phase = (IF batch[m] = None THEN "idle" ELSE "gate")
<1>1. \A c \in PlannerCalls : CallTimesOut(c) => plan' = plan
  BY DEF CallTimesOut
<1>2. \A batch \in [Mgr -> StageOrNone] : DispatchManagers(batch) =>
       /\ \A m \in Mgr : mgr'[m].phase = (IF batch[m] = None THEN "idle" ELSE "gate")
  BY DEF DispatchManagers, IdleManager
<1> QED BY <1>1, <1>2 DEF PlannerCall, DispatchManagers

(***************************************************************************)
(* The gate.                                                               *)
(***************************************************************************)

\* What the gate has read is the plan's current stage still, and a stage that
\* has passed it is, unless a late call has moved the plan.
Gated(m) ==
  ~mgr[m].moved =>
    /\ mgr[m].phase = "lookup" => mgr[m].seen = plan.current
    /\ mgr[m].phase \in {"starting", "top", "asking", "working"} => plan.current = mgr[m].stage

GateInv == \A m \in Mgr : Gated(m)

\* Between the gate and the settling of its managers the planner calls nothing.
LEMMA StepGate == TypeOK /\ GateInv /\ [Next]_vars => GateInv'
<1> SUFFICES ASSUME TypeOK, GateInv, [Next]_vars PROVE GateInv'
  OBVIOUS
<1>1. ASSUME mgr' = mgr, plan' = plan PROVE GateInv'
  BY <1>1 DEF GateInv, Gated
<1>2. ASSUME NEW c \in PlannerCalls, PlannerCall(c) PROVE GateInv'
  BY <1>2, DispatchesOpen, Frames DEF GateInv, Gated, Thinking
<1>3. ASSUME NEW c \in PlannerCalls, CallTimesOut(c) PROVE GateInv'
  BY <1>1, <1>3, DispatchesOpen, Frames
<1>4. CASE LateCallLands
  BY <1>4, OthersMove DEF GateInv, Gated, Stays
<1>5. ASSUME NEW batch \in [Mgr -> StageOrNone], DispatchManagers(batch) PROVE GateInv'
  BY <1>5, DispatchesOpen DEF GateInv, Gated
<1>6. ASSUME NEW m \in Mgr, NEW from, NEW to, Moves(m, from, to), plan' = plan,
             ~mgr[m].moved =>
               /\ "lookup" \in to => mgr'[m].seen = plan.current
               /\ to \cap {"starting", "top", "asking", "working"} # {} => plan.current = mgr[m].stage
      PROVE  GateInv'
  BY <1>6 DEF Moves, GateInv, Gated
<1>7. ASSUME NEW m \in Mgr, Leaves(m), plan' = plan PROVE GateInv'
  BY <1>7 DEF Leaves, GateInv, Gated
<1>8. ASSUME NEW m \in Mgr, ManagerStep(m) PROVE GateInv'
  <2>1. plan' = plan
    BY <1>8, ManagerFrames DEF ManagerStep
  <2>2. CASE GateReadsPlan(m)
    BY <1>6, <2>1, <2>2, ManagerMoves
  <2>3. CASE GateLooksUp(m)
    BY <1>6, <1>7, <2>1, <2>3, ManagerMoves DEF GateInv, Gated, Moves
  <2>4. CASE StartManager(m)
    BY <1>6, <2>1, <2>4, ManagerMoves DEF GateInv, Gated, Moves
  <2>5. CASE ManagerLoops(m)
    BY <1>6, <2>1, <2>5, ManagerMoves DEF GateInv, Gated, Moves
  <2>6. ASSUME NEW s, NEW tasks, DispatchWorkers(m, s, tasks) PROVE GateInv'
    BY <1>6, <2>1, <2>6, ManagerMoves DEF GateInv, Gated, Moves
  <2>7. CASE BatchReturns(m) \/ ManagerEnds(m)
    BY <1>6, <2>1, <2>7, ManagerMoves DEF GateInv, Gated, Moves
  <2>8. CASE ManagerNotCreated(m) \/ SettleManager(m)
    BY <1>7, <2>1, <2>8, ManagerMoves
  <2> QED BY <1>8, <2>2, <2>3, <2>4, <2>5, <2>6, <2>7, <2>8 DEF ManagerStep
<1>9. CASE RequestShutdown \/ \E m \in Mgr : SupervisorAbortsManager(m)
  BY <1>9, OthersMove, Frames DEF GateInv, Gated, Stays
<1> QED
  BY <1>1, <1>2, <1>3, <1>4, <1>5, <1>8, <1>9, Frames DEF Next, PlannerStep, vars, planning

(***************************************************************************)
(* What the steps of a worker's dispatch make of it.                       *)
(***************************************************************************)

Others(d) == \A e \in Slot \ {d} : worker'[e] = worker[e]

SameTask(d) ==
  /\ worker'[d].stage = worker[d].stage /\ worker'[d].task = worker[d].task
  /\ worker'[d].unrun <=> worker[d].unrun

\* Dispatch d goes on with its agent.
Goes(d, from, to) ==
  /\ Others(d) /\ SameTask(d)
  /\ worker[d].phase = from /\ worker'[d].phase \in to
  /\ worker'[d].agent = worker[d].agent /\ (worker'[d].blamed <=> worker[d].blamed)

\* Dispatch d is over.
Over(d) == Others(d) /\ worker'[d].phase = "idle" /\ worker'[d].agent = None

\* The steps of a worker's dispatch.
LEMMA WorkerMoves ==
  ASSUME TypeOK, NEW d \in Slot
  PROVE  /\ \A a \in AgentId : CreateWorker(d, a) =>
              /\ Others(d) /\ SameTask(d) /\ (worker'[d].blamed <=> worker[d].blamed)
              /\ worker[d].phase = "creating" /\ worker'[d].phase = "recording"
              /\ worker'[d].agent = a
         /\ WorkerNotStarted(d) => Over(d) /\ UNCHANGED <<agent, cache, running, stage, timers>>
         /\ StartWorker(d) => Goes(d, "recording", IF agent[worker[d].agent].used THEN {"entering"} ELSE {"top"})
         /\ Prompt(d) => Goes(d, "entering", {"top"})
         /\ WorkerLoops(d) \/ WorkerAnswers(d) =>
              \/ /\ Goes(d, "top", {"asking"}) \/ Goes(d, "asking", {"top"})
                 /\ UNCHANGED <<agent, cache, running, stage, timers>>
              \/ \E good \in BOOLEAN : EndRun(d, good)
         /\ \A good \in BOOLEAN : EndRun(d, good) => Over(d)
         /\ SupervisorAbortsWorker(d) =>
              /\ Others(d) /\ SameTask(d) /\ worker'[d].blamed
              /\ worker'[d].phase = worker[d].phase /\ worker'[d].agent = worker[d].agent
<1>1. worker \in [Slot -> WorkerType]
  BY DEF TypeOK
<1>2. ASSUME NEW p, WorkerGoes(d, p) PROVE Goes(d, worker[d].phase, {p})
  BY <1>1, <1>2 DEF WorkerGoes, Goes, Others, SameTask, WorkerType
<1>3. \A a \in AgentId : CreateWorker(d, a) =>
        /\ Others(d) /\ SameTask(d) /\ (worker'[d].blamed <=> worker[d].blamed)
        /\ worker[d].phase = "creating" /\ worker'[d].phase = "recording"
        /\ worker'[d].agent = a
  BY <1>1 DEF CreateWorker, Others, SameTask, WorkerType
<1>4. worker' = [worker EXCEPT ![d] = IdleWorker] => Over(d)
  BY <1>1 DEF Over, Others, IdleWorker
<1>5. WorkerNotStarted(d) => Over(d) /\ UNCHANGED <<agent, cache, running, stage, timers>>
  BY <1>4 DEF WorkerNotStarted
<1>6. StartWorker(d) => Goes(d, "recording", IF agent[worker[d].agent].used THEN {"entering"} ELSE {"top"})
  BY <1>2 DEF StartWorker
<1>7. Prompt(d) => Goes(d, "entering", {"top"})
  BY <1>2 DEF Prompt
<1>8. WorkerLoops(d) \/ WorkerAnswers(d) =>
        \/ /\ Goes(d, "top", {"asking"}) \/ Goes(d, "asking", {"top"})
           /\ UNCHANGED <<agent, cache, running, stage, timers>>
        \/ \E good \in BOOLEAN : EndRun(d, good)
  BY <1>2 DEF WorkerLoops, WorkerAnswers
<1>9. \A good \in BOOLEAN : EndRun(d, good) => Over(d)
  BY <1>4 DEF EndRun
<1>10. SupervisorAbortsWorker(d) =>
         /\ Others(d) /\ SameTask(d) /\ worker'[d].blamed
         /\ worker'[d].phase = worker[d].phase /\ worker'[d].agent = worker[d].agent
  BY <1>1 DEF SupervisorAbortsWorker, Others, SameTask, WorkerType
<1> QED BY <1>3, <1>5, <1>6, <1>7, <1>8, <1>9, <1>10

\* A dispatch opened by the response of manager m, for stage s: a new worker is
\* to be created, or the cached one is taken over.
Opens(d, m, s) == d[1] = m /\ worker'[d].stage = s /\ worker'[d].blamed = FALSE

New(d) == worker'[d].phase = "creating" /\ worker'[d].agent = None

Reuses(d, s) ==
  /\ worker'[d].phase = "recording" /\ worker'[d].agent # None
  /\ Scoped(d) /\ worker'[d].agent = cache[<<s, d[2]>>]
  /\ ~worker'[d].unrun => agent[worker'[d].agent].used

Opened(m, s) ==
  \A d \in Slot : worker'[d] = worker[d] \/ (Opens(d, m, s) /\ (New(d) \/ Reuses(d, s)))

\* What a manager's response makes of the dispatches of its workers.
LEMMA WorkersDispatched ==
  ASSUME NEW m, NEW s, NEW tasks, DispatchWorkers(m, s, tasks) PROVE Opened(m, s)
BY DEF DispatchWorkers, Opened, Opens, New, Reuses, Slot, Scoped

(***************************************************************************)
(* One manager at a time: its workers work for its stage.                  *)
(***************************************************************************)

\* The manager is between its creation and its settling.
Up == {"top", "asking", "working", "settling"}

\* A manager's steps and the listeners leave up managers where they are, but
\* for the one that is created and the one that settles.
LEMMA UpMoves ==
  ASSUME TypeOK, NEW m \in Mgr, ManagerStep(m), NEW n \in Mgr
  PROVE  /\ StartManager(m) \/ SettleManager(m) \/ (mgr'[n].phase \in Up <=> mgr[n].phase \in Up)
         /\ mgr[n].phase \in Up /\ mgr'[n].phase \in Up => mgr'[n].stage = mgr[n].stage
         /\ StartManager(m) => mgr[m].phase = "starting" /\ mgr'[m].stage = mgr[m].stage
                              /\ (n # m => mgr'[n] = mgr[n])
         /\ SettleManager(m) => mgr'[m].phase = "idle" /\ (n # m => mgr'[n] = mgr[n])
<1>1. ASSUME NEW from, NEW to, Moves(m, from, to), (from \subseteq Up /\ to \subseteq Up) \/ (from \cap Up = {} /\ to \cap Up = {})
      PROVE  /\ mgr'[n].phase \in Up <=> mgr[n].phase \in Up
             /\ mgr[n].phase \in Up /\ mgr'[n].phase \in Up => mgr'[n].stage = mgr[n].stage
  BY <1>1 DEF Moves
<1>2. ASSUME Leaves(m), mgr[m].phase \notin Up
      PROVE  /\ mgr'[n].phase \in Up <=> mgr[n].phase \in Up
             /\ mgr[n].phase \in Up /\ mgr'[n].phase \in Up => mgr'[n].stage = mgr[n].stage
  BY <1>2 DEF Leaves, Up
<1>3. CASE GateReadsPlan(m)
  BY <1>1, <1>3, ManagerMoves DEF Up, GateReadsPlan, StartManager, SettleManager
<1>4. CASE GateLooksUp(m)
  BY <1>1, <1>2, <1>4, ManagerMoves DEF Up, GateLooksUp, StartManager, SettleManager
<1>5. CASE ManagerNotCreated(m) /\ ~StartManager(m)
  <2>1. mgr[m].phase = "starting" /\ Leaves(m)
    BY <1>5, ManagerMoves
  <2>2. ~SettleManager(m)
    BY <2>1 DEF SettleManager
  <2> QED BY <1>2, <1>5, <2>1, <2>2 DEF Up
<1>6. CASE ManagerLoops(m)
  BY <1>1, <1>6, ManagerMoves DEF Up, ManagerLoops, StartManager, SettleManager
<1>7. CASE BatchReturns(m)
  BY <1>1, <1>7, ManagerMoves DEF Up, BatchReturns, StartManager, SettleManager
<1>8. CASE ManagerEnds(m)
  BY <1>1, <1>8, ManagerMoves DEF Up, ManagerEnds, StartManager, SettleManager
<1>9. ASSUME NEW s, NEW tasks, DispatchWorkers(m, s, tasks)
      PROVE  /\ ~StartManager(m) /\ ~SettleManager(m)
             /\ mgr'[n].phase \in Up <=> mgr[n].phase \in Up
             /\ mgr[n].phase \in Up /\ mgr'[n].phase \in Up => mgr'[n].stage = mgr[n].stage
  BY <1>1, <1>9, ManagerMoves DEF Up, DispatchWorkers, StartManager, SettleManager
<1>10. CASE StartManager(m)
  <2>1. mgr[m].phase = "starting" /\ ~SettleManager(m)
    BY <1>10 DEF StartManager, SettleManager
  <2> QED BY <1>10, <2>1, ManagerMoves DEF Moves
<1>11. CASE SettleManager(m)
  <2>1. mgr[m].phase = "settling" /\ ~StartManager(m)
    BY <1>11 DEF StartManager, SettleManager
  <2> QED BY <1>11, <2>1, ManagerMoves DEF Leaves, Up
<1> QED BY <1>3, <1>4, <1>5, <1>6, <1>7, <1>8, <1>9, <1>10, <1>11 DEF ManagerStep

OneAtATime == \A m, n \in Mgr : mgr[m].phase \in Up /\ mgr[n].phase \in Up => m = n

WorkersOfManager ==
  \A d \in Slot : worker[d].phase # "idle" =>
    mgr[d[1]].phase = "working" /\ worker[d].stage = mgr[d[1]].stage

\* Until a second manager is started while one is at work, one is at work.
LEMMA StepOne ==
  ASSUME TypeOK, OneAtATime, ~strayed', [Next]_vars PROVE OneAtATime'
<1>1. ASSUME \A n \in Mgr : mgr'[n].phase \in Up => mgr[n].phase \in Up PROVE OneAtATime'
  BY <1>1 DEF OneAtATime
<1>2. ASSUME NEW m \in Mgr, ManagerStep(m) PROVE OneAtATime'
  <2>1. CASE StartManager(m)
    <3>1. \A n \in Mgr : mgr[n].phase \notin Up
      BY <2>1, Straying DEF AtWork, InLoop, Up
    <3>2. \A n \in Mgr : n # m => mgr'[n] = mgr[n]
      BY <1>2, <2>1, UpMoves
    <3> QED BY <3>1, <3>2 DEF OneAtATime
  <2>2. CASE SettleManager(m)
    <3>1. \A n \in Mgr : n # m => mgr'[n] = mgr[n]
      BY <1>2, <2>2, UpMoves
    <3>2. mgr'[m].phase = "idle"
      BY <1>2, <2>2, UpMoves
    <3> QED BY <1>1, <3>1, <3>2 DEF Up
  <2>3. CASE ~StartManager(m) /\ ~SettleManager(m)
    BY <1>1, <1>2, <2>3, UpMoves
  <2> QED BY <2>1, <2>2, <2>3
<1>3. ASSUME NEW batch \in [Mgr -> StageOrNone], DispatchManagers(batch) PROVE OneAtATime'
  BY <1>1, <1>3, DispatchesOpen DEF Up
<1>4. CASE RequestShutdown \/ (\E m \in Mgr : SupervisorAbortsManager(m)) \/ LateCallLands
  BY <1>1, <1>4, OthersMove DEF Stays
<1>5. CASE mgr' = mgr
  BY <1>1, <1>5
<1> QED BY <1>2, <1>3, <1>4, <1>5, Frames DEF Next, PlannerStep, vars

\* Workers are dispatched for the stage of their manager, which goes on when
\* all have returned.
LEMMA StepWorkersOf ==
  ASSUME TypeOK, WorkersOfManager, ~strayed', [Next]_vars
  PROVE  WorkersOfManager'
<1>1. ASSUME \A m \in Mgr : Stays(m),
             \A d \in Slot : worker'[d].phase # "idle" =>
               worker[d].phase # "idle" /\ worker'[d].stage = worker[d].stage
      PROVE  WorkersOfManager'
  BY <1>1 DEF WorkersOfManager, Stays, Slot
<1>2. ASSUME NEW m \in Mgr, \A n \in Mgr \ {m} : mgr'[n] = mgr[n], worker' = worker,
             \A d \in Slot : d[1] = m => worker[d].phase = "idle"
      PROVE  WorkersOfManager'
  BY <1>2 DEF WorkersOfManager, Slot
<1>3. ASSUME NEW m \in Mgr, mgr[m].phase # "working" PROVE \A d \in Slot : d[1] = m => worker[d].phase = "idle"
  BY <1>3 DEF WorkersOfManager
<1>4. ASSUME NEW m \in Mgr, NEW from, NEW to, Moves(m, from, to), worker' = worker, "working" \notin from
      PROVE  WorkersOfManager'
  BY <1>2, <1>3, <1>4 DEF Moves
<1>5. ASSUME NEW m \in Mgr, Leaves(m), mgr[m].phase # "working", worker' = worker PROVE WorkersOfManager'
  BY <1>2, <1>3, <1>5 DEF Leaves
<1>6. ASSUME NEW m \in Mgr, GateReadsPlan(m) \/ GateLooksUp(m) \/ StartManager(m) \/ ManagerLoops(m)
                              \/ ManagerEnds(m) \/ ManagerNotCreated(m) \/ SettleManager(m)
      PROVE  WorkersOfManager'
  <2>1. worker' = worker
    BY <1>6, ManagerFrames
  <2>2. CASE GateLooksUp(m)
    BY <1>4, <1>5, <2>1, <2>2, ManagerMoves DEF GateLooksUp
  <2> QED BY <1>4, <1>5, <1>6, <2>1, <2>2, ManagerMoves
<1>7. ASSUME NEW m \in Mgr, BatchReturns(m) PROVE WorkersOfManager'
  <2>1. \A d \in Slot : d[1] = m => worker[d].phase = "idle"
    BY <1>7 DEF BatchReturns, Slot
  <2> QED BY <1>2, <1>7, <2>1, ManagerMoves, ManagerFrames DEF Moves
<1>8. ASSUME NEW m \in Mgr, NEW s \in StageId, NEW roles \in SUBSET Role, NEW tasks \in [roles -> Task],
             DispatchWorkers(m, s, tasks)
      PROVE  WorkersOfManager'
  <2>1. s = mgr[m].stage
    BY <1>8, Straying
  <2>2. Moves(m, {"asking"}, {"working"})
    BY <1>8, ManagerMoves
  <2>3. \A d \in Slot : d[1] = m => worker[d].phase = "idle"
    BY <1>3, <2>2 DEF Moves
  <2>4. ASSUME NEW d \in Slot, worker'[d].phase # "idle"
        PROVE  mgr'[d[1]].phase = "working" /\ worker'[d].stage = mgr'[d[1]].stage
    <3>1. d[1] \in Mgr
      BY DEF Slot
    <3>4. worker'[d] = worker[d] \/ (d[1] = m /\ worker'[d].stage = s)
      <4>1. Opened(m, s)
        BY <1>8, WorkersDispatched
      <4> QED BY <4>1 DEF Opened, Opens
    <3>2. CASE d[1] = m
      <4>1. worker'[d].stage = s
        BY <2>3, <2>4, <3>2, <3>4
      <4>2. mgr'[m].phase = "working" /\ mgr'[m].stage = mgr[m].stage
        BY <2>2 DEF Moves
      <4> QED BY <2>1, <3>2, <4>1, <4>2
    <3>3. CASE d[1] # m
      BY <2>2, <2>4, <3>1, <3>3, <3>4 DEF Moves, WorkersOfManager
    <3> QED BY <3>2, <3>3
  <2> QED BY <2>4 DEF WorkersOfManager
<1>9. ASSUME NEW batch \in [Mgr -> StageOrNone], DispatchManagers(batch) PROVE WorkersOfManager'
  <2>1. worker' = worker /\ Thinking
    BY <1>9, Frames, DispatchesOpen
  <2>2. \A d \in Slot : worker[d].phase = "idle"
    BY <2>1 DEF Thinking, WorkersOfManager, Slot
  <2> QED BY <2>1, <2>2 DEF WorkersOfManager
<1>10. CASE RequestShutdown \/ (\E m \in Mgr : SupervisorAbortsManager(m)) \/ LateCallLands
  BY <1>1, <1>10, OthersMove, Frames
<1>11. ASSUME NEW d \in Slot, WorkerStep(d) \/ SupervisorAbortsWorker(d) PROVE WorkersOfManager'
  <2>1. mgr' = mgr
    BY <1>11, Frames
  <2>2. \A e \in Slot : worker'[e].phase # "idle" =>
               worker[e].phase # "idle" /\ worker'[e].stage = worker[e].stage
    BY <1>11, WorkerMoves DEF WorkerStep, SupervisorAbortsWorker, Executing, Others, SameTask, Goes, Over
  <2> QED BY <1>1, <2>1, <2>2 DEF Stays
<1>12. CASE mgr' = mgr /\ worker' = worker
  BY <1>1, <1>12 DEF Stays
<1> QED
  BY <1>6, <1>7, <1>8, <1>9, <1>10, <1>11, <1>12, Frames DEF Next, PlannerStep, ManagerStep, vars, workers

(***************************************************************************)
(* Types, and who holds an agent.                                          *)
(***************************************************************************)

\* What a worker's steps make of the stage, the cache and the registry.
LEMMA WorkerFrames ==
  ASSUME NEW d \in Slot
  PROVE  /\ \A a \in AgentId : CreateWorker(d, a) =>
              SetStage(worker[d].stage) /\ Unused(a) /\ UNCHANGED <<running, timers>>
         /\ StartWorker(d) => UNCHANGED <<cache, stage, timers>>
         /\ Prompt(d) => UNCHANGED <<cache, running, stage, timers>>
         /\ \A good \in BOOLEAN : EndRun(d, good) => UNCHANGED <<agent, stage, timers>>
BY DEF CreateWorker, StartWorker, Prompt, EndRun, planning, signals

\* Only these steps set the tracker's stage.
LEMMA StageMoves ==
  ASSUME NEW m \in Mgr
  PROVE  /\ StartManager(m) => SetStage(mgr[m].stage)
         /\ SettleManager(m) => SetStage(None)
         /\ \A s, tasks : DispatchWorkers(m, s, tasks) => SetStage(s) \/ stage' = stage
BY DEF StartManager, SettleManager, DispatchWorkers

\* The state keeps its types.
LEMMA StepTypes ==
  ASSUME TypeOK, AgentsHeld, [Next]_vars PROVE TypeOK'
<1>1. ManagersOK' /\ WorkersOK'
  BY StepManagers, StepWorkers
<1>2. plan' \in Docs /\ late' \in Calls \cup {NoCall} /\ over' \in BOOLEAN
  <2>1. plan \in Docs /\ late \in Calls \cup {NoCall} /\ over \in BOOLEAN /\ down \in BOOLEAN
    BY DEF TypeOK
  <2>2. \A c \in Calls : Outcome(c) \in Docs
    BY <2>1, OutcomeTypes
  <2>3. ASSUME NEW c \in PlannerCalls, PlannerCall(c) \/ CallTimesOut(c) 
        PROVE  plan' \in Docs /\ late' \in Calls \cup {NoCall} /\ over' \in BOOLEAN
    BY <2>1, <2>2, <2>3, PlanAssumption DEF PlannerCall, CallTimesOut
  <2>4. CASE LateCallLands
    BY <2>1, <2>2, <2>4 DEF LateCallLands
  <2>5. ASSUME NEW batch \in [Mgr -> StageOrNone], DispatchManagers(batch)
        PROVE  plan' \in Docs /\ late' \in Calls \cup {NoCall} /\ over' \in BOOLEAN
    BY <2>1, <2>5 DEF DispatchManagers
  <2>6. CASE PlannerStops
    BY <2>1, <2>6 DEF PlannerStops
  <2>7. CASE UNCHANGED <<plan, late, over>>
    BY <2>1, <2>7
  <2>8. ASSUME NEW m \in Mgr, ManagerStep(m) \/ SupervisorAbortsManager(m)
        PROVE  UNCHANGED <<plan, late, over>>
    BY <2>8, Frames, ManagerFrames DEF ManagerStep
  <2> QED BY <2>3, <2>4, <2>5, <2>6, <2>7, <2>8, Frames DEF Next, PlannerStep, vars, planning
<1>3. stage' \in StageOrNone
  <2>1. stage \in StageOrNone
    BY DEF TypeOK
  <2>2. ASSUME NEW s \in StageOrNone, SetStage(s) PROVE stage' \in StageOrNone
    BY <2>1, <2>2 DEF SetStage
  <2>3. ASSUME NEW m \in Mgr, ManagerStep(m) PROVE stage' \in StageOrNone
    <3>1. mgr[m].stage \in StageOrNone
      BY DEF TypeOK, ManagerType
    <3> QED BY <2>1, <2>2, <2>3, <3>1, ManagerFrames, StageMoves DEF ManagerStep, StageOrNone
  <2>4. ASSUME NEW d \in Slot, WorkerStep(d) PROVE stage' \in StageOrNone
    <3>1. worker[d].stage \in StageOrNone
      BY DEF TypeOK, WorkerType
    <3> QED BY <2>1, <2>2, <2>4, <3>1, WorkerFrames, WorkerMoves DEF WorkerStep
  <2> QED BY <2>1, <2>3, <2>4, Frames DEF Next, PlannerStep, vars
<1>4. down' \in BOOLEAN /\ frozen' \in BOOLEAN /\ strayed' \in BOOLEAN
  <2>1. down \in BOOLEAN /\ frozen \in BOOLEAN
    BY DEF TypeOK
  <2>2. RequestShutdown => down' = TRUE
    BY DEF RequestShutdown
  <2>3. Freeze => frozen' = TRUE
    BY DEF Freeze
  <2>4. ASSUME NEW m \in Mgr, ManagerStep(m) PROVE UNCHANGED <<down, frozen>>
    BY <2>4, ManagerFrames DEF ManagerStep
  <2> QED BY <2>1, <2>2, <2>3, <2>4, Frames, Straying DEF Next, PlannerStep, vars, signals
<1> QED BY <1>1, <1>2, <1>3, <1>4 DEF TypeOK, ManagersOK, WorkersOK

\* A dispatch has an agent from its creation to the end of its run.
LEMMA StepHeld ==
  ASSUME TypeOK, AgentsHeld, [Next]_vars PROVE AgentsHeld'
<1> DEFINE Held(d) == worker[d].agent # None <=> worker[d].phase \in Holds
<1>1. \A d \in Slot : Held(d)
  BY DEF AgentsHeld
<1>2. ASSUME NEW d \in Slot, WorkerStep(d) \/ SupervisorAbortsWorker(d), NEW e \in Slot PROVE Held(e)'
  <2>1. CASE e # d
    BY <1>1, <1>2, <2>1, WorkerMoves DEF WorkerStep, Others, Goes, Over
  <2>2. CASE \E a \in AgentId : CreateWorker(d, a) /\ e = d
    BY <2>2, WorkerMoves, IdsAssumption DEF Holds
  <2>3. CASE e = d /\ ~\E a \in AgentId : CreateWorker(d, a)
    <3>1. ASSUME NEW from, NEW to, Goes(d, from, to), from \in Holds, to \subseteq Holds PROVE Held(d)'
      BY <1>1, <3>1 DEF Goes
    <3>2. Over(d) => Held(d)'
      BY DEF Over, Holds
    <3>3. SupervisorAbortsWorker(d) => Held(d)'
      BY <1>1, WorkerMoves
    <3>4. StartWorker(d) => Held(d)'
      BY <3>1, WorkerMoves DEF Holds
    <3>5. Prompt(d) => Held(d)'
      BY <3>1, WorkerMoves DEF Holds
    <3>6. WorkerLoops(d) \/ WorkerAnswers(d) => Held(d)'
      BY <3>1, <3>2, WorkerMoves DEF Holds
    <3> QED BY <1>2, <2>3, <3>2, <3>3, <3>4, <3>5, <3>6, WorkerMoves DEF WorkerStep
  <2> QED BY <2>1, <2>2, <2>3
<1>3. ASSUME NEW m \in Mgr, NEW s, NEW tasks, DispatchWorkers(m, s, tasks), NEW e \in Slot PROVE Held(e)'
  <2>1. Opened(m, s)
    BY <1>3, WorkersDispatched
  <2> QED BY <1>1, <2>1 DEF Opened, Opens, New, Reuses, Holds
<1>4. worker' = worker => AgentsHeld'
  BY DEF AgentsHeld
<1>5. ASSUME NEW m \in Mgr, ManagerStep(m) PROVE AgentsHeld'
  BY <1>3, <1>4, <1>5, ManagerFrames DEF ManagerStep, AgentsHeld
<1> QED BY <1>2, <1>4, <1>5, Frames DEF Next, PlannerStep, vars, workers, AgentsHeld

(***************************************************************************)
(* No two dispatches share an agent.                                       *)
(***************************************************************************)

Key == StageId \X ScopedRole

\* Conversations are only taken out of the cache.
Shrinks == \A key \in Key : cache'[key] = cache[key] \/ cache'[key] = None

\* Dispatch d caches its agent a under its own stage and role.
Caches(d, a) ==
  \A key \in Key : cache'[key] = cache[key] \/ (cache'[key] = a /\ key = <<worker[d].stage, d[2]>>)

\* What the steps make of the cache.
LEMMA CacheMoves ==
  ASSUME TypeOK
  PROVE  /\ \A d \in Slot, a \in AgentId : CreateWorker(d, a) => Caches(d, a)
         /\ \A d \in Slot, good \in BOOLEAN : EndRun(d, good) => Shrinks
         /\ \A m \in Mgr : SettleManager(m) =>
              \A key \in Key : cache'[key] # None => cache'[key] = cache[key] /\ key[1] # mgr[m].stage
         /\ [Next]_vars => Shrinks \/ \E d \in Slot, a \in AgentId : CreateWorker(d, a)
<1>1. DOMAIN cache = Key
  BY DEF TypeOK, Key
<1>2. ASSUME NEW d \in Slot, NEW a \in AgentId, CreateWorker(d, a) PROVE Caches(d, a)
  BY <1>1, <1>2 DEF CreateWorker, Caches
<1>3. ASSUME NEW d \in Slot, NEW good \in BOOLEAN, EndRun(d, good) PROVE Shrinks
  BY <1>1, <1>3 DEF EndRun, Shrinks
<1>4. ASSUME NEW m \in Mgr, SettleManager(m)
      PROVE  \A key \in Key : cache'[key] # None => cache'[key] = cache[key] /\ key[1] # mgr[m].stage
  BY <1>1, <1>4 DEF SettleManager
<1>5. cache' = cache => Shrinks
  BY DEF Shrinks
<1>6. ASSUME NEW m \in Mgr, ManagerStep(m) PROVE Shrinks
  <2>1. SettleManager(m) => Shrinks
    BY <1>4 DEF Shrinks
  <2> QED BY <1>5, <1>6, <2>1, ManagerFrames DEF ManagerStep
<1>7. ASSUME NEW d \in Slot, WorkerStep(d) PROVE Shrinks \/ \E a \in AgentId : CreateWorker(d, a)
  BY <1>3, <1>5, <1>7, WorkerMoves, WorkerFrames DEF WorkerStep
<1>8. [Next]_vars => Shrinks \/ \E d \in Slot, a \in AgentId : CreateWorker(d, a)
  BY <1>5, <1>6, <1>7, Frames DEF Next, PlannerStep, vars, workers
<1> QED BY <1>2, <1>3, <1>4, <1>8

CacheApart == \A k, l \in Key : cache[k] # None /\ cache[k] = cache[l] => k = l

\* A new agent is under one key.
LEMMA StepCacheApart ==
  ASSUME TypeOK, CacheApart, [Next]_vars PROVE CacheApart'
<1>1. Shrinks => CacheApart'
  BY DEF Shrinks, CacheApart
<1>2. ASSUME NEW d \in Slot, NEW a \in AgentId, CreateWorker(d, a) PROVE CacheApart'
  <2>1. Caches(d, a)
    BY <1>2, CacheMoves
  <2>2. \A key \in Key : cache[key] # a
    BY <1>2, WorkerFrames DEF Unused, TypeOK, Key
  <2> QED BY <2>1, <2>2 DEF Caches, CacheApart
<1> QED BY <1>1, <1>2, CacheMoves

AgentsApart == \A d, e \in Slot : worker[d].agent # None /\ worker[d].agent = worker[e].agent => d = e

\* When a manager answers, none of its workers is at work, and no other is.
LEMMA NobodyWorks ==
  ASSUME OneAtATime, WorkersOfManager, AgentsHeld, NEW m \in Mgr, mgr[m].phase = "asking", NEW d \in Slot
  PROVE  worker[d].phase = "idle" /\ worker[d].agent = None
<1>1. worker[d].phase = "idle"
  <2>1. d[1] \in Mgr
    BY DEF Slot
  <2>2. SUFFICES ASSUME worker[d].phase # "idle" PROVE FALSE
    OBVIOUS
  <2>3. mgr[d[1]].phase = "working"
    BY <2>2 DEF WorkersOfManager
  <2>4. d[1] = m
    BY <2>1, <2>3 DEF OneAtATime, Up
  <2> QED BY <2>3, <2>4
<1> QED BY <1>1 DEF AgentsHeld, Holds

\* A dispatch gets a new agent, or a cached one that nobody runs.
LEMMA StepApart ==
  ASSUME TypeOK, OneAtATime, WorkersOfManager, AgentsHeld, CacheApart, AgentsApart, [Next]_vars
  PROVE  AgentsApart'
<1>1. ASSUME \A d \in Slot : worker'[d].agent = worker[d].agent \/ worker'[d].agent = None
      PROVE  AgentsApart'
  BY <1>1 DEF AgentsApart
<1>2. ASSUME NEW d \in Slot, NEW a \in AgentId, CreateWorker(d, a) PROVE AgentsApart'
  <2>1. Others(d) /\ worker'[d].agent = a
    BY <1>2, WorkerMoves
  <2>2. \A e \in Slot : worker[e].agent # a
    BY <1>2, WorkerFrames DEF Unused
  <2> QED BY <2>1, <2>2 DEF Others, AgentsApart
<1>3. ASSUME NEW d \in Slot, WorkerStep(d) \/ SupervisorAbortsWorker(d) PROVE AgentsApart'
  <2>1. ASSUME NEW from, NEW to, Goes(d, from, to) PROVE AgentsApart'
    BY <1>1, <2>1 DEF Goes, Others
  <2>2. Over(d) => AgentsApart'
    BY <1>1 DEF Over, Others
  <2>3. SupervisorAbortsWorker(d) => AgentsApart'
    BY <1>1, WorkerMoves DEF Others
  <2>4. WorkerLoops(d) \/ WorkerAnswers(d) => AgentsApart'
    BY <2>1, <2>2, WorkerMoves
  <2>5. StartWorker(d) => AgentsApart'
    BY <2>1, WorkerMoves
  <2>6. Prompt(d) => AgentsApart'
    BY <2>1, WorkerMoves
  <2>7. WorkerNotStarted(d) => AgentsApart'
    BY <2>2, WorkerMoves
  <2> QED BY <1>2, <1>3, <2>3, <2>4, <2>5, <2>6, <2>7 DEF WorkerStep
<1>4. ASSUME NEW m \in Mgr, NEW s \in StageId, NEW tasks, DispatchWorkers(m, s, tasks) PROVE AgentsApart'
  <2>1. Opened(m, s)
    BY <1>4, WorkersDispatched
  <2>2. \A d \in Slot : worker[d].agent = None
    BY <1>4, NobodyWorks DEF DispatchWorkers
  <2>3. \A d \in Slot : worker'[d].agent # None => d[1] = m /\ Reuses(d, s)
    BY <2>1, <2>2 DEF Opened, Opens, New
  <2>5. ASSUME NEW d \in Slot, NEW e \in Slot, worker'[d].agent # None, worker'[d].agent = worker'[e].agent
        PROVE  d = e
    <3>1. d[1] = m /\ e[1] = m /\ Reuses(d, s) /\ Reuses(e, s)
      BY <2>3, <2>5
    <3>2. <<s, d[2]>> \in Key /\ <<s, e[2]>> \in Key
      BY <3>1 DEF Reuses, Scoped, Key
    <3>3. <<s, d[2]>> = <<s, e[2]>>
      BY <2>5, <3>1, <3>2 DEF Reuses, CacheApart
    <3> QED BY <3>1, <3>3 DEF Slot
  <2> QED BY <2>5 DEF AgentsApart
<1>5. worker' = worker => AgentsApart'
  BY <1>1
<1>6. ASSUME NEW m \in Mgr, ManagerStep(m) PROVE AgentsApart'
  BY <1>4, <1>5, <1>6, ManagerFrames DEF ManagerStep
<1> QED BY <1>3, <1>5, <1>6, Frames DEF Next, PlannerStep, vars, workers

\* No other dispatch and no cache entry has the agent of a one-shot worker.
OneShotsApart ==
  \A d \in Slot : ~Scoped(d) /\ worker[d].agent # None =>
    /\ \A e \in Slot : worker[e].agent = worker[d].agent => e = d
    /\ \A key \in Key : cache[key] # worker[d].agent

\* A one-shot worker is created for its dispatch and never cached, whatever
\* the managers name.
LEMMA StepOneShots ==
  ASSUME TypeOK, OneShotsApart, [Next]_vars PROVE OneShotsApart'
<1>1. ASSUME Shrinks, \A d \in Slot : worker'[d].agent = worker[d].agent \/ worker'[d].agent = None
      PROVE  OneShotsApart'
  BY <1>1 DEF OneShotsApart, Scoped, Shrinks
<1>2. ASSUME NEW d \in Slot, NEW a \in AgentId, CreateWorker(d, a) PROVE OneShotsApart'
  <2>1. Others(d) /\ worker'[d].agent = a
    BY <1>2, WorkerMoves
  <2>2. \A e \in Slot : worker[e].agent # a
    BY <1>2, WorkerFrames DEF Unused
  <2>3. \A key \in Key : cache[key] # a
    BY <1>2, WorkerFrames DEF Unused, TypeOK, Key
  <2>4. \A key \in Key : cache'[key] = cache[key] \/ (cache'[key] = a /\ Scoped(d))
    BY <1>2, CacheMoves DEF Caches, Key, Scoped
  <2> QED BY <2>1, <2>2, <2>3, <2>4 DEF Others, OneShotsApart, Scoped
<1>3. ASSUME NEW m \in Mgr, NEW s \in StageId, NEW tasks, DispatchWorkers(m, s, tasks)
      PROVE  OneShotsApart'
  <2>1. Opened(m, s) /\ cache' = cache
    BY <1>3, WorkersDispatched, ManagerFrames
  <2>2. ASSUME NEW d \in Slot, ~Scoped(d), worker'[d].agent # None PROVE worker'[d] = worker[d]
    BY <2>1, <2>2 DEF Opened, New, Reuses
  <2>3. ASSUME NEW e \in Slot, worker'[e] # worker[e], worker'[e].agent # None
        PROVE  \E key \in Key : worker'[e].agent = cache[key]
    <3>1. Reuses(e, s)
      BY <2>1, <2>3 DEF Opened, New
    <3> QED BY <3>1 DEF Reuses, Scoped, Key
  <2> QED BY <2>1, <2>2, <2>3 DEF OneShotsApart, Scoped
<1>4. ASSUME NEW d \in Slot, WorkerStep(d) \/ SupervisorAbortsWorker(d),
             ~\E a \in AgentId : CreateWorker(d, a)
      PROVE  \A e \in Slot : worker'[e].agent = worker[e].agent \/ worker'[e].agent = None
  BY <1>4, WorkerMoves DEF WorkerStep, Goes, Over, Others
<1>5. ASSUME NEW d \in Slot, WorkerStep(d) \/ SupervisorAbortsWorker(d) PROVE OneShotsApart'
  <2>1. CASE \E a \in AgentId : CreateWorker(d, a)
    BY <1>2, <2>1
  <2>2. CASE ~\E a \in AgentId : CreateWorker(d, a)
    <3>1. WorkerStep(d) => Shrinks
      BY <2>2, CacheMoves, WorkerMoves, WorkerFrames DEF WorkerStep, Shrinks
    <3>2. SupervisorAbortsWorker(d) => Shrinks
      BY Frames DEF Shrinks
    <3> QED BY <1>1, <1>4, <1>5, <2>2, <3>1, <3>2
  <2> QED BY <2>1, <2>2
<1>6. ASSUME worker' = worker, Shrinks PROVE OneShotsApart'
  BY <1>1, <1>6
<1>7. ASSUME NEW m \in Mgr, ManagerStep(m) PROVE OneShotsApart'
  <2>1. SettleManager(m) => Shrinks
    BY CacheMoves DEF Shrinks
  <2> QED BY <1>3, <1>6, <1>7, <2>1, ManagerFrames DEF ManagerStep, Shrinks
<1> QED BY <1>5, <1>6, <1>7, Frames DEF Next, PlannerStep, vars, workers, Shrinks

(***************************************************************************)
(* The registry and the cache follow the runs.                             *)
(***************************************************************************)

Registered ==
  /\ \A d \in Slot : Executing(d) => worker[d].agent \in running
  /\ \A m \in Mgr : mgr[m].phase \in Up => m \in running

CacheInUse ==
  \A key \in Key : cache[key] # None => \E m \in Mgr : mgr[m].phase \in Up /\ mgr[m].stage = key[1]

\* What the steps make of the registry.
LEMMA RegistryMoves ==
  /\ \A m \in Mgr : StartManager(m) => running' = running \cup {m}
  /\ \A m \in Mgr : SettleManager(m) => running' = running \ {m}
  /\ \A d \in Slot, a \in AgentId : CreateWorker(d, a) => running' = running
  /\ \A d \in Slot : StartWorker(d) => running' = running \cup {worker[d].agent}
  /\ \A d \in Slot, good \in BOOLEAN : EndRun(d, good) => running' = running \ {worker[d].agent}
BY DEF StartManager, SettleManager, CreateWorker, StartWorker, EndRun

\* Agents that run are in the registry, and nothing else takes their place.
LEMMA StepRegistered ==
  ASSUME TypeOK, AgentsHeld, AgentsApart, Registered, [Next]_vars PROVE Registered'
<1>1. \A d \in Slot : Executing(d) => worker[d].agent \in AgentId /\ worker[d].agent # None
  BY DEF AgentsHeld, Holds, Executing, TypeOK, WorkerType
<1>2. ASSUME \A n \in Mgr : mgr'[n].phase \in Up => mgr[n].phase \in Up,
             \A e \in Slot : Executing(e)' => Executing(e) /\ worker'[e].agent = worker[e].agent,
             running' = running
      PROVE  Registered'
  BY <1>2 DEF Registered
<1>3. ASSUME NEW m \in Mgr, ManagerStep(m) PROVE Registered'
  <2>1. CASE StartManager(m)
    <3>1. running' = running \cup {m} /\ worker' = worker
      BY <2>1, RegistryMoves, ManagerFrames
    <3>2. \A n \in Mgr : n # m => mgr'[n] = mgr[n]
      BY <1>3, <2>1, UpMoves
    <3> QED BY <3>1, <3>2 DEF Registered, Executing
  <2>2. CASE SettleManager(m)
    <3>1. running' = running \ {m} /\ worker' = worker
      BY <2>2, RegistryMoves, ManagerFrames
    <3>2. \A n \in Mgr : n # m => mgr'[n] = mgr[n]
      BY <1>3, <2>2, UpMoves
    <3>3. mgr'[m].phase = "idle"
      BY <1>3, <2>2, UpMoves
    <3>4. \A d \in Slot : Executing(d) => worker[d].agent # m
      BY <1>1, IdsAssumption
    <3> QED BY <3>1, <3>2, <3>3, <3>4 DEF Registered, Executing, Up
  <2>3. CASE ~StartManager(m) /\ ~SettleManager(m)
    <3>1. \A n \in Mgr : mgr'[n].phase \in Up => mgr[n].phase \in Up
      BY <1>3, <2>3, UpMoves
    <3>2. running' = running
      BY <1>3, <2>3, ManagerFrames DEF ManagerStep
    <3>3. worker' = worker => \A e \in Slot : Executing(e)' => Executing(e) /\ worker'[e].agent = worker[e].agent
      BY DEF Executing
    <3>4. ASSUME NEW s, NEW tasks, DispatchWorkers(m, s, tasks), NEW e \in Slot, Executing(e)'
          PROVE  Executing(e) /\ worker'[e].agent = worker[e].agent
      <4>1. Opened(m, s)
        BY <3>4, WorkersDispatched
      <4> QED BY <3>4, <4>1 DEF Opened, Opens, New, Reuses, Executing
    <3>5. (\E s, tasks : DispatchWorkers(m, s, tasks)) \/ worker' = worker
      BY <1>3, ManagerFrames DEF ManagerStep
    <3> QED BY <1>2, <3>1, <3>2, <3>3, <3>4, <3>5
  <2> QED BY <2>1, <2>2, <2>3
<1>4. ASSUME NEW d \in Slot, WorkerStep(d) PROVE Registered'
  <2>1. mgr' = mgr
    BY <1>4, Frames
  <2>2. ASSUME NEW a \in AgentId, CreateWorker(d, a) PROVE Registered'
    <3>1. running' = running /\ Others(d) /\ worker'[d].phase = "recording"
      BY <2>2, WorkerMoves, RegistryMoves
    <3> QED BY <1>2, <2>1, <3>1 DEF Others, Executing
  <2>3. CASE WorkerNotStarted(d)
    <3>1. running' = running /\ Over(d)
      BY <2>3, WorkerMoves
    <3> QED BY <1>2, <2>1, <3>1 DEF Over, Others, Executing
  <2>4. CASE StartWorker(d)
    <3>1. running' = running \cup {worker[d].agent} /\ Others(d) /\ worker'[d].agent = worker[d].agent
      BY <2>4, WorkerMoves, RegistryMoves DEF Goes
    <3> QED BY <2>1, <3>1 DEF Others, Executing, Registered
  <2>5. CASE Prompt(d)
    <3>1. running' = running /\ Goes(d, "entering", {"top"})
      BY <2>5, WorkerMoves, WorkerFrames
    <3> QED BY <1>2, <2>1, <3>1 DEF Goes, Others, Executing
  <2>6. ASSUME NEW good \in BOOLEAN, EndRun(d, good), Executing(d) PROVE Registered'
    <3>1. running' = running \ {worker[d].agent} /\ Over(d)
      BY <2>6, WorkerMoves, RegistryMoves
    <3>2. worker[d].agent \notin Mgr
      BY <1>1, <2>6, IdsAssumption
    <3>3. \A e \in Slot : Executing(e)' => e # d /\ worker'[e] = worker[e] /\ Executing(e)
      BY <3>1 DEF Over, Others, Executing
    <3>4. \A e \in Slot : Executing(e)' => worker[e].agent # worker[d].agent
      BY <1>1, <2>6, <3>3 DEF AgentsApart
    <3> QED BY <2>1, <3>1, <3>2, <3>3, <3>4 DEF Registered
  <2>7. CASE WorkerLoops(d) \/ WorkerAnswers(d)
    <3>1. Executing(d)
      BY <2>7 DEF WorkerLoops, WorkerAnswers, Executing
    <3>2. CASE \E good \in BOOLEAN : EndRun(d, good)
      BY <2>6, <3>1, <3>2
    <3>3. CASE (Goes(d, "top", {"asking"}) \/ Goes(d, "asking", {"top"})) /\ running' = running
      BY <1>2, <2>1, <3>3 DEF Goes, Others, Executing
    <3> QED BY <2>7, <3>2, <3>3, WorkerMoves
  <2> QED BY <1>4, <2>2, <2>3, <2>4, <2>5, <2>7 DEF WorkerStep
<1>5. ASSUME NEW d \in Slot, SupervisorAbortsWorker(d) PROVE Registered'
  <2>1. mgr' = mgr /\ running' = running
    BY <1>5, Frames
  <2>2. \A e \in Slot : worker'[e].phase = worker[e].phase /\ worker'[e].agent = worker[e].agent
    BY <1>5, WorkerMoves DEF Others
  <2> QED BY <1>2, <2>1, <2>2 DEF Executing
<1>6. ASSUME worker' = worker, running' = running, \A n \in Mgr : mgr'[n].phase \in Up => mgr[n].phase \in Up
      PROVE  Registered'
  BY <1>6 DEF Registered, Executing
<1>7. CASE RequestShutdown \/ (\E m \in Mgr : SupervisorAbortsManager(m)) \/ LateCallLands
  BY <1>6, <1>7, OthersMove, Frames DEF Stays
<1>8. ASSUME NEW batch \in [Mgr -> StageOrNone], DispatchManagers(batch) PROVE Registered'
  BY <1>6, <1>8, DispatchesOpen, Frames DEF Up
<1> QED
  BY <1>3, <1>4, <1>5, <1>6, <1>7, <1>8, Frames DEF Next, PlannerStep, vars, workers

\* A conversation is cached while a manager of its stage is up.
LEMMA StepCacheInUse ==
  ASSUME TypeOK, WorkersOfManager, CacheInUse, [Next]_vars PROVE CacheInUse'
<1>1. ASSUME Shrinks, \A n \in Mgr : mgr[n].phase \in Up => mgr'[n].phase \in Up /\ mgr'[n].stage = mgr[n].stage
      PROVE  CacheInUse'
  BY <1>1 DEF CacheInUse, Shrinks
<1>2. cache' = cache => Shrinks
  BY DEF Shrinks
<1>3. ASSUME NEW m \in Mgr, ManagerStep(m) PROVE CacheInUse'
  <2>1. CASE SettleManager(m)
    <3>1. \A n \in Mgr : n # m => mgr'[n] = mgr[n]
      BY <1>3, <2>1, UpMoves
    <3>2. \A key \in Key : cache'[key] # None => cache'[key] = cache[key] /\ key[1] # mgr[m].stage
      BY <2>1, CacheMoves
    <3> QED BY <3>1, <3>2 DEF CacheInUse
  <2>2. CASE StartManager(m)
    <3>1. cache' = cache
      BY <2>2, ManagerFrames
    <3>2. mgr[m].phase = "starting" /\ \A n \in Mgr : n # m => mgr'[n] = mgr[n]
      BY <1>3, <2>2, UpMoves
    <3> QED BY <1>1, <1>2, <3>1, <3>2 DEF Up
  <2>3. CASE ~SettleManager(m) /\ ~StartManager(m)
    <3>1. cache' = cache
      BY <1>3, <2>3, ManagerFrames DEF ManagerStep
    <3>2. \A n \in Mgr : mgr[n].phase \in Up => mgr'[n].phase \in Up /\ mgr'[n].stage = mgr[n].stage
      BY <1>3, <2>3, UpMoves
    <3> QED BY <1>1, <1>2, <3>1, <3>2
  <2> QED BY <2>1, <2>2, <2>3
<1>4. ASSUME NEW d \in Slot, NEW a \in AgentId, CreateWorker(d, a) PROVE CacheInUse'
  <2>1. Caches(d, a) /\ mgr' = mgr
    BY <1>4, CacheMoves, Frames DEF WorkerStep
  <2>2. worker[d].phase = "creating"
    BY <1>4, WorkerMoves
  <2>3. mgr[d[1]].phase = "working" /\ worker[d].stage = mgr[d[1]].stage /\ d[1] \in Mgr
    BY <2>2 DEF WorkersOfManager, Slot
  <2>4. ASSUME NEW key \in Key, cache'[key] # None
        PROVE  \E m \in Mgr : mgr'[m].phase \in Up /\ mgr'[m].stage = key[1]
    <3>1. CASE cache'[key] = cache[key]
      BY <2>1, <2>4, <3>1 DEF CacheInUse
    <3>2. CASE key = <<worker[d].stage, d[2]>>
      <4>1. key[1] = mgr[d[1]].stage
        BY <2>3, <3>2
      <4> QED BY <2>1, <2>3, <4>1 DEF Up
    <3> QED BY <2>1, <3>1, <3>2 DEF Caches
  <2> QED BY <2>4 DEF CacheInUse
<1>5. ASSUME NEW batch \in [Mgr -> StageOrNone], DispatchManagers(batch) PROVE CacheInUse'
  <2>1. cache' = cache /\ \A n \in Mgr : mgr[n].phase = "idle"
    BY <1>5, Frames, DispatchesOpen DEF Thinking
  <2> QED BY <1>1, <1>2, <2>1 DEF Up
<1>6. CASE RequestShutdown \/ (\E m \in Mgr : SupervisorAbortsManager(m)) \/ LateCallLands
  BY <1>1, <1>2, <1>6, OthersMove, Frames DEF Stays
<1>7. CASE mgr' = mgr /\ cache' = cache
  BY <1>1, <1>2, <1>7
<1>8. ASSUME NEW d \in Slot, WorkerStep(d) PROVE CacheInUse'
  <2>1. mgr' = mgr
    BY <1>8, Frames
  <2> QED BY <1>1, <1>4, <2>1, CacheMoves
<1> QED
  BY <1>3, <1>5, <1>6, <1>7, <1>8, Frames DEF Next, PlannerStep, vars, workers

\* The tracker shows the stage of the one manager that is up.
LEMMA StepTracker ==
  ASSUME TypeOK, OneAtATime, WorkersOfManager, TrackerNamesTheStage, ~strayed', [Next]_vars
  PROVE  TrackerNamesTheStage'
<1> DEFINE Shown(m) == InLoop(m) /\ ~frozen => stage = mgr[m].stage
<1>1. \A m \in Mgr : Shown(m)
  BY DEF TrackerNamesTheStage
<1>2. ASSUME frozen' = frozen, stage' = stage,
             \A n \in Mgr : InLoop(n)' => InLoop(n) /\ mgr'[n].stage = mgr[n].stage
      PROVE  TrackerNamesTheStage'
  BY <1>1, <1>2 DEF TrackerNamesTheStage
<1>3. ASSUME frozen' = frozen, NEW m \in Mgr, SetStage(mgr[m].stage), mgr'[m].stage = mgr[m].stage,
             \A n \in Mgr : n # m => mgr'[n] = mgr[n] /\ mgr[n].phase \notin Up
      PROVE  TrackerNamesTheStage'
  BY <1>3 DEF TrackerNamesTheStage, InLoop, SetStage, Up
<1>4. ASSUME NEW m \in Mgr, ManagerStep(m) PROVE TrackerNamesTheStage'
  <2>1. frozen' = frozen
    BY <1>4, ManagerFrames DEF ManagerStep
  <2>2. ASSUME NEW from, NEW to, Moves(m, from, to), stage' = stage,
               from \subseteq {"top", "asking", "working"} \/ to \cap {"top", "asking", "working"} = {}
        PROVE  TrackerNamesTheStage'
    BY <1>2, <2>1, <2>2 DEF Moves, InLoop
  <2>3. ASSUME Leaves(m), stage' = stage PROVE TrackerNamesTheStage'
    BY <1>2, <2>1, <2>3 DEF Leaves, InLoop
  <2>4. CASE GateReadsPlan(m)
    BY <2>2, <2>4, ManagerMoves, ManagerFrames
  <2>5. CASE GateLooksUp(m)
    BY <2>2, <2>3, <2>5, ManagerMoves, ManagerFrames
  <2>6. CASE ManagerNotCreated(m)
    BY <2>3, <2>6, ManagerMoves, ManagerFrames
  <2>7. CASE StartManager(m)
    <3>1. Moves(m, {"starting"}, {"top"}) /\ SetStage(mgr[m].stage)
      BY <2>7, ManagerMoves, StageMoves
    <3>2. \A n \in Mgr : mgr[n].phase \notin Up
      BY <2>7, Straying DEF AtWork, InLoop, Up
    <3> QED BY <1>3, <2>1, <3>1, <3>2 DEF Moves
  <2>8. CASE ManagerLoops(m) \/ BatchReturns(m) \/ ManagerEnds(m)
    BY <2>2, <2>8, ManagerMoves, ManagerFrames
  <2>9. CASE SettleManager(m)
    <3>1. Leaves(m) /\ mgr[m].phase = "settling"
      BY <2>9, ManagerMoves
    <3>2. \A n \in Mgr : mgr'[n].phase \notin Up
      BY <3>1 DEF Leaves, OneAtATime, Up
    <3> QED BY <3>2 DEF TrackerNamesTheStage, InLoop, Up
  <2>10. ASSUME NEW s, NEW tasks, DispatchWorkers(m, s, tasks) PROVE TrackerNamesTheStage'
    <3>1. Moves(m, {"asking"}, {"working"}) /\ s = mgr[m].stage
      BY <2>10, ManagerMoves, Straying
    <3>2. CASE SetStage(s)
      <4>1. \A n \in Mgr : n # m => mgr[n].phase \notin Up
        BY <3>1 DEF Moves, OneAtATime, Up
      <4> QED BY <1>3, <2>1, <3>1, <3>2, <4>1 DEF Moves
    <3>3. CASE stage' = stage
      BY <2>2, <3>1, <3>3
    <3> QED BY <2>10, <3>2, <3>3, StageMoves
  <2> QED BY <1>4, <2>4, <2>5, <2>6, <2>7, <2>8, <2>9, <2>10 DEF ManagerStep
<1>5. ASSUME NEW d \in Slot, WorkerStep(d) PROVE TrackerNamesTheStage'
  <2>1. mgr' = mgr /\ frozen' = frozen
    BY <1>5, Frames
  <2>2. ASSUME NEW a \in AgentId, CreateWorker(d, a) PROVE TrackerNamesTheStage'
    <3>1. worker[d].phase = "creating" /\ SetStage(worker[d].stage)
      BY <2>2, WorkerMoves, WorkerFrames
    <3>2. mgr[d[1]].phase = "working" /\ worker[d].stage = mgr[d[1]].stage /\ d[1] \in Mgr
      BY <3>1 DEF WorkersOfManager, Slot
    <3>3. \A n \in Mgr : n # d[1] => mgr[n].phase \notin Up
      BY <3>2 DEF OneAtATime, Up
    <3> QED BY <1>3, <2>1, <3>1, <3>2, <3>3
  <2>3. CASE stage' = stage
    BY <1>2, <2>1, <2>3 DEF InLoop
  <2> QED BY <1>5, <2>2, <2>3, WorkerMoves, WorkerFrames DEF WorkerStep
<1>6. ASSUME NEW batch \in [Mgr -> StageOrNone], DispatchManagers(batch) PROVE TrackerNamesTheStage'
  <2>1. \A n \in Mgr : mgr'[n].phase \in {"idle", "gate"}
    BY <1>6, DispatchesOpen
  <2> QED BY <2>1 DEF TrackerNamesTheStage, InLoop
<1>7. CASE RequestShutdown \/ (\E m \in Mgr : SupervisorAbortsManager(m)) \/ LateCallLands
  BY <1>2, <1>7, OthersMove, Frames DEF Stays, InLoop
<1>8. CASE Freeze
  BY <1>8 DEF Freeze, TrackerNamesTheStage
<1>9. CASE mgr' = mgr /\ stage' = stage /\ frozen' = frozen
  BY <1>2, <1>9 DEF InLoop
<1> QED
  BY <1>4, <1>5, <1>6, <1>7, <1>8, <1>9, Frames DEF Next, PlannerStep, vars, signals

(***************************************************************************)
(* What a worker has been told, and who cancelled it.                      *)
(***************************************************************************)

\* Agent b keeps its conversation.
Keeps(b) == agent'[b].prompt = agent[b].prompt /\ (agent[b].used => agent'[b].used)

\* What the steps make of the agents.
LEMMA AgentMoves ==
  ASSUME TypeOK, AgentsHeld, NEW d \in Slot
  PROVE  /\ \A a \in AgentId : CreateWorker(d, a) =>
              /\ agent'[a].prompt = worker[d].task /\ agent'[a].cancelled = FALSE
              /\ \A b \in AgentId \ {a} : agent'[b] = agent[b]
         /\ StartWorker(d) =>
              \A b \in AgentId : Keeps(b) /\ (agent'[b].cancelled => agent[b].cancelled \/ down)
         /\ Prompt(d) =>
              /\ agent'[worker[d].agent].prompt = worker[d].task
              /\ \A b \in AgentId : agent'[b].cancelled => agent[b].cancelled
              /\ \A b \in AgentId \ {worker[d].agent} : agent'[b] = agent[b]
         /\ SupervisorAbortsWorker(d) =>
              /\ timers' = timers \cup {worker[d].agent}
              /\ \A b \in AgentId : Keeps(b)
              /\ \A b \in AgentId \ {worker[d].agent} : agent'[b] = agent[b]
         /\ \A a \in AgentId : SupervisorCancelsAgain(a) =>
              /\ a \in timers /\ timers' = timers \ {a}
              /\ \A b \in AgentId : Keeps(b)
              /\ \A b \in AgentId \ {a} : agent'[b] = agent[b]
         /\ RequestShutdown => down' /\ \A b \in AgentId : Keeps(b)
<1>1. agent \in [AgentId -> AgentType] /\ \A e \in Slot : Executing(e) \/ worker[e].phase = "recording" => worker[e].agent \in AgentId
  BY DEF TypeOK, WorkerType, AgentsHeld, Holds, Executing
<1>2. \A a \in AgentId : CreateWorker(d, a) =>
        /\ agent'[a].prompt = worker[d].task /\ agent'[a].cancelled = FALSE
        /\ \A b \in AgentId \ {a} : agent'[b] = agent[b]
  BY <1>1 DEF CreateWorker, NewAgent
<1>3. ASSUME StartWorker(d), NEW b \in AgentId
      PROVE  Keeps(b) /\ (agent'[b].cancelled => agent[b].cancelled \/ down)
  <2>1. CASE b = worker[d].agent
    BY <1>1, <1>3, <2>1 DEF StartWorker, Keeps, AgentType
  <2>2. CASE b # worker[d].agent
    BY <1>1, <1>3, <2>2 DEF StartWorker, Keeps
  <2> QED BY <2>1, <2>2
<1>4. Prompt(d) =>
        /\ agent'[worker[d].agent].prompt = worker[d].task
        /\ \A b \in AgentId : agent'[b].cancelled => agent[b].cancelled
        /\ \A b \in AgentId \ {worker[d].agent} : agent'[b] = agent[b]
  BY <1>1 DEF Prompt, Executing, AgentType
<1>5. SupervisorAbortsWorker(d) =>
        /\ timers' = timers \cup {worker[d].agent}
        /\ \A b \in AgentId : Keeps(b)
        /\ \A b \in AgentId \ {worker[d].agent} : agent'[b] = agent[b]
  BY <1>1 DEF SupervisorAbortsWorker, Keeps, AgentType
<1>6. \A a \in AgentId : SupervisorCancelsAgain(a) =>
        /\ a \in timers /\ timers' = timers \ {a}
        /\ \A b \in AgentId : Keeps(b)
        /\ \A b \in AgentId \ {a} : agent'[b] = agent[b]
  BY <1>1 DEF SupervisorCancelsAgain, Keeps, AgentType
<1>7. RequestShutdown => down' /\ \A b \in AgentId : Keeps(b)
  BY <1>1 DEF RequestShutdown, Keeps, AgentType
<1> QED BY <1>2, <1>3, <1>4, <1>5, <1>6, <1>7

\* A dispatch has told its agent its task, or will.
IsTold(d) ==
  worker[d].phase \in Holds /\ ~worker[d].unrun =>
    \/ worker[d].phase = "entering"
    \/ worker[d].phase = "recording" /\ agent[worker[d].agent].used
    \/ agent[worker[d].agent].prompt = worker[d].task

Told == \A d \in Slot : IsTold(d)

\* An agent that has run gets a follow-up, and a new one was created for the task.
LEMMA StepTold ==
  ASSUME TypeOK, AgentsHeld, AgentsApart, Told, [Next]_vars PROVE Told'
<1>1. \A d \in Slot : IsTold(d)
  BY DEF Told
<1>2. \A d \in Slot : worker[d].phase \in Holds => worker[d].agent \in AgentId /\ worker[d].agent # None
  BY DEF AgentsHeld, TypeOK, WorkerType
<1>3. ASSUME NEW d \in Slot, worker'[d].agent = worker[d].agent, SameTask(d),
             worker'[d].phase = worker[d].phase \/ (worker[d].phase \in {"top", "asking"} /\ worker'[d].phase \in {"top", "asking"}),
             worker[d].agent \in AgentId => Keeps(worker[d].agent)
      PROVE  IsTold(d)'
  BY <1>1, <1>2, <1>3 DEF IsTold, SameTask, Keeps, Holds
<1>4. ASSUME NEW d \in Slot, worker'[d] = worker[d], worker[d].agent \in AgentId => Keeps(worker[d].agent)
      PROVE  IsTold(d)'
  BY <1>3, <1>4 DEF SameTask
<1>5. \A b \in AgentId : agent'[b] = agent[b] => Keeps(b)
  BY DEF Keeps
<1>6. ASSUME NEW d \in Slot, WorkerStep(d), NEW e \in Slot PROVE IsTold(e)'
  <2>1. ASSUME NEW a \in AgentId, CreateWorker(d, a) PROVE IsTold(e)'
    <3>1. /\ agent'[a].prompt = worker[d].task /\ (\A b \in AgentId \ {a} : agent'[b] = agent[b])
          /\ Others(d) /\ SameTask(d) /\ worker'[d].agent = a /\ worker[e].agent # a
      <4>1. worker[e].agent # a
        BY <2>1, WorkerFrames DEF Unused
      <4>2. agent'[a].prompt = worker[d].task /\ \A b \in AgentId \ {a} : agent'[b] = agent[b]
        BY <2>1, AgentMoves
      <4>3. Others(d) /\ SameTask(d) /\ worker'[d].agent = a
        BY <2>1, WorkerMoves
      <4> QED BY <4>1, <4>2, <4>3
    <3>2. CASE e = d
      BY <3>1, <3>2 DEF IsTold, SameTask
    <3>3. CASE e # d
      BY <1>4, <1>5, <3>1, <3>3 DEF Others
    <3> QED BY <3>2, <3>3
  <2>2. CASE StartWorker(d)
    <3>1. (\A b \in AgentId : Keeps(b)) /\ Others(d) /\ SameTask(d) /\ worker'[d].agent = worker[d].agent
      BY <2>2, AgentMoves, WorkerMoves DEF Goes
    <3>2. /\ worker[d].phase = "recording"
          /\ agent[worker[d].agent].used => worker'[d].phase = "entering"
      BY <2>2, WorkerMoves DEF Goes
    <3>3. CASE e = d
      BY <1>1, <1>2, <3>1, <3>2, <3>3 DEF IsTold, SameTask, Keeps, Holds
    <3>4. CASE e # d
      BY <1>4, <3>1, <3>4 DEF Others
    <3> QED BY <3>3, <3>4
  <2>3. CASE Prompt(d)
    <3>1. /\ agent'[worker[d].agent].prompt = worker[d].task
          /\ \A b \in AgentId \ {worker[d].agent} : agent'[b] = agent[b]
          /\ Others(d) /\ SameTask(d) /\ worker'[d].agent = worker[d].agent
      BY <2>3, AgentMoves, WorkerMoves DEF Goes
    <3>2. CASE e = d
      BY <3>1, <3>2 DEF IsTold, SameTask
    <3>3. CASE e # d
      <4>1. worker[d].agent \in AgentId /\ worker[e].agent # worker[d].agent
        BY <1>2, <2>3, <3>3, WorkerMoves DEF Goes, Holds, AgentsApart
      <4> QED BY <1>4, <1>5, <3>1, <3>3, <4>1 DEF Others
    <3> QED BY <3>2, <3>3
  <2>4. CASE Over(d) /\ agent' = agent
    <3>1. e = d => IsTold(e)'
      BY <2>4 DEF Over, IsTold, Holds
    <3>2. e # d => IsTold(e)'
      BY <1>4, <1>5, <2>4 DEF Over, Others
    <3> QED BY <3>1, <3>2
  <2>5. CASE (Goes(d, "top", {"asking"}) \/ Goes(d, "asking", {"top"})) /\ agent' = agent
    <3>1. e = d => IsTold(e)'
      BY <1>3, <1>5, <2>5 DEF Goes
    <3>2. e # d => IsTold(e)'
      BY <1>4, <1>5, <2>5 DEF Goes, Others
    <3> QED BY <3>1, <3>2
  <2>6. CASE WorkerNotStarted(d) \/ WorkerLoops(d) \/ WorkerAnswers(d)
    BY <2>4, <2>5, <2>6, WorkerMoves, WorkerFrames
  <2> QED BY <1>6, <2>1, <2>2, <2>3, <2>6 DEF WorkerStep
<1>7. ASSUME NEW m \in Mgr, NEW s, NEW tasks, DispatchWorkers(m, s, tasks), NEW e \in Slot PROVE IsTold(e)'
  <2>1. Opened(m, s) /\ agent' = agent
    BY <1>7, WorkersDispatched, ManagerFrames
  <2>2. CASE worker'[e] = worker[e]
    BY <1>4, <1>5, <2>1, <2>2
  <2>3. CASE New(e)
    BY <2>3 DEF New, IsTold, Holds
  <2>4. CASE Reuses(e, s)
    BY <2>1, <2>4 DEF Reuses, IsTold
  <2> QED BY <2>1, <2>2, <2>3, <2>4 DEF Opened
<1>8. ASSUME NEW d \in Slot, SupervisorAbortsWorker(d), NEW e \in Slot PROVE IsTold(e)'
  <2>1. /\ \A b \in AgentId : Keeps(b)
        /\ Others(d) /\ SameTask(d) /\ worker'[d].agent = worker[d].agent /\ worker'[d].phase = worker[d].phase
    BY <1>8, AgentMoves, WorkerMoves
  <2>2. e = d => IsTold(e)'
    BY <1>3, <2>1
  <2>3. e # d => IsTold(e)'
    BY <1>4, <2>1 DEF Others
  <2> QED BY <2>2, <2>3
<1>9. ASSUME worker' = worker, \A b \in AgentId : Keeps(b) PROVE Told'
  BY <1>4, <1>9 DEF Told
<1>10. agent' = agent /\ worker' = worker => Told'
  BY <1>5, <1>9
<1>11. ASSUME NEW m \in Mgr, ManagerStep(m) PROVE Told'
  BY <1>7, <1>10, <1>11, ManagerFrames DEF ManagerStep, Told
<1>12. ASSUME NEW a \in AgentId, SupervisorCancelsAgain(a) PROVE Told'
  BY <1>9, <1>10, <1>12, AgentMoves, Frames DEF Told
<1>13. CASE RequestShutdown
  BY <1>9, <1>10, <1>13, AgentMoves, Frames DEF Told
<1> QED
  BY <1>6, <1>8, <1>10, <1>11, <1>12, <1>13, Frames DEF Next, PlannerStep, vars, workers, Told

\* The supervisor's choice of dispatch d is the only thing that cancels it.
IsAimed(d) ==
  worker[d].phase \in Holds /\ ~Scoped(d) =>
    /\ agent[worker[d].agent].cancelled => worker[d].blamed \/ down
    /\ worker[d].agent \in timers => worker[d].blamed

Aimed == \A d \in Slot : IsAimed(d)

\* A timer fires at the agent it was set for, which no other one-shot run has.
LEMMA StepAimed ==
  ASSUME TypeOK, AgentsHeld, OneShotsApart, Aimed, [Next]_vars PROVE Aimed'
<1>1. \A d \in Slot : IsAimed(d)
  BY DEF Aimed
<1>2. \A d \in Slot : worker[d].phase \in Holds => worker[d].agent \in AgentId /\ worker[d].agent # None
  BY DEF AgentsHeld, TypeOK, WorkerType
<1>3. ASSUME NEW d \in Slot, worker'[d].agent = worker[d].agent, worker'[d].phase \in Holds => worker[d].phase \in Holds,
             worker[d].blamed => worker'[d].blamed, down => down',
             worker[d].agent \in AgentId /\ agent'[worker[d].agent].cancelled => agent[worker[d].agent].cancelled \/ down',
             worker[d].agent \in timers' => worker[d].agent \in timers
      PROVE  IsAimed(d)'
  BY <1>1, <1>2, <1>3 DEF IsAimed, Scoped
<1>4. ASSUME NEW d \in Slot, worker'[d] = worker[d], down => down',
             worker[d].agent \in AgentId => agent'[worker[d].agent] = agent[worker[d].agent],
             worker[d].agent \in timers' => worker[d].agent \in timers
      PROVE  IsAimed(d)'
  BY <1>3, <1>4
<1>5. ASSUME NEW d \in Slot, WorkerStep(d), NEW e \in Slot PROVE IsAimed(e)'
  <2>1. down' = down /\ timers' = timers
    BY <1>5, Frames
  <2>2. ASSUME NEW a \in AgentId, CreateWorker(d, a) PROVE IsAimed(e)'
    <3>1. worker[e].agent # a /\ a \notin timers
      BY <2>2, WorkerFrames DEF Unused
    <3>2. agent'[a].cancelled = FALSE /\ \A b \in AgentId \ {a} : agent'[b] = agent[b]
      BY <2>2, AgentMoves
    <3>3. Others(d) /\ worker'[d].agent = a
      BY <2>2, WorkerMoves
    <3>4. CASE e = d
      BY <2>1, <3>1, <3>2, <3>3, <3>4 DEF IsAimed
    <3>5. CASE e # d
      BY <1>4, <2>1, <3>1, <3>2, <3>3, <3>5 DEF Others
    <3> QED BY <3>4, <3>5
  <2>3. ASSUME NEW from, NEW to, Goes(d, from, to), from \in Holds,
               \A b \in AgentId : agent'[b].cancelled => agent[b].cancelled \/ down
        PROVE  IsAimed(e)'
    <3>1. e = d => IsAimed(e)'
      BY <1>3, <2>1, <2>3 DEF Goes
    <3>2. e # d => IsAimed(e)'
      BY <1>3, <2>1, <2>3 DEF Goes, Others
    <3> QED BY <3>1, <3>2
  <2>4. CASE StartWorker(d)
    BY <2>3, <2>4, AgentMoves, WorkerMoves DEF Holds
  <2>5. CASE Prompt(d)
    BY <2>3, <2>5, AgentMoves, WorkerMoves DEF Holds
  <2>6. CASE Over(d) /\ agent' = agent
    <3>1. e = d => IsAimed(e)'
      BY <2>6 DEF Over, IsAimed, Holds
    <3>2. e # d => IsAimed(e)'
      BY <1>4, <2>1, <2>6 DEF Over, Others
    <3> QED BY <3>1, <3>2
  <2>7. CASE (Goes(d, "top", {"asking"}) \/ Goes(d, "asking", {"top"})) /\ agent' = agent
    BY <2>3, <2>7 DEF Holds
  <2>8. CASE WorkerNotStarted(d) \/ WorkerLoops(d) \/ WorkerAnswers(d)
    BY <2>6, <2>7, <2>8, WorkerMoves, WorkerFrames
  <2> QED BY <1>5, <2>2, <2>4, <2>5, <2>8 DEF WorkerStep
<1>6. ASSUME NEW m \in Mgr, NEW s, NEW tasks, DispatchWorkers(m, s, tasks), NEW e \in Slot PROVE IsAimed(e)'
  <2>1. Opened(m, s) /\ UNCHANGED <<agent, down, timers>>
    BY <1>6, WorkersDispatched, ManagerFrames
  <2>2. CASE worker'[e] = worker[e]
    BY <1>4, <2>1, <2>2
  <2>3. CASE New(e)
    BY <2>3 DEF New, IsAimed, Holds
  <2>4. CASE Reuses(e, s)
    BY <2>4 DEF Reuses, IsAimed, Scoped
  <2> QED BY <2>1, <2>2, <2>3, <2>4 DEF Opened
<1>7. ASSUME NEW d \in Slot, SupervisorAbortsWorker(d), NEW e \in Slot PROVE IsAimed(e)'
  <2>1. down' = down /\ timers' = timers \cup {worker[d].agent}
    BY <1>7, AgentMoves, Frames
  <2>2. Others(d) /\ worker'[d].blamed
    BY <1>7, WorkerMoves
  <2>3. \A b \in AgentId \ {worker[d].agent} : agent'[b] = agent[b]
    BY <1>7, AgentMoves
  <2>4. worker[d].phase \in Holds
    BY <1>7 DEF SupervisorAbortsWorker, Executing, Holds
  <2>5. CASE e = d
    BY <2>2, <2>5 DEF IsAimed
  <2>6. CASE e # d /\ Scoped(e)
    BY <2>6 DEF IsAimed, Scoped
  <2>7. CASE e # d /\ ~Scoped(e)
    <3>1. worker[e].agent # worker[d].agent
      BY <1>2, <2>4, <2>7 DEF OneShotsApart
    <3> QED BY <1>4, <2>1, <2>2, <2>3, <2>7, <3>1 DEF Others
  <2> QED BY <2>5, <2>6, <2>7
<1>8. ASSUME worker' = worker, agent' = agent, down => down', timers' = timers PROVE Aimed'
  BY <1>4, <1>8 DEF Aimed
<1>9. ASSUME NEW m \in Mgr, ManagerStep(m) PROVE Aimed'
  BY <1>6, <1>8, <1>9, ManagerFrames DEF ManagerStep, Aimed
<1>10. ASSUME NEW a \in AgentId, SupervisorCancelsAgain(a), NEW e \in Slot PROVE IsAimed(e)'
  <2>1. worker' = worker /\ down' = down
    BY <1>10, Frames
  <2>2. a \in timers /\ timers' = timers \ {a} /\ \A b \in AgentId \ {a} : agent'[b] = agent[b]
    BY <1>10, AgentMoves
  <2>3. CASE worker[e].agent = a
    BY <1>1, <2>1, <2>2, <2>3 DEF IsAimed, Scoped
  <2>4. CASE worker[e].agent # a
    BY <1>4, <2>1, <2>2, <2>4
  <2> QED BY <2>3, <2>4
<1>11. CASE RequestShutdown
  <2>1. worker' = worker /\ timers' = timers
    BY <1>11, Frames
  <2>2. down'
    BY <1>11 DEF RequestShutdown
  <2> QED BY <1>3, <2>1, <2>2 DEF Aimed
<1> QED
  BY <1>5, <1>7, <1>8, <1>9, <1>10, <1>11, Frames DEF Next, PlannerStep, vars, workers, signals, Aimed

(***************************************************************************)
(* The theorems.                                                           *)
(***************************************************************************)

\* What holds whatever the models answer.
Always == TypeOK /\ AgentsHeld /\ OneShotsApart /\ Aimed

\* What the bookkeeping rests on while the managers do not stray.
Books ==
  /\ OneAtATime /\ WorkersOfManager /\ AgentsApart /\ CacheApart
  /\ Registered /\ CacheInUse /\ TrackerNamesTheStage /\ Told

IInv == Always /\ (strayed \/ Books)

\* The runtime starts with nothing dispatched.
LEMMA InitInv == Init => IInv /\ GateInv
<1> SUFFICES ASSUME Init PROVE IInv /\ GateInv
  OBVIOUS
<1>1. \A m \in Mgr : mgr[m] = IdleManager
  BY DEF Init
<1>2. \A d \in Slot : worker[d] = IdleWorker
  BY DEF Init
<1>3. /\ \A m \in Mgr : mgr[m].phase = "idle"
      /\ \A d \in Slot : worker[d].phase = "idle" /\ worker[d].agent = None
  BY <1>1, <1>2 DEF IdleManager, IdleWorker
<1>4. cache \in [Key -> {None}] /\ running = {} /\ timers = {}
  BY DEF Init, Key
<1>5. TypeOK
  <2>1. mgr \in [Mgr -> ManagerType] /\ worker \in [Slot -> WorkerType] /\ agent \in [AgentId -> AgentType]
    BY RestTypes DEF Init
  <2> QED BY <1>4, <2>1, PlanAssumption DEF Init, TypeOK, Key, StageOrNone
<1>6. AgentsHeld /\ OneShotsApart /\ OneAtATime /\ WorkersOfManager /\ AgentsApart
  BY <1>3 DEF AgentsHeld, Holds, OneShotsApart, OneAtATime, Up, WorkersOfManager, AgentsApart
<1>7. CacheApart /\ CacheInUse
  BY <1>4 DEF CacheApart, CacheInUse
<1>8. Registered /\ TrackerNamesTheStage
  BY <1>3 DEF Registered, Up, Executing, TrackerNamesTheStage, InLoop
<1>9. Told /\ Aimed
  BY <1>3 DEF Told, IsTold, Aimed, IsAimed, Holds
<1>10. GateInv
  BY <1>3 DEF GateInv, Gated
<1> QED BY <1>5, <1>6, <1>7, <1>8, <1>9, <1>10 DEF IInv, Always, Books

\* The types and the holding of agents need no assumption on the models' answers.
LEMMA Types == Spec => [](TypeOK /\ AgentsHeld /\ GateInv)
<1>1. Init => TypeOK /\ AgentsHeld /\ GateInv
  BY InitInv DEF IInv, Always
<1>2. TypeOK /\ AgentsHeld /\ GateInv /\ [Next]_vars => (TypeOK /\ AgentsHeld /\ GateInv)'
  BY StepTypes, StepHeld, StepGate
<1> QED BY <1>1, <1>2, PTL DEF Spec

\* The stage a manager executes stays current, whatever the models answer and
\* however the calls interleave: agent-orchestrator.ts asserts it when the
\* manager is dispatched, and the planner is suspended meanwhile.
THEOREM GateHolds == Spec => []ManagerStageIsCurrent
<1>1. GateInv => ManagerStageIsCurrent
  BY DEF GateInv, Gated, ManagerStageIsCurrent, InLoop
<1> QED BY <1>1, Types, PTL

\* Every step keeps the bookkeeping, until a manager strays.
LEMMA Bookkeeping == Spec => []IInv
<1>1. ASSUME IInv, [Next]_vars PROVE IInv'
  <2>1. Always'
    BY <1>1, StepTypes, StepHeld, StepOneShots, StepAimed DEF IInv, Always
  <2>2. ASSUME ~strayed' PROVE Books'
    <3>1. Books /\ TypeOK /\ AgentsHeld
      BY <1>1, <2>2, Straying DEF IInv, Always
    <3>2. OneAtATime' /\ WorkersOfManager'
      BY <1>1, <2>2, <3>1, StepOne, StepWorkersOf DEF Books
    <3>3. AgentsApart' /\ CacheApart'
      BY <1>1, <3>1, StepApart, StepCacheApart DEF Books
    <3>4. Registered' /\ CacheInUse' /\ TrackerNamesTheStage'
      BY <1>1, <2>2, <3>1, StepRegistered, StepCacheInUse, StepTracker DEF Books
    <3>5. Told'
      BY <1>1, <3>1, StepTold DEF Books
    <3> QED BY <3>2, <3>3, <3>4, <3>5 DEF Books
  <2> QED BY <2>1, <2>2 DEF IInv
<1> QED BY <1>1, InitInv, PTL DEF Spec

\* The tracker, the registry and the cache of stage-scoped workers agree with
\* the dispatches that run, after any answers of the models, until a manager is
\* started while one is at work or names another stage than its own to a worker
\* (agent-orchestrator.ts runManager, runWorker).
THEOREM BooksAgree == Spec => []BookkeepingAgrees
<1>1. ASSUME IInv PROVE BookkeepingAgrees
  <2>1. TypeOK
    BY <1>1 DEF IInv, Always
  <2>2. ASSUME ~strayed PROVE TrackerNamesTheStage /\ RunningIsTracked /\ CacheIsOfRunningStages
    <3>1. Books
      BY <1>1, <2>2 DEF IInv
    <3>2. RunningIsTracked
      <4>1. \A d \in Slot : Executing(d) => worker[d].agent # None
        BY <1>1 DEF IInv, Always, AgentsHeld, Holds, Executing
      <4> QED BY <3>1, <4>1 DEF Books, Registered, AgentsApart, RunningIsTracked
    <3>3. CacheIsOfRunningStages
      <4>1. DOMAIN cache = Key
        BY <2>1 DEF TypeOK, Key
      <4> QED BY <3>1, <4>1 DEF Books, Registered, CacheInUse, CacheIsOfRunningStages
    <3> QED BY <3>1, <3>2, <3>3 DEF Books
  <2> QED BY <2>1, <2>2 DEF BookkeepingAgrees
<1> QED BY <1>1, Bookkeeping, PTL

\* A worker that asks the model has been told its task, also one that is used
\* again by a later dispatch (runWorker's follow-up prompt), until managers
\* have strayed into each other's conversations.
THEOREM WorkersKnowTheirTask == Spec => []PromptedForItsTask
<1>1. ASSUME IInv PROVE PromptedForItsTask
  BY <1>1 DEF IInv, Books, Told, IsTold, Holds, PromptedForItsTask
<1> QED BY <1>1, Bookkeeping, PTL

\* The supervisor's two cancellations of a one-shot worker reach the run it
\* picked and no other, whatever the models answer.
THEOREM CancelsAreAimed == Spec => []OneShotCancelIsAimed
<1>1. ASSUME IInv PROVE OneShotCancelIsAimed
  BY <1>1 DEF IInv, Always, Aimed, IsAimed, Holds, Executing, OneShotCancelIsAimed
<1> QED BY <1>1, Bookkeeping, PTL
=============================================================================
