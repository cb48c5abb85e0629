---------------------------- MODULE Orchestrator ----------------------------
(***************************************************************************)
(* The agent hierarchy of one runtime: the planner dispatches managers and *)
(* managers dispatch workers (src/src/server/agent-orchestrator.ts, with   *)
(* the loops of agents/base.ts, the batches of runtime/dispatcher.ts, the  *)
(* tracker, the supervisor and the shutdown signal).  Everything runs on   *)
(* one event loop, so a step is what runs between two awaits.              *)
(***************************************************************************)
EXTENDS PlanDocument

CONSTANTS
  Mgr,            \* manager dispatches of one planner response
  AgentId,        \* worker agents that exist at one time
  Role,           \* worker roles
  ScopedRole,     \* the stage-scoped ones: reviewer, designer, critic
  AbortPriority,  \* abortPriority of a role; managers come after all of them
  Task,           \* task ids
  TasksFor,       \* bound: the tasks that workers of a role are given
  PlannerCalls,   \* the plan tool calls the planner makes
  InitialPlan

NoCall == [tool |-> "none"]

ASSUME RolesAssumption == ScopedRole \subseteq Role
ASSUME TasksAssumption == TasksFor \in [Role -> SUBSET Task]
ASSUME PrioritiesAssumption == AbortPriority \in [Role -> Nat]
ASSUME PlanAssumption == PlannerCalls \subseteq Calls /\ InitialPlan \in Docs

\* The ids of agents are random and never those of other agents.
ASSUME IdsAssumption == Mgr \cap AgentId = {} /\ None \notin AgentId

VARIABLES
  plan,     \* the plan service's document
  late,     \* a plan call whose caller has timed out
  over,     \* has the planner's loop ended?
  mgr,      \* mgr[m]: the run_manager dispatch m of the open batch
  worker,   \* worker[<<m, r>>]: the dispatch of a worker with role r by m
  agent,    \* agent[a]: a WorkerAgent object
  cache,    \* stageWorkers
  running,  \* the ids known to the tracker and in the agent registry
  stage,    \* currentStageId of the tracker
  down,     \* requestShutdown has aborted the lifecycle signal
  frozen,   \* shutdown() has frozen the tracker
  timers,   \* the agents the supervisor will cancel a second time
  strayed   \* history: have two managers run at once, or has one named to a
            \* worker another stage than its own?

planning == <<plan, late, over>>
workers == <<worker, agent, cache>>
signals == <<down, frozen, strayed>>
vars == <<planning, mgr, workers, running, stage, signals, timers>>

Slot == Mgr \X Role
StageOrNone == StageId \cup {None}

ManagerPhases == {"idle", "gate", "lookup", "starting", "top", "asking", "working", "settling"}
WorkerPhases == {"idle", "creating", "recording", "entering", "top", "asking"}

ManagerType == [phase : ManagerPhases, stage : StageOrNone, seen : StageOrNone,
                cancelled : BOOLEAN, moved : BOOLEAN]
WorkerType == [phase : WorkerPhases, stage : StageOrNone, task : Task \cup {None},
               agent : AgentId \cup {None}, blamed : BOOLEAN, unrun : BOOLEAN]
AgentType == [used : BOOLEAN, prompt : Task \cup {None}, cancelled : BOOLEAN]

TypeOK ==
  /\ plan \in Docs /\ late \in Calls \cup {NoCall} /\ over \in BOOLEAN
  /\ mgr \in [Mgr -> ManagerType] /\ worker \in [Slot -> WorkerType]
  /\ agent \in [AgentId -> AgentType]
  /\ cache \in [StageId \X ScopedRole -> AgentId \cup {None}]
  /\ running \in SUBSET (Mgr \cup AgentId)
  /\ stage \in StageOrNone /\ timers \in SUBSET AgentId
  /\ down \in BOOLEAN /\ frozen \in BOOLEAN /\ strayed \in BOOLEAN

\* moved: history, has a late call changed the current stage since the dispatch?
IdleManager ==
  [phase |-> "idle", stage |-> None, seen |-> None, cancelled |-> FALSE, moved |-> FALSE]

\* blamed: history, has the supervisor picked this run?
\* unrun: history, was the worker cached by a dispatch that failed to start it?
IdleWorker == [phase |-> "idle", stage |-> None, task |-> None, agent |-> None,
               blamed |-> FALSE, unrun |-> FALSE]
NewAgent == [used |-> FALSE, prompt |-> None, cancelled |-> FALSE]

Init ==
  /\ plan = InitialPlan /\ late = NoCall /\ over = FALSE
  /\ mgr = [m \in Mgr |-> IdleManager]
  /\ worker = [d \in Slot |-> IdleWorker]
  /\ agent = [a \in AgentId |-> NewAgent]
  /\ cache = [key \in StageId \X ScopedRole |-> None]
  /\ running = {} /\ stage = None /\ down = FALSE /\ frozen = FALSE /\ timers = {}
  /\ strayed = FALSE

-----------------------------------------------------------------------------
(* Shared parts *)

InLoop(m) == mgr[m].phase \in {"top", "asking", "working"}
AtWork(m) == InLoop(m) \/ mgr[m].phase = "settling"
Executing(d) == worker[d].phase \in {"entering", "top", "asking"}

ManagerGoes(m, phase) == mgr' = [mgr EXCEPT ![m].phase = phase]
WorkerGoes(d, phase) == worker' = [worker EXCEPT ![d].phase = phase]

\* tracker.setCurrentStage: a frozen tracker changes nothing.
SetStage(s) == stage' = IF frozen THEN stage ELSE s

\* Ids are random; one that nothing refers to stands for a new one.
Unused(a) ==
  /\ \A key \in DOMAIN cache : cache[key] # a
  /\ \A d \in Slot : worker[d].agent # a
  /\ a \notin timers

Scoped(d) == d[2] \in ScopedRole

-----------------------------------------------------------------------------
(* The planner *)

\* The planner is suspended while a batch of its dispatches is open.
Thinking == ~over /\ \A m \in Mgr : mgr[m].phase = "idle"

Outcome(call) == IF Effect(call, plan) = Rejected THEN plan ELSE Effect(call, plan)

\* Local tools run one after the other, and writers wait for a late one.
PlannerCall(call) ==
  /\ Thinking /\ late = NoCall
  /\ plan' = Outcome(call)
  /\ over' = down
  /\ UNCHANGED <<late, mgr, workers, running, stage, signals, timers>>

\* The registry's timeout ends the planner's wait; the handler goes on.
CallTimesOut(call) ==
  /\ Thinking /\ late = NoCall
  /\ late' = call
  /\ over' = down
  /\ UNCHANGED <<plan, mgr, workers, running, stage, signals, timers>>

LateCallLands ==
  /\ late # NoCall
  /\ plan' = Outcome(late)
  /\ late' = NoCall
  /\ mgr' = [m \in Mgr |-> [mgr[m] EXCEPT !.moved =
               @ \/ (mgr[m].phase # "idle" /\ Outcome(late).current # plan.current)]]
  /\ UNCHANGED <<over, workers, running, stage, signals, timers>>

\* run_manager calls of one response start together.  A planner that is
\* cancelled in its model call still processes the response.
DispatchManagers(batch) ==
  /\ Thinking
  /\ \E m \in Mgr : batch[m] # None
  /\ mgr' = [m \in Mgr |-> IF batch[m] = None THEN IdleManager
                           ELSE [phase |-> "gate", stage |-> batch[m], seen |-> None,
                                 cancelled |-> FALSE, moved |-> FALSE]]
  /\ over' = down
  /\ UNCHANGED <<plan, late, workers, running, stage, signals, timers>>

PlannerStops ==
  /\ down /\ Thinking
  /\ over' = TRUE
  /\ UNCHANGED <<plan, late, mgr, workers, running, stage, signals, timers>>

-----------------------------------------------------------------------------
(* A manager's dispatch *)

\* assertStageDispatchable: plan_get
GateReadsPlan(m) ==
  /\ mgr[m].phase = "gate"
  /\ mgr' = [mgr EXCEPT ![m].phase = "lookup", ![m].seen = plan.current]
  /\ UNCHANGED <<planning, workers, running, stage, signals, timers>>

\* Mutation: the gate accepts any active stage.
GateAcceptsActive(m) ==
  /\ mgr[m].phase = "lookup"
  /\ mgr' = [mgr EXCEPT ![m] =
       IF mgr[m].stage \in Ids(plan.stages) THEN [@ EXCEPT !.phase = "starting"]
       ELSE IdleManager]
  /\ UNCHANGED <<planning, workers, running, stage, signals, timers>>

\* assertStageDispatchable: plan_get_stage, and the verdict
GateLooksUp(m) ==
  /\ mgr[m].phase = "lookup"
  /\ mgr' = [mgr EXCEPT ![m] =
       IF mgr[m].stage \in Ids(plan.stages) /\ mgr[m].seen = mgr[m].stage
         THEN [@ EXCEPT !.phase = "starting"]
         ELSE IdleManager]
  /\ UNCHANGED <<planning, workers, running, stage, signals, timers>>

\* markStageStarted or ManagerAgent.create throws.
ManagerNotCreated(m) ==
  /\ mgr[m].phase = "starting"
  /\ mgr' = [mgr EXCEPT ![m] = IdleManager]
  /\ UNCHANGED <<planning, workers, running, stage, signals, timers>>

\* The manager is created, tracked and registered.  onAbort cancels it at once
\* when the runtime is already shutting down.
StartManager(m) ==
  /\ mgr[m].phase = "starting"
  /\ SetStage(mgr[m].stage)
  /\ running' = running \cup {m}
  /\ mgr' = [mgr EXCEPT ![m].phase = "top", ![m].cancelled = down]
  /\ strayed' = (strayed \/ \E n \in Mgr : AtWork(n))
  /\ UNCHANGED <<planning, workers, down, frozen, timers>>

\* The top of runLoop.
ManagerLoops(m) ==
  /\ mgr[m].phase = "top"
  /\ ManagerGoes(m, IF mgr[m].cancelled THEN "settling" ELSE "asking")
  /\ UNCHANGED <<planning, workers, running, stage, signals, timers>>

\* The model answers with worker calls, one per role: enforceDispatchLimits has
\* rejected the others.  A cached worker is taken over at once.
DispatchWorkers(m, s, tasks) ==
  LET Reused(d) == IF Scoped(d) THEN cache[<<s, d[2]>>] ELSE None
      Dispatched(d) ==
        [phase |-> IF Reused(d) = None THEN "creating" ELSE "recording",
         stage |-> s, task |-> tasks[d[2]], agent |-> Reused(d), blamed |-> FALSE,
         unrun |-> Reused(d) # None /\ ~agent[Reused(d)].used]
  IN /\ mgr[m].phase = "asking" /\ ~down
     /\ \A r \in DOMAIN tasks : tasks[r] \in TasksFor[r]
     /\ ManagerGoes(m, "working")
     /\ worker' = [d \in Slot |-> IF d[1] = m /\ d[2] \in DOMAIN tasks
                                    THEN Dispatched(d) ELSE worker[d]]
     /\ IF \E r \in DOMAIN tasks : Reused(<<m, r>>) # None
          THEN SetStage(s) ELSE UNCHANGED stage
     /\ strayed' = (strayed \/ s # mgr[m].stage)
     /\ UNCHANGED <<planning, agent, cache, running, down, frozen, timers>>

\* The whole batch has returned.
BatchReturns(m) ==
  /\ mgr[m].phase = "working"
  /\ \A r \in Role : worker[<<m, r>>].phase = "idle"
  /\ ManagerGoes(m, "top")
  /\ UNCHANGED <<planning, workers, running, stage, signals, timers>>

\* The model's final answer, or an error of the loop.
ManagerEnds(m) ==
  /\ mgr[m].phase = "asking"
  /\ ManagerGoes(m, "settling")
  /\ UNCHANGED <<planning, workers, running, stage, signals, timers>>

\* Mutation: the finally block does not evict the stage.
SettleManagerKeepsCache(m) ==
  /\ mgr[m].phase = "settling"
  /\ running' = running \ {m}
  /\ SetStage(None)
  /\ mgr' = [mgr EXCEPT ![m] = IdleManager]
  /\ UNCHANGED <<planning, workers, signals, timers>>

\* The terminal summary and the event are written; the finally block runs.
SettleManager(m) ==
  /\ mgr[m].phase = "settling"
  /\ running' = running \ {m}
  /\ SetStage(None)
  /\ cache' = [key \in DOMAIN cache |-> IF key[1] = mgr[m].stage THEN None ELSE cache[key]]
  /\ mgr' = [mgr EXCEPT ![m] = IdleManager]
  /\ UNCHANGED <<planning, worker, agent, signals, timers>>

-----------------------------------------------------------------------------
(* A worker's dispatch *)

\* createWorker returns an agent that holds the task's initial message.
CreateWorker(d, a) ==
  /\ worker[d].phase = "creating" /\ Unused(a)
  /\ agent' = [agent EXCEPT ![a] = [NewAgent EXCEPT !.prompt = worker[d].task]]
  /\ cache' = IF Scoped(d) THEN [cache EXCEPT ![<<worker[d].stage, d[2]>>] = a] ELSE cache
  /\ SetStage(worker[d].stage)
  /\ worker' = [worker EXCEPT ![d].phase = "recording", ![d].agent = a]
  /\ UNCHANGED <<planning, mgr, running, signals, timers>>

\* createWorker or markTaskStarted throws: the dispatch ends, the cache stays.
WorkerNotStarted(d) ==
  /\ worker[d].phase \in {"creating", "recording"}
  /\ worker' = [worker EXCEPT ![d] = IdleWorker]
  /\ UNCHANGED <<planning, mgr, agent, cache, running, stage, signals, timers>>

\* Mutation: a reused worker is run without a follow-up message.
StartWorkerUnprompted(d) ==
  LET a == worker[d].agent
  IN /\ worker[d].phase = "recording"
     /\ running' = running \cup {a}
     /\ WorkerGoes(d, "top")
     /\ agent' = [agent EXCEPT ![a].used = TRUE, ![a].cancelled = @ \/ down]
     /\ UNCHANGED <<planning, mgr, cache, stage, signals, timers>>

\* Mutation: onAbort does not call a listener that comes after the abort.
StartWorkerUnaware(d) ==
  LET a == worker[d].agent
  IN /\ worker[d].phase = "recording"
     /\ running' = running \cup {a}
     /\ WorkerGoes(d, IF agent[a].used THEN "entering" ELSE "top")
     /\ agent' = [agent EXCEPT ![a].used = TRUE]
     /\ UNCHANGED <<planning, mgr, cache, stage, signals, timers>>

\* markTaskStarted returns: the agent is tracked and registered, cancelled if
\* the runtime is shutting down, and run.  Only an agent that has run before
\* goes through the follow-up prompt.
StartWorker(d) ==
  LET a == worker[d].agent
  IN /\ worker[d].phase = "recording"
     /\ running' = running \cup {a}
     /\ WorkerGoes(d, IF agent[a].used THEN "entering" ELSE "top")
     /\ agent' = [agent EXCEPT ![a].used = TRUE, ![a].cancelled = @ \/ down]
     /\ UNCHANGED <<planning, mgr, cache, stage, signals, timers>>

\* The follow-up message is injected.
Prompt(d) ==
  /\ worker[d].phase = "entering"
  /\ agent' = [agent EXCEPT ![worker[d].agent].prompt = worker[d].task]
  /\ WorkerGoes(d, "top")
  /\ UNCHANGED <<planning, mgr, cache, running, stage, signals, timers>>

\* What `run` does once the loop has ended: a failed or aborted stage-scoped
\* worker is evicted, and the agent is untracked and unregistered.
EndRun(d, good) ==
  /\ worker' = [worker EXCEPT ![d] = IdleWorker]
  /\ cache' = IF Scoped(d) /\ ~good THEN [cache EXCEPT ![<<worker[d].stage, d[2]>>] = None]
              ELSE cache
  /\ running' = running \ {worker[d].agent}
  /\ UNCHANGED <<planning, mgr, agent, stage, signals, timers>>

\* The top of runLoop: a cancelled agent ends, and so does one whose activity
\* the tracker does not recognise.
WorkerLoops(d) ==
  LET a == worker[d].agent
      Stops == agent[a].cancelled \/ (a \notin running /\ ~frozen)
  IN /\ worker[d].phase = "top"
     /\ \/ Stops /\ EndRun(d, FALSE)
        \/ /\ ~Stops
           /\ WorkerGoes(d, "asking")
           /\ UNCHANGED <<planning, mgr, agent, cache, running, stage, signals, timers>>

\* The model answers: with tool calls, with a final answer that stands, or not.
WorkerAnswers(d) ==
  /\ worker[d].phase = "asking"
  /\ \/ /\ WorkerGoes(d, "top")
        /\ UNCHANGED <<planning, mgr, agent, cache, running, stage, signals, timers>>
     \/ \E good \in BOOLEAN : EndRun(d, good)

-----------------------------------------------------------------------------
(* Those who cancel *)

\* RuntimeSupervisor.checkOnce at its threshold: the registered agent with the
\* smallest priority is cancelled, and once more after forceCancelDelayMs.
SupervisorAbortsWorker(d) ==
  /\ Executing(d) /\ worker[d].agent \in running
  /\ \A e \in Slot : Executing(e) => AbortPriority[d[2]] <= AbortPriority[e[2]]
  /\ agent' = [agent EXCEPT ![worker[d].agent].cancelled = TRUE]
  /\ worker' = [worker EXCEPT ![d].blamed = TRUE]
  /\ timers' = timers \cup {worker[d].agent}
  /\ UNCHANGED <<planning, mgr, cache, running, stage, signals>>

\* Second cancellations of a manager change nothing: its id is never reused.
SupervisorAbortsManager(m) ==
  /\ m \in running /\ running \cap AgentId = {}
  /\ mgr' = [mgr EXCEPT ![m].cancelled = TRUE]
  /\ UNCHANGED <<planning, workers, running, stage, signals, timers>>

\* Mutation: the timer cancels whatever worker is registered when it fires.
SupervisorCancelsAnyone(a) ==
  /\ a \in timers
  /\ timers' = timers \ {a}
  /\ agent' = [b \in AgentId |-> [agent[b] EXCEPT !.cancelled = @ \/ b \in running]]
  /\ UNCHANGED <<planning, mgr, worker, cache, running, stage, signals>>

SupervisorCancelsAgain(a) ==
  /\ a \in timers
  /\ timers' = timers \ {a}
  /\ agent' = [agent EXCEPT ![a].cancelled = @ \/ a \in running]
  /\ UNCHANGED <<planning, mgr, worker, cache, running, stage, signals>>

\* requestShutdown calls the listener of every run.
RequestShutdown ==
  /\ ~down
  /\ down' = TRUE
  /\ mgr' = [m \in Mgr |-> [mgr[m] EXCEPT !.cancelled = @ \/ m \in running]]
  /\ agent' = [a \in AgentId |-> [agent[a] EXCEPT !.cancelled = @ \/
                 \E d \in Slot : Executing(d) /\ worker[d].agent = a]]
  /\ UNCHANGED <<planning, worker, cache, running, stage, frozen, timers, strayed>>

\* shutdown() freezes the tracker, when the planner has ended or 30 s later.
Freeze ==
  /\ down /\ ~frozen
  /\ frozen' = TRUE
  /\ UNCHANGED <<planning, mgr, workers, running, stage, down, timers, strayed>>

-----------------------------------------------------------------------------
PlannerStep ==
  \/ \E call \in PlannerCalls : PlannerCall(call) \/ CallTimesOut(call)
  \/ \E batch \in [Mgr -> StageOrNone] : DispatchManagers(batch)

ManagerStep(m) ==
  \/ GateReadsPlan(m) \/ GateLooksUp(m) \/ ManagerNotCreated(m) \/ StartManager(m)
  \/ ManagerLoops(m) \/ BatchReturns(m) \/ ManagerEnds(m) \/ SettleManager(m)
  \/ \E s \in StageId, roles \in SUBSET Role \ {{}} :
       \E tasks \in [roles -> Task] : DispatchWorkers(m, s, tasks)

WorkerStep(d) ==
  \/ (\E a \in AgentId : CreateWorker(d, a)) \/ WorkerNotStarted(d)
  \/ StartWorker(d) \/ Prompt(d) \/ WorkerLoops(d) \/ WorkerAnswers(d)

Next ==
  \/ PlannerStep \/ PlannerStops \/ LateCallLands
  \/ \E m \in Mgr : ManagerStep(m) \/ SupervisorAbortsManager(m)
  \/ \E d \in Slot : WorkerStep(d) \/ SupervisorAbortsWorker(d)
  \/ \E a \in AgentId : SupervisorCancelsAgain(a)
  \/ RequestShutdown \/ Freeze

\* What the event loop runs of its own accord.
Progress ==
  \/ PlannerStops
  \/ \E m \in Mgr : ManagerStep(m)
  \/ \E d \in Slot : WorkerStep(d)

\* Awaited operations complete, file writes and model calls: the loop does not
\* stand still while some dispatch can go on.
Fairness == WF_vars(Progress)

Spec == Init /\ [][Next]_vars /\ Fairness

-----------------------------------------------------------------------------
(* Properties *)

\* The stage a manager executes stays the plan's current one, the one the
\* gate let it in for, until the manager has settled, unless a plan call that
\* had outlived its caller lands meanwhile.
ManagerStageIsCurrent ==
  \A m \in Mgr : InLoop(m) /\ ~mgr[m].moved => plan.current = mgr[m].stage

\* What the dashboard and crash recovery know as the current stage is the
\* stage of the manager that is running.
TrackerNamesTheStage == \A m \in Mgr : InLoop(m) /\ ~frozen => stage = mgr[m].stage

\* No two dispatches drive the same worker agent, and the agent of each is
\* known to the tracker, which otherwise fails its next model call.
RunningIsTracked ==
  \A d \in Slot : Executing(d) =>
    /\ worker[d].agent \in running
    /\ \A e \in Slot : Executing(e) /\ worker[e].agent = worker[d].agent => e = d

\* A stage-scoped conversation lives no longer than its stage: a worker is
\* cached only under the stage of a manager that is running.
CacheIsOfRunningStages ==
  \A key \in DOMAIN cache : cache[key] # None =>
    \E m \in Mgr : m \in running /\ mgr[m].stage = key[1]

\* The tracker, the registry and the cache agree with the dispatches that run,
\* until two managers run at once or one names another stage to a worker: the
\* prompts ask for neither, and nothing in the code prevents it (dispatcher.ts).
BookkeepingAgrees ==
  TypeOK /\ (strayed \/ (TrackerNamesTheStage /\ RunningIsTracked /\ CacheIsOfRunningStages))

\* A worker that asks the model has been told the task it runs, one that is
\* used again too, unless its first dispatch failed to start it, or managers
\* that ran at once, or named each other's stages, may share its conversation.
PromptedForItsTask ==
  \A d \in Slot : worker[d].phase \in {"top", "asking"} /\ ~worker[d].unrun /\ ~strayed =>
    agent[worker[d].agent].prompt = worker[d].task

\* Whatever fails around it, nothing but the supervisor's choice of this run
\* cancels a one-shot worker while the runtime is up.
OneShotCancelIsAimed ==
  \A d \in Slot : Executing(d) /\ ~Scoped(d) /\ agent[worker[d].agent].cancelled =>
    worker[d].blamed \/ down

\* Once shutdown is requested every dispatch ends, also one that was being
\* gated, created or recorded when the listeners were called.
ShutdownEndsRuns ==
  down ~> (over /\ \A m \in Mgr : mgr[m].phase = "idle")
=============================================================================
