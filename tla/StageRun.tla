------------------------------ MODULE StageRun ------------------------------
(***************************************************************************)
(* What a stage leaves on disk (src/src/store/stage-run-store.ts): its     *)
(* task list, task reports and summary, and the project's event log, all   *)
(* written through one queue of the store; and what recovery makes of them *)
(* after a crash (recoverFromCrash, src/src/runtime/recovery.ts).  A       *)
(* report is "done" when it says completed and lists commits, "bare" when  *)
(* it says completed and lists none.                                       *)
(***************************************************************************)
EXTENDS Sequences, Naturals, FiniteSets

CONSTANTS
  Stage, Task,
  None,      \* no stage, no document
  Result,    \* the results a stage may end with
  MayFail,   \* may a write of a document or of an event fail?
  MayTear,   \* may a kill leave part of an event in the log?
  MaxQueue   \* bound on the writes that wait in the store's queue

Status == {"pending", "in-progress", "completed", "failed", "aborted"}
Interrupted == {"in-progress", "aborted"}
Open == {"pending"} \cup Interrupted
TaskLists == [Task -> Status]
ReportKinds == {"done", "bare", "failed"}

Events ==
  [type : {"stage_started", "tasks_written", "stage_summary_written", "stage_completed",
           "knowledge_archived"}, stage : Stage]
    \cup [type : {"task_report_written"}, stage : Stage, task : Task]

ASSUME NoneAssumption == None \notin Stage \cup TaskLists \cup ReportKinds \cup Result

\* What follows the last line feed of the log: nothing, part of an event, or an
\* event.
Empty == [type |-> "empty"]
Torn == [type |-> "torn"]

VARIABLES
  tasks, reports, summary, \* tasks.json, reports/*.json, summary.json of each stage
  result,   \* the result with which plan.json's history lists each stage
  events,   \* the whole lines of events.jsonl
  tail,     \* what follows its last line feed
  garbled,  \* is there a whole line that is no event?
  runtime,  \* runtime.json: its status and stage
  queue,    \* writeQueue, the running operation first
  manager,  \* the stage a manager works on
  proc      \* where the process is

documents == <<tasks, reports, summary>>
log == <<events, tail, garbled>>
vars == <<documents, result, log, runtime, queue, manager, proc>>

Nothing == [kind |-> "nothing"]
Documents ==
  {Nothing}
    \cup [kind : {"tasks"}, stage : Stage, content : TaskLists]
    \cup [kind : {"report"}, stage : Stage, task : Task, content : ReportKinds]
    \cup [kind : {"summary"}, stage : Stage, content : Result]

\* An operation writes a document, if any, and then appends its events.
Operations == [document : Documents, events : Seq(Events)]

NoManager == [stage |-> None, at |-> "none"]

TypeOK ==
  /\ tasks \in [Stage -> TaskLists \cup {None}]
  /\ reports \in [Stage -> [Task -> ReportKinds \cup {None}]]
  /\ summary \in [Stage -> Result \cup {None}]
  /\ result \in [Stage -> Result \cup {None}]
  /\ events \in SUBSET Events
  /\ tail \in {Empty, Torn} \cup Events /\ garbled \in BOOLEAN
  /\ runtime \in [status : {"missing", "running", "idle", "error"}, stage : Stage \cup {None}]
  /\ queue \in Seq(Operations)
  /\ manager \in {NoManager} \cup [stage : Stage, at : {"recording", "working", "settling"}]
  /\ proc \in {"down", "recovered", "up"}

Init ==
  /\ tasks = [s \in Stage |-> None]
  /\ reports = [s \in Stage |-> [t \in Task |-> None]]
  /\ summary = [s \in Stage |-> None] /\ result = [s \in Stage |-> None]
  /\ events = {} /\ tail = Empty /\ garbled = FALSE
  /\ runtime = [status |-> "missing", stage |-> None]
  /\ queue = <<>> /\ manager = NoManager
  /\ proc = "down"

-----------------------------------------------------------------------------
(* The queue of the store *)

Enqueue(document, evs) ==
  /\ proc = "up" /\ Len(queue) < MaxQueue
  /\ queue' = Append(queue, [document |-> document, events |-> evs])

\* Mutation: the events of an operation precede its document.
MayAppendFirst(op) == TRUE

\* An event is appended once the document has been renamed into place.
MayAppend(op) == op.document = Nothing

\* writeDoc of the first operation.
WriteDocument ==
  /\ queue # <<>>
  /\ LET d == Head(queue).document
     IN /\ d # Nothing
        /\ tasks' = IF d.kind = "tasks" THEN [tasks EXCEPT ![d.stage] = d.content] ELSE tasks
        /\ reports' = IF d.kind = "report"
                        THEN [reports EXCEPT ![d.stage][d.task] = d.content] ELSE reports
        /\ summary' = IF d.kind = "summary"
                        THEN [summary EXCEPT ![d.stage] = d.content] ELSE summary
  /\ queue' = [queue EXCEPT ![1].document = Nothing]
  /\ UNCHANGED <<result, log, runtime, manager, proc>>

\* appendEvent: what a kill has left without a line feed becomes part of the line.
AppendEvent ==
  /\ queue # <<>> /\ MayAppend(Head(queue))
  /\ IF tail = Empty THEN events' = events \cup {Head(Head(queue).events)} /\ UNCHANGED garbled
                       ELSE garbled' = TRUE /\ UNCHANGED events
  /\ tail' = Empty
  /\ queue' = IF Len(Head(queue).events) = 1 THEN Tail(queue)
              ELSE [queue EXCEPT ![1].events = Tail(@)]
  /\ UNCHANGED <<documents, result, runtime, manager, proc>>

StageStarted(s) == [type |-> "stage_started", stage |-> s]

\* A failing write ends its operation and not the ones behind it; a manager whose
\* start cannot be recorded does not start.
WriteFails ==
  /\ MayFail /\ queue # <<>>
  /\ queue' = Tail(queue)
  /\ manager' = IF \E s \in Stage : Head(queue).events = <<StageStarted(s)>>
                  THEN NoManager ELSE manager
  /\ UNCHANGED <<documents, result, log, runtime, proc>>

-----------------------------------------------------------------------------
(* The agents *)

\* run_manager on a stage of the plan first has the start recorded.
RecordStart(s) ==
  /\ manager = NoManager /\ result[s] = None
  /\ Enqueue(Nothing, <<StageStarted(s)>>)
  /\ manager' = [stage |-> s, at |-> "recording"]
  /\ UNCHANGED <<documents, result, log, runtime, proc>>

\* The tracker and its file name the stage (module Runtime has the delay between
\* the two), unless creating the manager fails.
StartManager ==
  /\ manager.at = "recording"
  /\ \A i \in DOMAIN queue : queue[i].events # <<StageStarted(manager.stage)>>
  /\ \/ /\ manager' = [manager EXCEPT !.at = "working"]
        /\ runtime' = [status |-> "running", stage |-> manager.stage]
     \/ MayFail /\ manager' = NoManager /\ UNCHANGED runtime
  /\ UNCHANGED <<documents, result, log, queue, proc>>

Working(s) == manager = [stage |-> s, at |-> "working"]

\* stage_write_tasks: the manager replaces the list, with any statuses.
WriteTaskList(s, list) ==
  /\ Working(s)
  /\ Enqueue([kind |-> "tasks", stage |-> s, content |-> list],
             <<[type |-> "tasks_written", stage |-> s]>>)
  /\ UNCHANGED <<documents, result, log, runtime, manager, proc>>

\* task_write_report by a worker of the manager
WriteTaskReport(s, t, kind) ==
  /\ Working(s)
  /\ Enqueue([kind |-> "report", stage |-> s, task |-> t, content |-> kind],
             <<[type |-> "task_report_written", stage |-> s, task |-> t]>>)
  /\ UNCHANGED <<documents, result, log, runtime, manager, proc>>

SummaryOf(s, r) == [kind |-> "summary", stage |-> s, content |-> r]
SummaryEvent(s) == [type |-> "stage_summary_written", stage |-> s]

\* stage_write_summary
WriteStageSummary(s, r) ==
  /\ Working(s)
  /\ Enqueue(SummaryOf(s, r), <<SummaryEvent(s)>>)
  /\ UNCHANGED <<documents, result, log, runtime, manager, proc>>

\* The manager ends with the summary it has written.
ManagerEnds(s) ==
  /\ Working(s) /\ summary[s] # None
  /\ manager' = NoManager
  /\ runtime' = [status |-> "running", stage |-> None]
  /\ UNCHANGED <<documents, result, log, queue, proc>>

\* The manager fails or is aborted: a summary of its own making is awaited.
ManagerAborts(s, r) ==
  /\ Working(s)
  /\ Enqueue(SummaryOf(s, r), <<SummaryEvent(s)>>)
  /\ manager' = [manager EXCEPT !.at = "settling"]
  /\ UNCHANGED <<documents, result, log, runtime, proc>>

ManagerSettles ==
  /\ manager.at = "settling"
  /\ \A i \in DOMAIN queue : queue[i].events # <<SummaryEvent(manager.stage)>>
  /\ manager' = NoManager
  /\ runtime' = [status |-> "running", stage |-> None]
  /\ UNCHANGED <<documents, result, log, queue, proc>>

\* plan_complete_stage: plan.json is written and the completion enqueued.
CompleteStage(s, r) ==
  /\ manager = NoManager /\ result[s] = None
  /\ result' = [result EXCEPT ![s] = r]
  /\ Enqueue(Nothing, <<[type |-> "stage_completed", stage |-> s],
                        [type |-> "knowledge_archived", stage |-> s]>>)
  /\ UNCHANGED <<documents, log, runtime, manager, proc>>

-----------------------------------------------------------------------------
(* Ends and recovery *)

\* The process is gone; an append in progress may have left part of an event,
\* at most all but the line feed.
Gone ==
  /\ proc' = "down" /\ queue' = <<>> /\ manager' = NoManager
  /\ \/ UNCHANGED tail
     \/ /\ MayTear /\ queue # <<>> /\ MayAppend(Head(queue))
        /\ tail' \in IF tail = Empty THEN {Torn, Head(Head(queue).events)} ELSE {Torn}
  /\ UNCHANGED <<documents, result, events, garbled>>

Crash == proc # "down" /\ Gone /\ UNCHANGED runtime

\* shutdown() or the fatal handler writes a state without a stage.
Stop ==
  /\ proc = "up"
  /\ Gone
  /\ \E status \in {"idle", "error"} : runtime' = [status |-> status, stage |-> None]

\* Mutation: interrupted tasks are reset before their reports are looked at.
ReconciledBlindly(status, report) ==
  IF status \in Interrupted THEN "pending" ELSE status

\* What recovery makes of a task.
Reconciled(status, report) ==
  IF status \in Open /\ report = "done" THEN "completed"
  ELSE IF status \in Open /\ report # None THEN "failed"
  ELSE IF status \in Interrupted THEN "pending"
  ELSE status

ReconciledList(s) == [t \in Task |-> Reconciled(tasks[s][t], reports[s][t])]

\* A manager was at work on this stage and has left no summary.
Interruption(s) == runtime.stage = s /\ summary[s] = None /\ tasks[s] # None

\* recoverFromCrash reconciles the stage that runtime.json names, unless that
\* stage has a summary already.
Recover ==
  /\ proc = "down"
  /\ proc' = "recovered"
  /\ IF \E s \in Stage : Interruption(s)
       THEN tasks' = [tasks EXCEPT ![runtime.stage] = ReconciledList(runtime.stage)]
       ELSE UNCHANGED tasks
  /\ UNCHANGED <<reports, summary, result, log, runtime, queue, manager>>

\* The initial runtime state is written.
Start ==
  /\ proc = "recovered"
  /\ proc' = "up"
  /\ runtime' = [status |-> "running", stage |-> None]
  /\ UNCHANGED <<documents, result, log, queue, manager>>

Next ==
  \/ WriteDocument \/ AppendEvent \/ WriteFails
  \/ StartManager \/ ManagerSettles \/ Crash \/ Stop \/ Recover \/ Start
  \/ \E s \in Stage :
       \/ RecordStart(s) \/ ManagerEnds(s)
       \/ \E list \in TaskLists : WriteTaskList(s, list)
       \/ \E t \in Task, kind \in ReportKinds : WriteTaskReport(s, t, kind)
       \/ \E r \in Result :
            WriteStageSummary(s, r) \/ ManagerAborts(s, r) \/ CompleteStage(s, r)

Spec == Init /\ [][Next]_vars

-----------------------------------------------------------------------------
(* Properties *)

\* The events a reader of the log is given.
ReadEvents == events \cup ({tail} \cap Events)

Backed(e) ==
  CASE e.type = "tasks_written"         -> tasks[e.stage] # None
    [] e.type = "task_report_written"   -> reports[e.stage][e.task] # None
    [] e.type = "stage_summary_written" -> summary[e.stage] # None
    [] e.type \in {"stage_completed", "knowledge_archived"} -> result[e.stage] # None
    [] OTHER                            -> TRUE

\* The log tells of nothing that is not on disk: tasks, reports and summaries
\* are there before their events, a completion is in plan.json before its own,
\* whatever write fails and wherever a kill falls.
EventsFollowDocuments == \A e \in ReadEvents : Backed(e)

\* When a planner starts after a crash, an interrupted stage has no task under
\* way and none to be done again that has been reported, whatever writes were
\* lost and also when the recovery itself or the boot after it had crashed.
RecoveryFollowsReports ==
  proc = "recovered" =>
    \A s \in Stage : Interruption(s) =>
      \A t \in Task :
        /\ tasks[s][t] \notin Interrupted
        /\ tasks[s][t] = "pending" => reports[s][t] = None

\* docs/internals/runtime/abort-recovery.md:75: after any end that has not left
\* the status idle, recovery resets the tasks in progress "for every active
\* stage".  The code breaks it, by the fatal handler (Stop): no run claims it.
NothingLeftInProgress ==
  proc = "recovered" /\ runtime.status # "idle" =>
    \A s \in Stage, t \in Task :
      result[s] = None /\ summary[s] = None /\ tasks[s] # None
        => tasks[s][t] # "in-progress"
=============================================================================
