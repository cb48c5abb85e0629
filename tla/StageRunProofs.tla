--------------------------- MODULE StageRunProofs ---------------------------
(* The honesty of the event log, for any stages, tasks and length of the     *)
(* queue.                                                                    *)
EXTENDS StageRun, SequenceTheorems, TLAPS

\* Writing this document makes this event true.
Announces(document, e) ==
  /\ document # Nothing /\ e.stage = document.stage
  /\ \/ document.kind = "tasks" /\ e.type = "tasks_written"
     \/ document.kind = "report" /\ e.type = "task_report_written" /\ e.task = document.task
     \/ document.kind = "summary" /\ e.type = "stage_summary_written"

\* The events that tell of what is on disk.
TrueEvents == {e \in Events : Backed(e)}

\* The operations whose events are true or announced by their document.
Honest ==
  {op \in Operations :
     /\ op.events # <<>>
     /\ \A k \in DOMAIN op.events :
          op.events[k] \in TrueEvents \/ Announces(op.document, op.events[k])}

Disk ==
  /\ tasks \in [Stage -> TaskLists \cup {None}]
  /\ reports \in [Stage -> [Task -> ReportKinds \cup {None}]]
  /\ summary \in [Stage -> Result \cup {None}]
  /\ result \in [Stage -> Result \cup {None}]

LogInv ==
  /\ Disk
  /\ queue \in Seq(Honest)
  /\ events \in SUBSET TrueEvents
  /\ tail \in {Empty, Torn} \cup TrueEvents

\* Nothing is written, so nothing is told.
LEMMA InitLogInv == Init => LogInv
BY EmptySeq DEF Init, LogInv, Disk

(***************************************************************************)
(* What is on disk stays there, so what is true of an event stays true.    *)
(***************************************************************************)

\* No document and no completion disappears in this step.
Keeps ==
  /\ \A s \in Stage : tasks[s] # None => tasks'[s] # None
  /\ \A s \in Stage, t \in Task : reports[s][t] # None => reports'[s][t] # None
  /\ \A s \in Stage : summary[s] # None => summary'[s] # None
  /\ \A s \in Stage : result[s] # None => result'[s] # None

\* The parts of an event.
LEMMA EventParts ==
  ASSUME NEW e \in Events
  PROVE  /\ e.stage \in Stage
         /\ e.type = "task_report_written" => e.task \in Task
BY DEF Events

\* What is true stays true, in the log as in the queue.
LEMMA TruthStays ==
  ASSUME Keeps
  PROVE  TrueEvents \subseteq TrueEvents' /\ Honest \subseteq Honest'
<1>1. ASSUME NEW e \in Events, Backed(e) PROVE Backed(e)'
  BY <1>1, EventParts DEF Keeps, Backed
<1>2. TrueEvents \subseteq TrueEvents'
  BY <1>1 DEF TrueEvents
<1>3. Honest \subseteq Honest'
  BY <1>2 DEF Honest
<1> QED BY <1>2, <1>3

\* A sequence over a set is one over a larger set.
LEMMA SeqMonotone ==
  ASSUME NEW S, NEW T, S \subseteq T, NEW s \in Seq(S)
  PROVE  s \in Seq(T)
OBVIOUS

\* A step that keeps documents, queue and log keeps the invariant.
LEMMA IdleKeeps ==
  ASSUME LogInv, Keeps, Disk', UNCHANGED <<queue, events, tail>>
  PROVE  LogInv'
BY TruthStays, SeqMonotone DEF LogInv

\* So does one that enqueues an honest operation.
LEMMA EnqueueKeeps ==
  ASSUME LogInv, Keeps, Disk', UNCHANGED <<events, tail>>,
         NEW d \in Documents, NEW evs \in Seq(Events), Enqueue(d, evs), evs # <<>>,
         \A k \in DOMAIN evs : evs[k] \in TrueEvents' \/ Announces(d, evs[k])
  PROVE  LogInv'
<1> DEFINE op == [document |-> d, events |-> evs]
<1>1. op \in Operations /\ op.events = evs /\ op.document = d
  BY DEF Operations
<1>2. op \in Honest'
  BY <1>1 DEF Honest
<1>3. queue \in Seq(Honest')
  BY TruthStays, SeqMonotone DEF LogInv
<1>4. queue' \in Seq(Honest')
  BY <1>2, <1>3, AppendProperties DEF Enqueue
<1> QED BY <1>4, TruthStays DEF LogInv

\* And one that drops the first operation.
LEMMA DropKeeps ==
  ASSUME LogInv, UNCHANGED <<documents, result, events, tail>>, queue # <<>>,
         queue' = Tail(queue)
  PROVE  LogInv'
<1>1. Keeps /\ Disk'
  BY DEF Keeps, Disk, LogInv, documents
<1>2. queue' \in Seq(Honest)
  BY HeadTailProperties DEF LogInv
<1> QED BY <1>1, <1>2, TruthStays, SeqMonotone DEF LogInv

(***************************************************************************)
(* The steps of the queue.                                                 *)
(***************************************************************************)

\* A document on its way has its parts.
LEMMA DocumentParts ==
  ASSUME NEW d \in Documents, d # Nothing
  PROVE  /\ d.stage \in Stage
         /\ d.kind \in {"tasks", "report", "summary"}
         /\ d.kind = "tasks" => d.content \in TaskLists
         /\ d.kind = "report" => d.content \in ReportKinds /\ d.task \in Task
         /\ d.kind = "summary" => d.content \in Result
BY DEF Documents

\* Writing the document makes the events of its operation true.
LEMMA WriteKeeps == LogInv /\ WriteDocument => LogInv'
<1> SUFFICES ASSUME LogInv, WriteDocument PROVE LogInv'
  OBVIOUS
<1> DEFINE op == Head(queue)
<1> DEFINE d == op.document
<1>1. op \in Honest /\ op \in Operations /\ op = queue[1] /\ 1 \in DOMAIN queue
  BY HeadTailProperties DEF LogInv, WriteDocument, Honest
<1>2. d \in Documents /\ d # Nothing /\ op.events \in Seq(Events)
  BY <1>1 DEF Operations, WriteDocument
<1>3. Keeps /\ Disk'
  <2>1. CASE d.kind = "tasks"
    BY <1>2, <2>1, DocumentParts, NoneAssumption DEF WriteDocument, Keeps, Disk, LogInv
  <2>2. CASE d.kind = "report"
    BY <1>2, <2>2, DocumentParts, NoneAssumption DEF WriteDocument, Keeps, Disk, LogInv
  <2>3. CASE d.kind = "summary"
    BY <1>2, <2>3, DocumentParts, NoneAssumption DEF WriteDocument, Keeps, Disk, LogInv
  <2> QED BY <1>2, <2>1, <2>2, <2>3, DocumentParts
<1>4. ASSUME NEW e \in Events, Announces(d, e) PROVE e \in TrueEvents'
  <2> USE <1>2, <1>4, DocumentParts, EventParts, NoneAssumption
      DEF WriteDocument, Announces, TrueEvents, Backed, LogInv, Disk
  <2>1. CASE d.kind = "tasks"
    BY <2>1
  <2>2. CASE d.kind = "report"
    BY <2>2
  <2>3. CASE d.kind = "summary"
    BY <2>3
  <2> QED BY <2>1, <2>2, <2>3
<1>5. [op EXCEPT !.document = Nothing] \in Honest'
  <2>1. [op EXCEPT !.document = Nothing] \in Operations
    BY <1>1 DEF Operations, Documents
  <2>2. \A k \in DOMAIN op.events : op.events[k] \in TrueEvents'
    BY <1>1, <1>2, <1>3, <1>4, TruthStays DEF Honest
  <2> QED BY <1>1, <2>1, <2>2 DEF Honest, Operations
<1>6. queue' \in Seq(Honest')
  <2>1. queue \in Seq(Honest')
    BY <1>3, TruthStays, SeqMonotone DEF LogInv
  <2>2. queue' = [queue EXCEPT ![1] = [op EXCEPT !.document = Nothing]]
    BY <1>1 DEF WriteDocument
  <2> QED BY <1>1, <1>5, <2>1, <2>2
<1> QED BY <1>3, <1>6, TruthStays DEF LogInv, WriteDocument, log

\* An operation without a document on its way has only true events.
LEMMA ReadyIsTrue ==
  ASSUME LogInv, queue # <<>>, MayAppend(Head(queue))
  PROVE  /\ Head(queue).events \in Seq(TrueEvents) /\ Head(queue).events # <<>>
         /\ Head(Head(queue).events) \in TrueEvents
<1> DEFINE op == Head(queue)
<1>1. op \in Honest
  BY HeadTailProperties DEF LogInv
<1>2. op.events \in Seq(Events) /\ op.events # <<>> /\ op.document = Nothing
  BY <1>1 DEF Honest, Operations, MayAppend
<1>3. \A k \in DOMAIN op.events : op.events[k] \in TrueEvents
  BY <1>1, <1>2 DEF Honest, Announces
<1>4. op.events \in Seq(TrueEvents)
  BY <1>2, <1>3
<1> QED BY <1>2, <1>4, HeadTailProperties

\* The event that reaches the log is true, and so are those left in the queue.
LEMMA AppendKeeps == LogInv /\ AppendEvent => LogInv'
<1> SUFFICES ASSUME LogInv, AppendEvent PROVE LogInv'
  OBVIOUS
<1> DEFINE op == Head(queue)
<1> DEFINE rest == [op EXCEPT !.events = Tail(op.events)]
<1>1. /\ op \in Honest /\ op = queue[1] /\ 1 \in DOMAIN queue
      /\ queue \in Seq(Honest) /\ Tail(queue) \in Seq(Honest)
  BY HeadTailProperties DEF LogInv, AppendEvent
<1>2. /\ op.events \in Seq(TrueEvents) /\ op.events # <<>>
      /\ Head(op.events) \in TrueEvents
  BY ReadyIsTrue DEF AppendEvent
<1>3. Keeps /\ Disk'
  BY DEF AppendEvent, documents, Keeps, Disk, LogInv
<1>4. queue' \in Seq(Honest)
  <2>1. CASE Len(op.events) = 1
    BY <1>1, <2>1 DEF AppendEvent
  <2>2. CASE Len(op.events) # 1
    <3>1. Tail(op.events) \in Seq(TrueEvents) /\ Tail(op.events) # <<>>
      <4>1. Tail(op.events) \in Seq(TrueEvents) /\ Len(Tail(op.events)) = Len(op.events) - 1
        BY <1>2, HeadTailProperties
      <4>2. Len(op.events) \in Nat /\ Len(op.events) # 0
        BY <1>2, EmptySeq
      <4>3. Len(Tail(op.events)) # 0
        BY <2>2, <4>1, <4>2
      <4>4. Len(<<>>) = 0
        OBVIOUS
      <4>5. Tail(op.events) # <<>>
        BY <4>3, <4>4, Zenon
      <4> QED BY <4>1, <4>5
    <3>2. rest \in Operations
      BY <1>1, <3>1, SeqMonotone DEF Honest, Operations, TrueEvents
    <3>3. rest.events = Tail(op.events)
      BY <1>1 DEF Honest, Operations
    <3>4. rest \in Honest
      <4>1. \A k \in DOMAIN rest.events : rest.events[k] \in TrueEvents
        BY <3>1, <3>3
      <4> HIDE DEF rest
      <4> QED BY <3>1, <3>2, <3>3, <4>1 DEF Honest
    <3>5. queue' = [queue EXCEPT ![1] = rest]
      BY <1>1, <2>2 DEF AppendEvent
    <3> QED BY <1>1, <3>4, <3>5
  <2> QED BY <2>1, <2>2
<1>5. events' \in SUBSET TrueEvents /\ tail' = Empty
  BY <1>2 DEF AppendEvent, LogInv
<1> QED BY <1>3, <1>4, <1>5, TruthStays, SeqMonotone DEF LogInv

\* A kill leaves at most the event that was being appended.
LEMMA GoneKeeps == LogInv /\ Gone => LogInv'
<1> SUFFICES ASSUME LogInv, Gone PROVE LogInv'
  OBVIOUS
<1>1. Keeps /\ Disk'
  BY DEF Gone, documents, Keeps, Disk, LogInv
<1>2. tail' \in {Empty, Torn} \cup TrueEvents
  BY ReadyIsTrue DEF Gone, LogInv
<1>3. queue' \in Seq(Honest')
  BY EmptySeq DEF Gone
<1> QED BY <1>1, <1>2, <1>3, TruthStays DEF Gone, LogInv

(***************************************************************************)
(* The steps of the agents and of the recovery.                            *)
(***************************************************************************)

\* The start of a stage is recorded by an operation without a document.
LEMMA EnqueueStart ==
  ASSUME LogInv, NEW s \in Stage, RecordStart(s)
  PROVE  LogInv'
<1> DEFINE evs == <<StageStarted(s)>>
<1>1. Keeps /\ Disk' /\ UNCHANGED <<events, tail>>
  BY DEF RecordStart, documents, log, Keeps, Disk, LogInv
<1>2. StageStarted(s) \in Events /\ Nothing \in Documents
  BY DEF StageStarted, Events, Documents
<1>3. StageStarted(s) \in TrueEvents'
  BY <1>2 DEF StageStarted, TrueEvents, Backed
<1>4. evs \in Seq(Events) /\ evs # <<>> /\ \A k \in DOMAIN evs : evs[k] \in TrueEvents'
  BY <1>2, <1>3
<1>5. Enqueue(Nothing, evs)
  BY DEF RecordStart
<1> HIDE DEF evs
<1> QED BY <1>1, <1>2, <1>4, <1>5, EnqueueKeeps

\* A task list is enqueued with its event.
LEMMA EnqueueList ==
  ASSUME LogInv, NEW s \in Stage, NEW list \in TaskLists, WriteTaskList(s, list)
  PROVE  LogInv'
<1> DEFINE d == [kind |-> "tasks", stage |-> s, content |-> list]
<1> DEFINE e == [type |-> "tasks_written", stage |-> s]
<1> DEFINE evs == <<e>>
<1>1. Keeps /\ Disk' /\ UNCHANGED <<events, tail>>
  BY DEF WriteTaskList, documents, log, Keeps, Disk, LogInv
<1>2. d \in Documents /\ e \in Events /\ Announces(d, e)
  BY DEF Documents, Events, Announces, Nothing
<1>3. evs \in Seq(Events) /\ evs # <<>> /\ \A k \in DOMAIN evs : evs[k] = e
  BY <1>2
<1>4. Enqueue(d, evs)
  BY DEF WriteTaskList
<1> HIDE DEF d, e, evs
<1> QED BY <1>1, <1>2, <1>3, <1>4, EnqueueKeeps

\* A task's report is enqueued with its event.
LEMMA EnqueueReport ==
  ASSUME LogInv, NEW s \in Stage, NEW t \in Task, NEW kind \in ReportKinds,
         WriteTaskReport(s, t, kind)
  PROVE  LogInv'
<1> DEFINE d == [kind |-> "report", stage |-> s, task |-> t, content |-> kind]
<1> DEFINE e == [type |-> "task_report_written", stage |-> s, task |-> t]
<1> DEFINE evs == <<e>>
<1>1. Keeps /\ Disk' /\ UNCHANGED <<events, tail>>
  BY DEF WriteTaskReport, documents, log, Keeps, Disk, LogInv
<1>2. d \in Documents /\ e \in Events /\ Announces(d, e)
  BY DEF Documents, Events, Announces, Nothing
<1>3. evs \in Seq(Events) /\ evs # <<>> /\ \A k \in DOMAIN evs : evs[k] = e
  BY <1>2
<1>4. Enqueue(d, evs)
  BY DEF WriteTaskReport
<1> HIDE DEF d, e, evs
<1> QED BY <1>1, <1>2, <1>3, <1>4, EnqueueKeeps

\* A summary is enqueued with its event, by the manager or for it.
LEMMA EnqueueSummary ==
  ASSUME LogInv, NEW s \in Stage, NEW r \in Result,
         WriteStageSummary(s, r) \/ ManagerAborts(s, r)
  PROVE  LogInv'
<1> DEFINE d == SummaryOf(s, r)
<1> DEFINE e == SummaryEvent(s)
<1> DEFINE evs == <<e>>
<1>1. Keeps /\ Disk' /\ UNCHANGED <<events, tail>>
  BY DEF WriteStageSummary, ManagerAborts, documents, log, Keeps, Disk, LogInv
<1>2. d \in Documents /\ e \in Events /\ Announces(d, e)
  BY DEF Documents, Events, Announces, Nothing, SummaryOf, SummaryEvent
<1>3. evs \in Seq(Events) /\ evs # <<>> /\ \A k \in DOMAIN evs : evs[k] = e
  BY <1>2
<1>4. Enqueue(d, evs)
  BY DEF WriteStageSummary, ManagerAborts
<1> HIDE DEF d, e, evs
<1> QED BY <1>1, <1>2, <1>3, <1>4, EnqueueKeeps

\* A completion is in plan.json before its events are enqueued.
LEMMA CompletionKeeps ==
  ASSUME LogInv, NEW s \in Stage, NEW r \in Result, CompleteStage(s, r)
  PROVE  LogInv'
<1> DEFINE completed == [type |-> "stage_completed", stage |-> s]
<1> DEFINE archived == [type |-> "knowledge_archived", stage |-> s]
<1> DEFINE evs == <<completed, archived>>
<1>1. Keeps /\ Disk' /\ UNCHANGED <<events, tail>>
  BY NoneAssumption DEF CompleteStage, documents, log, Keeps, Disk, LogInv
<1>2. result'[s] # None
  BY NoneAssumption DEF CompleteStage, Disk, LogInv
<1>3. completed \in Events /\ archived \in Events
  BY DEF Events
<1>4. completed \in TrueEvents' /\ archived \in TrueEvents'
  BY <1>2, <1>3 DEF TrueEvents, Backed
<1>5. evs \in Seq(Events) /\ evs # <<>> /\ \A k \in DOMAIN evs : evs[k] \in TrueEvents'
  BY <1>3, <1>4
<1>6. Enqueue(Nothing, evs) /\ Nothing \in Documents
  BY DEF CompleteStage, Documents
<1> HIDE DEF evs
<1> QED BY <1>1, <1>5, <1>6, EnqueueKeeps

\* Recovery replaces a task list by a task list.
LEMMA RecoverKeeps == LogInv /\ Recover => LogInv'
<1> SUFFICES ASSUME LogInv, Recover PROVE LogInv'
  OBVIOUS
<1>1. ASSUME NEW s \in Stage, Interruption(s)
      PROVE  ReconciledList(s) \in TaskLists
  <2>1. tasks[s] \in [Task -> Status]
    BY <1>1 DEF Interruption, LogInv, Disk, TaskLists
  <2>2. \A t \in Task : Reconciled(tasks[s][t], reports[s][t]) \in Status
    BY <2>1 DEF Reconciled, Status, Open, Interrupted
  <2> QED BY <2>2 DEF ReconciledList, TaskLists
<1>2. Keeps /\ Disk'
  <2>1. CASE \E s \in Stage : Interruption(s)
    <3>1. PICK s \in Stage : Interruption(s)
      BY <2>1
    <3>2. runtime.stage = s
      BY <3>1 DEF Interruption
    <3>3. tasks' = [tasks EXCEPT ![s] = ReconciledList(s)]
      BY <2>1, <3>2 DEF Recover
    <3> QED BY <1>1, <3>1, <3>3, NoneAssumption DEF Recover, Keeps, Disk, LogInv
  <2>2. CASE ~ \E s \in Stage : Interruption(s)
    BY <2>2 DEF Recover, Keeps, Disk, LogInv
  <2> QED BY <2>1, <2>2
<1> QED BY <1>2, IdleKeeps DEF Recover, log

\* The events that are given to a reader of the log are true.
LEMMA LogInvImplies == LogInv => EventsFollowDocuments
BY DEF LogInv, EventsFollowDocuments, ReadEvents, TrueEvents, Events, Empty, Torn

\* Every step keeps the log honest.
LEMMA StepLogInv ==
  ASSUME LogInv, [Next]_vars PROVE LogInv'
<1>1. CASE WriteDocument \/ AppendEvent
  BY <1>1, WriteKeeps, AppendKeeps
<1>2. CASE WriteFails
  BY <1>2, DropKeeps DEF WriteFails, documents, log
<1>3. CASE Crash \/ Stop
  BY <1>3, GoneKeeps DEF Crash, Stop
<1>4. CASE StartManager \/ ManagerSettles \/ Start \/ \E s \in Stage : ManagerEnds(s)
  <2>1. Keeps /\ Disk' /\ UNCHANGED <<queue, events, tail>>
    BY <1>4 DEF StartManager, ManagerSettles, Start, ManagerEnds, documents, log,
                Keeps, Disk, LogInv
  <2> QED BY <2>1, IdleKeeps
<1>5. CASE Recover
  BY <1>5, RecoverKeeps
<1>6. ASSUME NEW s \in Stage, RecordStart(s) PROVE LogInv'
  BY <1>6, EnqueueStart
<1>7. ASSUME NEW s \in Stage, NEW list \in TaskLists, WriteTaskList(s, list) PROVE LogInv'
  BY <1>7, EnqueueList
<1>8. ASSUME NEW s \in Stage, NEW t \in Task, NEW kind \in ReportKinds,
             WriteTaskReport(s, t, kind)
      PROVE  LogInv'
  BY <1>8, EnqueueReport
<1>9. ASSUME NEW s \in Stage, NEW r \in Result,
             WriteStageSummary(s, r) \/ ManagerAborts(s, r)
      PROVE  LogInv'
  BY <1>9, EnqueueSummary
<1>10. ASSUME NEW s \in Stage, NEW r \in Result, CompleteStage(s, r) PROVE LogInv'
  BY <1>10, CompletionKeeps
<1>11. CASE UNCHANGED vars
  <2>1. Keeps /\ Disk' /\ UNCHANGED <<queue, events, tail>>
    BY <1>11 DEF vars, documents, log, Keeps, Disk, LogInv
  <2> QED BY <2>1, IdleKeeps
<1> QED BY <1>1, <1>2, <1>3, <1>4, <1>5, <1>6, <1>7, <1>8, <1>9, <1>10, <1>11 DEF Next

\* EventsFollowDocuments: whatever write fails and wherever a kill falls,
\* events.jsonl tells of nothing that is not on disk.
THEOREM LogIsHonest == Spec => []EventsFollowDocuments
<1>1. LogInv /\ [Next]_vars => LogInv'
  BY StepLogInv
<1> QED BY InitLogInv, <1>1, LogInvImplies, PTL DEF Spec

(***************************************************************************)
(* What recovery makes of an interrupted stage.                            *)
(***************************************************************************)

\* A process that has not started its agents has none, and writes nothing.
Quiet == proc # "up" => queue = <<>> /\ manager = NoManager

\* Everything but the ends of the process, recovery and start takes a process
\* that is up and leaves it so.
LEMMA AgentsNeedProcess ==
  ASSUME Quiet, [Next]_vars
  PROVE  (proc = "up" /\ proc' = "up") \/ Crash \/ Stop \/ Recover \/ Start \/ UNCHANGED vars
<1> DEFINE Running == proc = "up" /\ proc' = "up"
<1>1. WriteDocument \/ AppendEvent \/ WriteFails => Running
  BY DEF Quiet, WriteDocument, AppendEvent, WriteFails
<1>2. StartManager \/ ManagerSettles => Running
  BY DEF Quiet, NoManager, StartManager, ManagerSettles
<1>3. \A s \in Stage : RecordStart(s) => Running
  BY DEF RecordStart, Enqueue
<1>4. \A s \in Stage : ManagerEnds(s) => Running
  BY DEF Quiet, NoManager, ManagerEnds, Working
<1>5. \A s \in Stage, list \in TaskLists : WriteTaskList(s, list) => Running
  BY DEF WriteTaskList, Enqueue
<1>6. \A s \in Stage, t \in Task, kind \in ReportKinds : WriteTaskReport(s, t, kind) => Running
  BY DEF WriteTaskReport, Enqueue
<1>7. \A s \in Stage, r \in Result :
        WriteStageSummary(s, r) \/ ManagerAborts(s, r) \/ CompleteStage(s, r) => Running
  BY DEF WriteStageSummary, ManagerAborts, CompleteStage, Enqueue
<1> QED BY <1>1, <1>2, <1>3, <1>4, <1>5, <1>6, <1>7 DEF Next

\* A process is quiet until it has started, and again when it is gone.
LEMMA StaysQuiet ==
  ASSUME Quiet, [Next]_vars PROVE Quiet'
<1>1. CASE proc' = "up"
  BY <1>1 DEF Quiet
<1>2. CASE Crash \/ Stop
  BY <1>2 DEF Crash, Stop, Gone, Quiet
<1>3. CASE Recover \/ Start
  BY <1>3 DEF Recover, Start, Quiet
<1>4. CASE UNCHANGED vars
  BY <1>4 DEF vars, Quiet
<1> QED BY <1>1, <1>2, <1>3, <1>4, AgentsNeedProcess

\* What recovery makes of a task is settled, unless nobody has reported on it.
LEMMA ReconciledIsSettled ==
  \A status, report :
    /\ Reconciled(status, report) \notin Interrupted
    /\ Reconciled(status, report) = "pending" => report = None
BY DEF Reconciled, Interrupted, Open

\* Recovery reconciles the stage it finds interrupted.
LEMMA RecoverFollows ==
  ASSUME LogInv, Recover PROVE RecoveryFollowsReports'
<1> SUFFICES ASSUME NEW s \in Stage, Interruption(s)', NEW t \in Task
             PROVE  /\ tasks'[s][t] \notin Interrupted
                    /\ tasks'[s][t] = "pending" => reports'[s][t] = None
  BY DEF RecoveryFollowsReports
<1>1. UNCHANGED <<reports, summary, runtime>>
  BY DEF Recover
<1>2. runtime.stage = s /\ summary[s] = None /\ tasks'[s] # None
  BY <1>1 DEF Interruption
<1>3. CASE \E z \in Stage : Interruption(z)
  <2>1. tasks' = [tasks EXCEPT ![s] = ReconciledList(s)]
    BY <1>2, <1>3 DEF Recover
  <2>2. tasks'[s][t] = Reconciled(tasks[s][t], reports[s][t])
    BY <2>1 DEF ReconciledList, LogInv, Disk
  <2> QED BY <1>1, <2>2, ReconciledIsSettled
<1>4. CASE ~ \E z \in Stage : Interruption(z)
  <2>1. tasks' = tasks
    BY <1>4 DEF Recover
  <2> QED BY <1>2, <1>4, <2>1 DEF Interruption
<1> QED BY <1>3, <1>4

\* RecoveryFollowsReports: recoverFromCrash leaves nothing under way in the
\* stage that was interrupted and repeats nothing that was reported, wherever
\* the crash fell, in the recovery too.
THEOREM RecoveryIsSound == Spec => []RecoveryFollowsReports
<1>1. Init => LogInv /\ Quiet /\ RecoveryFollowsReports
  BY InitLogInv DEF Init, Quiet, RecoveryFollowsReports
<1>2. LogInv /\ Quiet /\ RecoveryFollowsReports /\ [Next]_vars
        => (LogInv /\ Quiet /\ RecoveryFollowsReports)'
  <2> SUFFICES ASSUME LogInv, Quiet, RecoveryFollowsReports, [Next]_vars
               PROVE  LogInv' /\ Quiet' /\ RecoveryFollowsReports'
    OBVIOUS
  <2>1. LogInv' /\ Quiet'
    BY StepLogInv, StaysQuiet
  <2>2. Recover => RecoveryFollowsReports'
    BY RecoverFollows
  <2>3. UNCHANGED vars => RecoveryFollowsReports'
    BY DEF vars, documents, log, RecoveryFollowsReports, Interruption
  <2>4. proc' # "recovered" => RecoveryFollowsReports'
    BY DEF RecoveryFollowsReports
  <2>5. Crash \/ Stop \/ Start => proc' # "recovered"
    BY DEF Crash, Stop, Start, Gone
  <2> QED BY <2>1, <2>2, <2>3, <2>4, <2>5, AgentsNeedProcess
<1> QED BY <1>1, <1>2, PTL DEF Spec

(***************************************************************************)
(* Types.  Those of documents, queue and log are part of LogInv.           *)
(***************************************************************************)

AgentTypes ==
  /\ garbled \in BOOLEAN
  /\ runtime \in [status : {"missing", "running", "idle", "error"}, stage : Stage \cup {None}]
  /\ manager \in {NoManager} \cup [stage : Stage, at : {"recording", "working", "settling"}]
  /\ proc \in {"down", "recovered", "up"}

\* The invariant of the log has the rest.
LEMMA LogInvTypes == LogInv /\ AgentTypes => TypeOK
<1>1. TrueEvents \subseteq Events /\ Honest \subseteq Operations
  BY DEF TrueEvents, Honest
<1> QED BY <1>1, SeqMonotone DEF LogInv, Disk, AgentTypes, TypeOK

\* Agents, process and runtime.json keep their types.
LEMMA StepAgentTypes ==
  ASSUME AgentTypes, [Next]_vars PROVE AgentTypes'
<1>1. ASSUME NEW status \in {"running", "idle", "error"}, NEW s \in Stage \cup {None}
      PROVE  [status |-> status, stage |-> s] \in
               [status : {"missing", "running", "idle", "error"}, stage : Stage \cup {None}]
  OBVIOUS
<1>2. manager # NoManager => manager.stage \in Stage
  BY DEF AgentTypes
<1>3. CASE WriteDocument \/ AppendEvent \/ WriteFails
  BY <1>3 DEF WriteDocument, AppendEvent, WriteFails, log, AgentTypes
<1>4. CASE StartManager
  <2>1. manager # NoManager
    BY <1>4 DEF StartManager, NoManager
  <2>2. manager' \in {NoManager, [manager EXCEPT !.at = "working"]} /\ UNCHANGED <<garbled, proc>>
    BY <1>4 DEF StartManager, log
  <2>3. runtime' \in {runtime, [status |-> "running", stage |-> manager.stage]}
    BY <1>4 DEF StartManager
  <2> QED BY <1>1, <1>2, <2>1, <2>2, <2>3 DEF AgentTypes
<1>5. CASE ManagerSettles \/ \E s \in Stage : ManagerEnds(s)
  <2>1. runtime' = [status |-> "running", stage |-> None] /\ manager' = NoManager
    BY <1>5 DEF ManagerSettles, ManagerEnds
  <2>2. UNCHANGED <<garbled, proc>>
    BY <1>5 DEF ManagerSettles, ManagerEnds, log
  <2> QED BY <1>1, <2>1, <2>2 DEF AgentTypes
<1>6. CASE Crash \/ Stop
  <2>1. runtime' = runtime \/ \E status \in {"idle", "error"} : runtime' = [status |-> status, stage |-> None]
    BY <1>6 DEF Crash, Stop
  <2>2. proc' = "down" /\ manager' = NoManager /\ UNCHANGED garbled
    BY <1>6 DEF Crash, Stop, Gone
  <2> QED BY <1>1, <2>1, <2>2 DEF AgentTypes
<1>7. CASE Recover \/ Start
  <2>1. runtime' \in {runtime, [status |-> "running", stage |-> None]} /\ proc' \in {"recovered", "up"}
    BY <1>7 DEF Recover, Start
  <2>2. UNCHANGED <<garbled, manager>>
    BY <1>7 DEF Recover, Start, log
  <2> QED BY <1>1, <2>1, <2>2 DEF AgentTypes
<1>8. ASSUME NEW s \in Stage, RecordStart(s) PROVE AgentTypes'
  BY <1>8 DEF RecordStart, log, AgentTypes
<1>9. ASSUME NEW s \in Stage, NEW list \in TaskLists, WriteTaskList(s, list) PROVE AgentTypes'
  BY <1>9 DEF WriteTaskList, log, AgentTypes
<1>10. ASSUME NEW s \in Stage, NEW t \in Task, NEW kind \in ReportKinds, WriteTaskReport(s, t, kind)
       PROVE  AgentTypes'
  BY <1>10 DEF WriteTaskReport, log, AgentTypes
<1>11. ASSUME NEW s \in Stage, NEW r \in Result, WriteStageSummary(s, r) \/ CompleteStage(s, r)
       PROVE  AgentTypes'
  BY <1>11 DEF WriteStageSummary, CompleteStage, log, AgentTypes
<1>12. ASSUME NEW s \in Stage, NEW r \in Result, ManagerAborts(s, r) PROVE AgentTypes'
  <2>1. manager = [stage |-> s, at |-> "working"] /\ manager' = [manager EXCEPT !.at = "settling"]
    BY <1>12 DEF ManagerAborts, Working
  <2>2. UNCHANGED <<garbled, runtime, proc>>
    BY <1>12 DEF ManagerAborts, log
  <2> QED BY <2>1, <2>2 DEF AgentTypes
<1>13. CASE UNCHANGED vars
  BY <1>13 DEF vars, log, AgentTypes
<1> QED
  BY <1>3, <1>4, <1>5, <1>6, <1>7, <1>8, <1>9, <1>10, <1>11, <1>12, <1>13 DEF Next

\* Documents, log, queue, runtime.json and manager keep their types through any
\* writes, failures, kills and recoveries.
THEOREM TypeCorrect == Spec => []TypeOK
<1>1. Init => AgentTypes
  <2>1. [status |-> "missing", stage |-> None] \in
          [status : {"missing", "running", "idle", "error"}, stage : Stage \cup {None}]
    OBVIOUS
  <2> QED BY <2>1 DEF Init, AgentTypes
<1>2. LogInv /\ AgentTypes /\ [Next]_vars => LogInv' /\ AgentTypes'
  BY StepLogInv, StepAgentTypes
<1> QED BY InitLogInv, <1>1, <1>2, LogInvTypes, PTL DEF Spec
=============================================================================
