----------------------------- MODULE StageArchive -----------------------------
(****************************************************************************)
(* What is read back of the stages a project has run: the event log and the *)
(* documents of each (src/src/store/stage-run-store.ts), the views the      *)
(* dashboard takes of them (src/src/store/project-store.ts), and the script *)
(* that rebuilds a history from them                                        *)
(* (src/src/scripts/backfill-plan-history.ts).                              *)
(*                                                                          *)
(* Stages, tasks and times are numbers; 0 is a time a document does not     *)
(* have.  The plan is [stages, history]: the first with their id and start, *)
(* the second with id, start, completion and result.                        *)
(****************************************************************************)
EXTENDS Integers, FiniteSets, SequencesExt

Plan == INSTANCE PlanDocument WITH StageId <- Nat, None <- -1, StageLists <- {}

\* A file: not there, not readable under its schema, or a document.
Missing == [state |-> "missing"]
Broken == [state |-> "broken"]
File(value) == [state |-> "read", doc |-> value]
IsRead(file) == file.state = "read"
Throws == [throws |-> TRUE]

Newest(times) == CHOOSE t \in times \cup {0} : \A u \in times : u <= t
\* a ?? b ?? c, over times
FirstTime(times) == Newest({times[i] : i \in {k \in DOMAIN times : \A j \in 1..(k - 1) : times[j] = 0}})

NewestFirst(entries) ==
  LET Before(i, j) == entries[i].at > entries[j].at \/ (entries[i].at = entries[j].at /\ i < j)
      order == SetToSortSeq(DOMAIN entries, Before)
  IN [k \in DOMAIN entries |-> entries[order[k]]]

---------------------------------------------------------------------------
(* The event log. *)

Torn == [torn |-> TRUE]
NewLog == [lines |-> <<>>, ended |-> TRUE]

\* A line after one that has no newline yet goes on in that line, and neither
\* can be read any more.
AppendEvent(log, event) ==
  IF log.ended THEN [log EXCEPT !.lines = Append(@, event)]
  ELSE [lines |-> Append(Front(log.lines), Torn), ended |-> TRUE]

\* A process dies in the append, before or after the last brace.
DieAppending(log, event, whole) ==
  [lines |-> AppendEvent(log, IF whole THEN event ELSE Torn).lines, ended |-> FALSE]

\* readEvents: each event once, however often its line was written; a line that
\* cannot be read is passed over only while it is the last one and unended.
ReadEvents(log) ==
  LET kept == {i \in DOMAIN log.lines : log.lines[i] # Torn}
      first == {i \in kept : \A j \in kept : log.lines[j].event = log.lines[i].event => i <= j}
      order == SetToSortSeq(first, <)
  IN IF \E i \in DOMAIN log.lines \ kept : i < Len(log.lines) \/ log.ended THEN Throws
     ELSE [read |-> [k \in DOMAIN order |-> log.lines[order[k]]]]

---------------------------------------------------------------------------
(* One stage. *)

\* readPlanStage: what the plan knows of the stage, as a set of one or none.
Definition(plan, id) == {s \in Range(plan.stages) : s.id = id}
Completed(plan, id) == {c \in Range(plan.history) : c.id = id}

Event(name, type, id, at, result) == [event |-> name, type |-> type, id |-> id, at |-> at, result |-> result]

\* deriveCompatibilityEvents: the events of a stage older than the log.
CompatibilityEvents(id, stage, plan) ==
  (IF IsRead(stage.tasks) THEN <<Event(<<"tasks">>, "tasks_written", id, stage.tasks.doc.updated, "")>> ELSE <<>>)
  \o [i \in DOMAIN stage.reports |-> Event(<<"report", i>>, "task_report_written", id, stage.reports[i].doc.completed, "")]
  \o (IF IsRead(stage.summary) THEN <<Event(<<"summary">>, "stage_summary_written", id, stage.summary.doc.completed, "")>> ELSE <<>>)
  \o SetToSeq({Event(<<"completed">>, "stage_completed", id, c.completed, c.result) : c \in Completed(plan, id)})

\* latestCompletionEvent: the last of the newest
Completions(events) == SelectSeq(events, LAMBDA e : e.type = "stage_completed" /\ e.result # "")
LatestCompletion(events) ==
  LET done == Completions(events)
      newest == {i \in DOMAIN done : done[i].at = Newest({e.at : e \in Range(done)})}
  IN IF done = <<>> THEN {} ELSE {done[CHOOSE i \in newest : \A j \in newest : j <= i]}

\* deriveStatus; "running" is a status nothing derives.
StatusOf(completed, completion, stage) ==
  CASE completed # {} -> (CHOOSE c \in completed : TRUE).result
    [] completed = {} /\ completion # {} -> (CHOOSE e \in completion : TRUE).result
    [] OTHER -> IF IsRead(stage.summary) THEN "summarized" ELSE IF IsRead(stage.tasks) THEN "tasks_ready" ELSE "planned"

Timed(set, Time(_)) == Newest({Time(x) : x \in set})

\* stage: the task list, the reports and the summary of its directory.
GetStageRun(id, plan, stage, log) ==
  LET files == {stage.tasks, stage.summary} \cup Range(stage.reports)
      logged == ReadEvents(log)
      own == SelectSeq(logged.read, LAMBDA e : e.id = id)
      events == IF own = <<>> THEN CompatibilityEvents(id, stage, plan) ELSE own
      completed == Completed(plan, id)
      completion == LatestCompletion(events)
      summary == IF IsRead(stage.summary) THEN {stage.summary.doc} ELSE {}
  IN IF Broken \in files \/ logged = Throws THEN Throws
     ELSE IF files \subseteq {Missing} /\ own = <<>> /\ Definition(plan, id) \cup completed = {} THEN Missing
     ELSE File([status |-> StatusOf(completed, completion, stage),
                started |-> FirstTime(<<Timed(summary, LAMBDA s : s.started), Timed(completed, LAMBDA c : c.started),
                                        Timed(Definition(plan, id), LAMBDA d : d.started)>>),
                completed |-> FirstTime(<<Timed(completed, LAMBDA c : c.completed), Timed(completion, LAMBDA e : e.at),
                                          Timed(summary, LAMBDA s : s.completed)>>),
                updated |-> Newest({e.at : e \in Range(events)} \cup {s.completed : s \in summary}
                                   \cup {c.completed : c \in completed}
                                   \cup {f.doc.completed : f \in Range(stage.reports)}
                                   \cup IF IsRead(stage.tasks) THEN {stage.tasks.doc.updated} ELSE {})])

\* listKnownStageIds, listStageRuns and listCompletedRuns: of everything the
\* plan, the log and the directories name; one that cannot be read fails both.
KnownStageIds(plan, directories, log) ==
  {s.id : s \in Range(plan.stages)} \cup {c.id : c \in Range(plan.history)}
  \cup {e.id : e \in Range(ReadEvents(log).read)} \cup {d.name : d \in directories}

NoDirectory == [tasks |-> Missing, reports |-> <<>>, summary |-> Missing]

ListStageRuns(plan, directories, log) ==
  LET Directory(id) == CHOOSE d \in directories \cup {NoDirectory} :
                         IF \E e \in directories : e.name = id THEN d # NoDirectory /\ d.name = id ELSE d = NoDirectory
      runs == {[id |-> id, run |-> GetStageRun(id, plan, Directory(id), log)] : id \in KnownStageIds(plan, directories, log)}
  IN IF ReadEvents(log) = Throws \/ \E r \in runs : r.run = Throws THEN Throws
     ELSE [runs |-> {r \in runs : r.run # Missing}]

ListCompletedRuns(plan, directories, log) ==
  LET listed == ListStageRuns(plan, directories, log)
      done == {r \in listed.runs : r.run.doc.status \in {"completed", "failed", "escalated", "aborted"}}
      EndOf(r) == FirstTime(<<r.run.doc.completed, r.run.doc.updated>>)
      Earlier(a, b) == EndOf(a) < EndOf(b) \/ (EndOf(a) = EndOf(b) /\ a.id < b.id)
  IN IF listed = Throws THEN Throws ELSE [runs |-> SetToSortSeq(done, Earlier)]

\* readExpectedStageTaskReport, readExpectedStageSummary: a document that names
\* another stage, task or agent than its place says is invalid.
ReadExpected(file, expected) ==
  CASE file = Missing -> "missing" [] file = Broken -> "invalid"
    [] IsRead(file) -> IF \A field \in DOMAIN expected : file.doc[field] = expected[field] THEN "valid" ELSE "invalid"

---------------------------------------------------------------------------
(* The backfill of the history. *)

\* A stage directory with a readable summary is one of its own words; one with
\* reports only is put together from them; unreadable files are not there.
SynthesiseFromSummary(s) ==
  [id |-> s.stage, started |-> s.started, completed |-> s.completed, result |-> s.result]

SynthesiseFromReports(id, reports) ==
  LET first == CHOOSE r \in reports : \A q \in reports : r.completed <= q.completed
  IN [id |-> id, started |-> first.started, completed |-> Newest({r.completed : r \in reports}),
      result |-> IF \A r \in reports : r.status = "completed" THEN "completed" ELSE "failed"]

\* planBackfill.  Known stages are told by the name of their directory.
Candidate(directory) ==
  LET reports == {f.doc : f \in {g \in Range(directory.reports) : IsRead(g)}}
  IN IF IsRead(directory.summary)
     THEN {[dir |-> directory.name, stage |-> SynthesiseFromSummary(directory.summary.doc), anomalies |-> FALSE]}
     ELSE IF reports = {} THEN {}
     ELSE {[dir |-> directory.name, stage |-> SynthesiseFromReports(directory.name, reports), anomalies |-> TRUE]}

KnownIds(plan) == {s.id : s \in Range(plan.stages)} \cup {c.id : c \in Range(plan.history)}

PlanBackfill(plan, directories) ==
  LET Earlier(a, b) == a.stage.completed < b.stage.completed \/ (a.stage.completed = b.stage.completed /\ a.dir < b.dir)
  IN SetToSortSeq(UNION {Candidate(d) : d \in {d \in directories : d.name \notin KnownIds(plan)}}, Earlier)

\* applyBackfill: plan_append_history of each, refusals kept.
PlanOf(plan) ==
  [stages |-> [i \in DOMAIN plan.stages |-> [id |-> plan.stages[i].id, started |-> plan.stages[i].started # 0]],
   current |-> -1, history |-> [i \in DOMAIN plan.history |-> plan.history[i].id]]

ApplyBackfill(plan, candidates) ==
  LET Apply(acc, c) ==
        IF Plan!AppendHistory(c.stage.id, PlanOf(acc.plan)) = Plan!Rejected
        THEN [acc EXCEPT !.errors = Append(@, c.dir)]
        ELSE [acc EXCEPT !.plan.history = Append(@, c.stage)]
  IN FoldLeft(Apply, [plan |-> plan, errors |-> <<>>], candidates)

\* main: 1 when the project is in use or has no plan, 2 for an anomaly or, when
\* it applies, a refusal.
Backfill(locked, plan, directories, apply) ==
  IF locked \/ ~IsRead(plan) THEN [exit |-> 1, plan |-> plan]
  ELSE LET candidates == PlanBackfill(plan.doc, directories)
           applied == ApplyBackfill(plan.doc, candidates)
           anomalies == \E c \in Range(candidates) : c.anomalies
       IN [exit |-> IF anomalies \/ (apply /\ applied.errors # <<>>) THEN 2 ELSE 0,
           plan |-> IF apply THEN File(applied.plan) ELSE plan]

---------------------------------------------------------------------------
(* The dashboard's views. *)

Bad == {"failed", "escalated"}

\* debugErrors: from the plan's history, from the summaries and their issues,
\* from the reports; what cannot be parsed is left out, and only the plan must
\* be valid.
DebugErrors(plan, directories) ==
  LET ofHistory == IF plan = Missing THEN {} ELSE {c \in Range(plan.doc.history) : c.result \in Bad}
      ofSummaries == {d \in directories : IsRead(d.summary) /\ d.summary.doc.result \in Bad}
      ofReports == {<<d, f>> : d \in directories, f \in UNION {Range(d.reports) : d \in directories}}
  IN IF plan = Broken THEN Throws
     ELSE [entries |->
       NewestFirst(SetToSeq(
         {[source |-> <<c.id>>, type |-> "stage", at |-> c.completed] : c \in ofHistory}
         \cup {[source |-> <<d.name>>, type |-> "summary", at |-> d.summary.doc.completed] : d \in ofSummaries}
         \cup UNION {{[source |-> <<d.name, issue>>, type |-> "issue", at |-> d.summary.doc.completed] :
                        issue \in d.summary.doc.issues} : d \in {e \in directories : IsRead(e.summary)}}
         \cup {[source |-> <<x[1].name, x[2].doc.task>>, type |-> "task", at |-> x[2].doc.completed] :
                 x \in {y \in ofReports : y[2] \in Range(y[1].reports) /\ IsRead(y[2]) /\ y[2].doc.status = "failed"}}))]

\* debugTimeline: stages of the history that have started and ended, and tasks.
DebugTimeline(plan, directories) ==
  LET history == IF plan = Missing THEN {} ELSE Range(plan.doc.history)
      reported == UNION {{[stage |-> d.name, report |-> f.doc] : f \in {g \in Range(d.reports) : IsRead(g)}} : d \in directories}
  IN IF plan = Broken THEN Throws
     ELSE [entries |->
       NewestFirst(SetToSeq(
         {[source |-> <<c.id>>, type |-> "started", at |-> c.started] : c \in {c \in history : c.started # 0}}
         \cup {[source |-> <<c.id>>, type |-> c.result, at |-> c.completed] : c \in {c \in history : c.completed # 0}}
         \cup {[source |-> <<r.stage, r.report.task>>, type |-> r.report.status, at |-> r.report.completed] : r \in reported}))]

\* chatSessions: every log of every channel; one that is broken fails the list.
ChatSessions(channels) ==
  LET logs == UNION {Range(channel.logs) : channel \in Range(channels)}
  IN IF \E log \in logs : log.file = Broken THEN Throws
     ELSE [entries |-> NewestFirst(SetToSeq({log.file.doc : log \in logs}))]

\* chatLogBySessionId: the channels in turn, by the name of the file.
ChatLogBySessionId(channels, session) ==
  LET named == {i \in DOMAIN channels : \E log \in Range(channels[i].logs) : log.session = session}
      first == CHOOSE i \in named : \A j \in named : i <= j
      log == CHOOSE l \in Range(channels[first].logs) : l.session = session
  IN IF named = {} THEN Missing ELSE IF log.file = Broken THEN Throws ELSE log.file
===============================================================================
