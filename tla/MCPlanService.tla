--------------------------- MODULE MCPlanService ---------------------------
(* An instance of PlanService for TLC: one stage, which the other tools add, *)
(* start, complete and remove.  Also what StageArchive reads back of stages  *)
(* and puts into the plan, over every small plan, directory and log.         *)
EXTENDS PlanService

CONSTANT s1

MCStageLists == {<<>>, <<[id |-> s1, started |-> FALSE]>>}

---------------------------------------------------------------------------
Id3 == {1, 2, 3}
P == INSTANCE PlanDocument WITH StageId <- Id3, None <- 0, StageLists <- {}

StagesUpTo(n) == SeqOf([id : Id3, started : BOOLEAN], n)
SmallDocs ==
  {doc \in [stages : StagesUpTo(2), current : Id3 \cup {0}, history : SeqOf(Id3, 1)] : P!Valid(doc)}
After(doc) ==
  {P!SetStages(stages, id, doc) : stages \in StagesUpTo(2), id \in Id3 \cup {0}}
  \cup {P!SetCurrent(id, doc) : id \in Id3 \cup {0}}
  \cup UNION {{P!RemoveStage(id, doc), P!CompleteStage(id, doc), P!AppendHistory(id, doc)} : id \in Id3}
  \cup {P!AddStage([id |-> id, started |-> b], doc) : id \in Id3, b \in BOOLEAN}
CurrentIsStarted(doc) == doc.current # 0 => [id |-> doc.current, started |-> TRUE] \in Range(doc.stages)

\* Whatever a planner passes, the current stage is one that is planned and has
\* the time it started, which plan_complete_stage insists on, and no stage that
\* stays in the plan loses that time.
ASSUME StartsAreKept ==
  \A doc \in {d \in SmallDocs : CurrentIsStarted(d)} : \A result \in After(doc) \ {P!Rejected} :
    /\ CurrentIsStarted(result)
    /\ \A id \in P!Ids(result.stages) :
         [id |-> id, started |-> TRUE] \in Range(doc.stages) => [id |-> id, started |-> TRUE] \in Range(result.stages)

---------------------------------------------------------------------------
R == INSTANCE StageArchive

Names == {1, 2}
Results == {"completed", "failed"}

Event1 == R!Event(1, "stage_started", 1, 1, "")
Event2 == R!Event(2, "stage_completed", 1, 2, "completed")
Event3 == R!Event(3, "stage_completed", 1, 1, "failed")
Events == {Event1, Event2, Event3}
Log(events) == FoldLeft(R!AppendEvent, R!NewLog, events)

\* A log nothing interrupts gives each event once, in the order in which it was
\* first written; a process that dies in an append loses no more than that event.
ASSUME EventsAreReadOnce ==
  \A events \in SeqOf(Events, 3) :
    /\ LET read == R!ReadEvents(Log(events)).read
       IN Range(read) = Range(events) /\ IsInjective(read)
          /\ events # <<>> => read[1] = events[1]
    /\ \A event \in Events, whole \in BOOLEAN :
         \A seen \in Range(events) :
           seen \in Range(R!ReadEvents(R!DieAppending(Log(events), event, whole)).read)

\* After such a death the next append goes on in the unended line, and from then
\* on nothing reads the log again, whatever is appended: readEvents throws for
\* every stage (src/src/store/stage-run-store.ts passes over the last line only).
ASSUME TornLinesBlockTheLog ==
  \A before \in SeqOf(Events, 1), later \in SeqOf(Events, 2), event \in Events, whole \in BOOLEAN :
    later # <<>> =>
      LET torn == FoldLeft(R!AppendEvent, R!DieAppending(Log(before), event, whole), later)
      IN R!ReadEvents(torn) = R!Throws
         /\ R!GetStageRun(1, [stages |-> <<>>, history |-> <<>>], R!NoDirectory, torn) = R!Throws

Summary(id, result) == [stage |-> id, started |-> 1, completed |-> 2, result |-> result, issues |-> {}]
Report(task, at, status) == [task |-> task, started |-> 1, completed |-> at, status |-> status]
Directory(name, tasks, reports, summary) == [name |-> name, tasks |-> tasks, reports |-> reports, summary |-> summary]

TaskLists == {R!Missing, R!Broken, R!File([updated |-> 1])}
Reports == {<<>>} \cup {<<R!File(Report(1, 1, x)), R!File(Report(2, 2, y))>> : x, y \in Results}
            \cup {<<R!Broken>>, <<R!Broken, R!File(Report(2, 2, "completed"))>>}
Summaries == {R!Missing, R!Broken} \cup {R!File(Summary(id, r)) : id \in Names, r \in Results}
DirectoriesOf(name) == {Directory(name, t, r, s) : t \in TaskLists, r \in Reports, s \in Summaries}

Active(id) == [id |-> id, started |-> 1]
Past(id, result) == [id |-> id, started |-> 1, completed |-> 2, result |-> result]
Plans == {p \in [stages : {<<>>, <<Active(1)>>}, history : {<<>>} \cup {<<Past(id, r)>> : id \in Names, r \in Results}] :
            R!Plan!Valid(R!PlanOf(p))}

\* What a stage shows comes from the plan before the log, from the log before
\* its files, and no stage is ever shown as running, though StageRunStatus
\* (src/src/store/stage-run-store.ts) has that status.
ASSUME StatusFollowsThePlan ==
  \A plan \in Plans, dir \in DirectoriesOf(1), events \in SeqOf(Events, 2) :
    LET run == R!GetStageRun(1, plan, dir, Log(events))
    IN run \notin {R!Missing, R!Throws} =>
         /\ run.doc.status # "running"
         /\ \A c \in R!Completed(plan, 1) : run.doc.status = c.result
         /\ (R!Completed(plan, 1) = {} /\ Event2 \in Range(events)) => run.doc.status = "completed"
         /\ run.doc.completed <= run.doc.updated \/ run.doc.updated = 0

\* One stage that cannot be read, or one torn line, empties every list of stages;
\* otherwise the completed runs are listed once each, oldest first.
ASSUME OneBadStageHidesAll ==
  \A plan \in Plans, dir \in DirectoriesOf(1) :
    LET all == R!ListCompletedRuns(plan, {dir}, R!NewLog)
    IN /\ (all = R!Throws) = (R!Broken \in {dir.tasks, dir.summary} \cup Range(dir.reports))
       /\ all # R!Throws =>
            /\ IsInjective(all.runs)
            /\ {r.id : r \in Range(all.runs)} = {c.id : c \in Range(plan.history)}

\* A summary is taken for a stage's own only where it names that stage.
ASSUME MisnamedSummariesAreInvalid ==
  \A dir \in DirectoriesOf(1) :
    (R!ReadExpected(dir.summary, [stage |-> dir.name]) = "valid")
      = (R!IsRead(dir.summary) /\ dir.summary.doc.stage = dir.name)

---------------------------------------------------------------------------
\* A plan the backfill has been applied to is valid and its old history is the
\* start of the new one.  Applied again it finds nothing more to do, provided
\* each summary names the stage whose directory it is in.
ASSUME BackfillIsIdempotent ==
  \A plan \in Plans, one \in DirectoriesOf(1), two \in DirectoriesOf(2) :
    LET after == R!Backfill(FALSE, R!File(plan), {one, two}, TRUE)
        named == \A d \in {one, two} : R!IsRead(d.summary) => d.summary.doc.stage = d.name
    IN /\ R!Plan!Valid(R!PlanOf(after.plan.doc))
       /\ IsPrefix(plan.history, after.plan.doc.history)
       /\ after.plan.doc.stages = plan.stages
       /\ R!Backfill(FALSE, R!File(plan), {one, two}, FALSE).plan = R!File(plan)
       /\ named => /\ R!PlanBackfill(after.plan.doc, {one, two}) = <<>>
                   /\ \A d \in {one, two} : (R!IsRead(d.summary) => d.name \in R!KnownIds(after.plan.doc))

\* A summary that names another stage is planned again each time under its
\* directory's name: once that stage is known, every application is refused and
\* exits 2.  The dry run shows nothing of it and exits 0, though the script's
\* header gives 2 for duplicates (src/src/scripts/backfill-plan-history.ts:17-20).
ASSUME MisnamedSummariesComeBack ==
  \E plan \in Plans, dir \in DirectoriesOf(1) :
    LET once == R!Backfill(FALSE, R!File(plan), {dir}, TRUE)
        again == R!Backfill(FALSE, once.plan, {dir}, TRUE)
    IN once.exit = 0 /\ again.exit = 2 /\ again.plan = once.plan
       /\ R!Backfill(FALSE, once.plan, {dir}, FALSE).exit = 0

---------------------------------------------------------------------------
\* Every stage the history calls failed, and every failed task, is among the
\* errors shown; a failure that also has its summary is there twice, and a
\* file that cannot be parsed is not there at all.
ASSUME FailuresAreShown ==
  \A plan \in Plans, dir \in DirectoriesOf(2) :
    LET entries == R!DebugErrors(R!File(plan), {dir}).entries
        Of(type) == {e.source : e \in {x \in Range(entries) : x.type = type}}
    IN /\ Of("stage") = {<<c.id>> : c \in {d \in Range(plan.history) : d.result = "failed"}}
       /\ Of("task") = {<<2, f.doc.task>> : f \in {x \in Range(dir.reports) : R!IsRead(x) /\ x.doc.status = "failed"}}
       /\ (<<2>> \in Of("stage") /\ R!IsRead(dir.summary) /\ dir.summary.doc.result = "failed") =>
            Cardinality({i \in DOMAIN entries : entries[i].source = <<2>>}) = 2
       /\ \A i, j \in DOMAIN entries : i < j => entries[i].at >= entries[j].at

\* The timeline has both ends of every stage of the history and no active stage.
ASSUME TimelineIsOfHistory ==
  \A plan \in Plans, dir \in DirectoriesOf(2) :
    LET entries == R!DebugTimeline(R!File(plan), {dir}).entries
    IN /\ {e.source[1] : e \in {x \in Range(entries) : x.type = "started"}} = {c.id : c \in Range(plan.history)}
       /\ \A i, j \in DOMAIN entries : i < j => entries[i].at >= entries[j].at

ChatLog(session, at) == [session |-> session, file |-> R!File([session |-> session, at |-> at])]
BrokenLog(session) == [session |-> session, file |-> R!Broken]
Channels == {<<[logs |-> a], [logs |-> b]>> : a, b \in SeqOf({ChatLog(1, 1), ChatLog(2, 2), BrokenLog(2)}, 2)}

\* A session on the list can be opened; one log that is broken empties the list
\* while the other sessions still open by their id.
ASSUME ListedSessionsOpen ==
  \A channels \in Channels :
    LET list == R!ChatSessions(channels)
        broken == \E c \in Range(channels) : BrokenLog(2) \in Range(c.logs)
    IN /\ (list = R!Throws) = broken
       /\ ~broken => \A e \in Range(list.entries) : R!ChatLogBySessionId(channels, e.session).doc.session = e.session
       /\ (\E c \in Range(channels) : ChatLog(1, 1) \in Range(c.logs)) => R!IsRead(R!ChatLogBySessionId(channels, 1))
=============================================================================
