------------------------------ MODULE Runtime ------------------------------
(***************************************************************************)
(* The life of `saivage serve` over one project: bootstrap                 *)
(* (src/src/server/bootstrap.ts), the planner loop, the signal handler     *)
(* (server/cli.ts), RuntimeLifecycle (runtime/lifecycle.ts) and the        *)
(* handoff of a shutdown's reason to the next process                      *)
(* (runtime/shutdown-handoff.ts).  The process may be killed at any step.  *)
(***************************************************************************)
EXTENDS PlannerRunner

CONSTANT MayCrash

VARIABLES
  proc,      \* where the process is
  request,   \* shutdown-request.json
  summary,   \* shutdown-summary.json, a reason
  seen,      \* the request as shutdown or bootstrap has read it
  due        \* the recorded reasons no bootstrap has taken yet, without those
             \* another write or rename may lose (history variable)

handoffVars == <<request, summary, seen, due>>
vars == <<trackerVars, runnerVars, aborting, proc, handoffVars>>

Booting == {"recovering", "handing", "consuming"}
Serving == {"up", "signalled", "waiting"}
Stopping == {"summarizing", "writing", "retiring", "tearing", "exiting", "dying"}

TypeOK ==
  /\ TrackerTypeOK /\ RunnerTypeOK
  /\ proc \in {"down"} \cup Booting \cup Serving \cup Stopping
  /\ request \in Reason \cup {None} /\ seen \in Reason \cup {None}
  /\ summary \in Handoff \cup {None}
  /\ due \in SUBSET Reason

Init ==
  /\ TrackerInit /\ RunnerInit
  /\ proc = "down" /\ request = None /\ summary = None /\ seen = None
  /\ due = {}

-----------------------------------------------------------------------------
(* Bootstrap *)

\* The lock is taken; recovery and the clean-ups run.
Boot ==
  /\ proc = "down"
  /\ proc' = "recovering"
  /\ NewTracker /\ NewRunner /\ aborting' = FALSE
  /\ UNCHANGED <<file, handoffVars>>

\* The initial state is written and a tracker created.
WriteInitialState ==
  /\ proc = "recovering"
  /\ file' = Running(Nobody)
  /\ proc' = "handing"
  /\ UNCHANGED <<live, pending, inflight, frozen, runnerVars, aborting, handoffVars>>

\* consumeShutdownHandoff: a summary is renamed away and queued; without one
\* the request is read.
TakeHandoff ==
  /\ proc = "handing"
  /\ IF summary # None
       THEN /\ directives' = directives \cup {summary}
            /\ due' = due \ {summary}
            /\ summary' = None
            /\ proc' = "up" /\ runner' = "top"
            /\ UNCHANGED seen
       ELSE /\ seen' = request
            /\ proc' = "consuming"
            /\ UNCHANGED <<directives, due, summary, runner>>
  /\ UNCHANGED <<trackerVars, aborting, aborted, during, restart, prompt, asked, told,
                 request>>

TakeRequestFile ==
  /\ proc = "consuming"
  /\ IF seen # None
       THEN /\ request' = None
            /\ directives' = directives \cup {seen} /\ due' = due \ {seen}
       ELSE UNCHANGED <<request, directives, due>>
  /\ seen' = None
  /\ proc' = "up" /\ runner' = "top"
  /\ UNCHANGED <<trackerVars, aborting, aborted, during, restart, prompt, asked, told, summary>>

-----------------------------------------------------------------------------
(* Shutdown *)

\* Does the runtime hold a request it has read and will rename away?
Retiring == seen # None /\ proc \in {"consuming", "writing", "retiring"}

\* `saivage request-shutdown`, a process of its own, writes the request at any
\* time.  It may replace a request no summary tells of; and the rename that is
\* to retire an earlier request moves the new one, which nobody has read.
RecordReason(q) ==
  /\ request' = q
  /\ LET safe == due \ ({request} \ {summary})
     IN due' = IF Retiring THEN safe ELSE safe \cup {q}
  /\ UNCHANGED <<trackerVars, runnerVars, aborting, proc, summary, seen>>

\* SIGTERM: requestShutdown, whose listeners abort the session.
Signal ==
  /\ proc = "up"
  /\ proc' = "signalled"
  /\ aborting' = TRUE
  /\ aborted' = (aborted \/ InSession)
  /\ UNCHANGED <<trackerVars, runner, during, restart, directives, prompt, asked, told,
                 handoffVars>>

\* The Telegram bot has stopped; the planner is asked to restart.
AskPlanner ==
  /\ proc = "signalled"
  /\ proc' = "waiting"
  /\ TakeRequest("shutdown")
  /\ UNCHANGED <<trackerVars, aborting, runner, directives, prompt, asked, told, handoffVars>>

\* Mutation: there is no limit to the wait for an orderly end of the loop.
BeginShutdownPatient ==
  /\ proc = "waiting" /\ runner = "done"
  /\ proc' = "summarizing"
  /\ frozen' = TRUE
  /\ UNCHANGED <<live, pending, inflight, file, runnerVars, aborting, handoffVars>>

\* The planner has ended or 30 s have passed; the server is closed, and
\* shutdown() freezes the tracker.
BeginShutdown ==
  /\ proc = "waiting"
  /\ proc' = "summarizing"
  /\ frozen' = TRUE
  /\ UNCHANGED <<live, pending, inflight, file, runnerVars, aborting, handoffVars>>

\* writeShutdownSummary
ReadRequest ==
  /\ proc = "summarizing"
  /\ seen' = request
  /\ proc' = "writing"
  /\ UNCHANGED <<trackerVars, runnerVars, aborting, request, summary, due>>

\* Mutation: the request is retired before the summary is written.
WriteSummaryLast ==
  /\ proc = "writing"
  /\ request' = IF seen = None THEN request ELSE None
  /\ proc' = "retiring"
  /\ UNCHANGED <<trackerVars, runnerVars, aborting, summary, seen, due>>

WriteSummary ==
  /\ proc = "writing"
  /\ summary' = IF seen = None THEN Default ELSE seen
  /\ proc' = "retiring"
  /\ UNCHANGED <<trackerVars, runnerVars, aborting, request, seen, due>>

\* The summary cannot be written; shutdown goes on.
WriteSummaryFails ==
  /\ MayFail
  /\ proc = "writing"
  /\ proc' = "tearing"
  /\ seen' = None
  /\ UNCHANGED <<trackerVars, runnerVars, aborting, request, summary, due>>

RetireRequest ==
  /\ proc = "retiring"
  /\ request' = IF seen = None THEN request ELSE None
  /\ proc' = "tearing"
  /\ seen' = None
  /\ UNCHANGED <<trackerVars, runnerVars, aborting, summary, due>>

\* Supervisor, MCP runtime, knowledge and RAG are closed and "idle" is written.
WriteIdle ==
  /\ proc = "tearing"
  /\ file' = Final("idle")
  /\ proc' = "exiting"
  /\ UNCHANGED <<live, pending, inflight, frozen, runnerVars, aborting, handoffVars>>

\* process.exit: writes that have not landed never will.
Gone ==
  /\ proc' = "down"
  /\ NewTracker /\ NewRunner /\ aborting' = FALSE
  /\ seen' = None
  /\ UNCHANGED <<file, request, summary, due>>

Exit == proc \in {"exiting", "dying"} /\ Gone

Crash == MayCrash /\ proc # "down" /\ Gone

\* An unhandled rejection, that of a failing write of runtime.json among them:
\* the fatal handler freezes the tracker and writes "error".
Fatal ==
  /\ MayFail
  /\ proc \in Serving /\ inflight # None
  /\ proc' = "dying"
  /\ frozen' = TRUE
  /\ file' = Final("error")
  /\ UNCHANGED <<live, pending, inflight, runnerVars, aborting, handoffVars>>

-----------------------------------------------------------------------------
PlannerStep ==
  /\ proc \in Serving \cup Stopping
  /\ SessionStep
  /\ UNCHANGED <<aborting, proc, handoffVars>>

UserRestarts(r) ==
  /\ proc \in Serving \cup Stopping
  /\ RequestRestart(r)
  /\ UNCHANGED <<aborting, proc, handoffVars>>

TrackerStep == WriteLands /\ UNCHANGED <<runnerVars, aborting, proc, handoffVars>>

ShutdownStep ==
  \/ AskPlanner \/ BeginShutdown \/ ReadRequest \/ WriteSummary \/ WriteSummaryFails
  \/ RetireRequest \/ WriteIdle \/ Exit

BootStep == Boot \/ WriteInitialState \/ TakeHandoff \/ TakeRequestFile

Next ==
  \/ BootStep \/ PlannerStep \/ TrackerStep \/ ShutdownStep
  \/ Signal \/ Crash \/ Fatal
  \/ \E r \in Restart : UserRestarts(r)
  \/ \E q \in Reason : RecordReason(q)

\* Awaited operations end, a manager settles and an aborted session ends; one
\* that is not aborted may go on for ever.
LoopStep ==
  /\ proc \in Serving \cup Stopping
  /\ \/ StartSession \/ SessionNotCreated \/ SessionCreated \/ Requeued \/ DelayEnds
     \/ CallModel
     \/ ManagerEnds
     \/ aborted /\ SessionEnds("abort")
  /\ UNCHANGED <<aborting, proc, handoffVars>>

Spec ==
  /\ Init /\ [][Next]_vars
  /\ WF_vars(BootStep) /\ WF_vars(LoopStep) /\ WF_vars(TrackerStep) /\ WF_vars(ShutdownStep)

-----------------------------------------------------------------------------
(* Properties *)

\* While the process serves, what is on disk catches up with the tracker.
FileIsCurrent == proc \in Serving => FileFollowsTracker

\* A reason an operator has recorded is on disk, in one file or the other,
\* until a bootstrap has taken it, through any crash.  Two kinds are excepted:
\* a reason replaced by another before a summary tells of it, and one written
\* between the runtime's read of a request and its rename.
ReasonsSurvive == \A q \in due : q = request \/ q = summary

\* Once the runtime is shutting down no further planner session is started.
NoSessionAfterSignal ==
  [][aborting /\ runner # "creating" => runner' # "creating"]_vars

\* The signal leads to an end of the process, whatever planner and manager do.
ShutdownEnds == proc = "signalled" ~> proc = "down"

\* In continuous-improvement mode the planner loop stops for nothing but a
\* shutdown: whoever else aborts a session has left a request to go on
\* (runWithRecovery).  RuntimeProofs proves it; no run checks it.
StopsOnlyForShutdown == Continuous /\ runner = "done" => aborting

\* A restart asked for during a session reaches the model of a later one, or a
\* newer one, asked for before that, takes its place: the latest is told, unless
\* the process goes or the loop has died.
RestartDuringSessionIsTold ==
  \A r \in Restart :
    during = r ~> \/ r \in told \/ during \in Restart \ {r}
                 \/ runner \in {"off", "dead"} \/ aborting

\* docs/internals/architecture.md:467: a restart request "cancels the current
\* Planner turn, queues a restart directive, and starts a fresh Planner loop".
\* So no session runs on while a request is pending.  The code breaks it, by a
\* request made between two sessions: no run claims it.
PendingRestartAborts == restart \in Restart /\ InSession => aborted
=============================================================================
