---------------------------- MODULE RuntimeProofs ----------------------------
(* Safety of Runtime for any stages, restart requests and reasons.           *)
EXTENDS Runtime, TLAPS

(***************************************************************************)
(* The tracker and its file.  While the tracker is not frozen, what it     *)
(* knows is in the file, or in the last snapshot on its way there.         *)
(***************************************************************************)

Live == live \in Snapshots

\* Between processes, and until the initial state is written, nobody is live.
Unstarted ==
  proc \in {"down", "recovering"} =>
    live = Nobody /\ pending = None /\ inflight = None /\ ~frozen

Stopped == proc \in Stopping => frozen

OnItsWay ==
  ~frozen =>
    IF inflight = None
      THEN /\ pending = None
           /\ proc \notin {"down", "recovering"} => file = Running(live)
      ELSE live = IF pending = None THEN inflight ELSE pending

FileInv == Live /\ Unstarted /\ Stopped /\ OnItsWay

\* Nothing is live and nothing written before the first boot.
LEMMA InitFileInv == Init => FileInv
BY NoneAssumption
DEF Init, TrackerInit, FileInv, Live, Unstarted, Stopped, OnItsWay, Snapshots, Nobody, Stopping

\* A change of the tracker keeps its latest snapshot on the way to the file.
LEMMA TrackKeeps ==
  ASSUME FileInv, NEW s \in Snapshots, Track(s), proc \notin {"down", "recovering"},
         proc' = proc
  PROVE  FileInv'
BY NoneAssumption
DEF Track, Flush, trackerVars, FileInv, Live, Unstarted, Stopped, OnItsWay

\* A new process has a tracker of its own.
LEMMA NewTrackerKeeps ==
  ASSUME FileInv, NewTracker, proc' \in {"down", "recovering"}
  PROVE  FileInv'
BY NoneAssumption
DEF NewTracker, FileInv, Live, Unstarted, Stopped, OnItsWay, Snapshots, Nobody, Stopping

\* So does a step that leaves the tracker and its file alone, between the boot's
\* first write and the end of the process.
LEMMA UntouchedKeeps ==
  ASSUME FileInv, UNCHANGED trackerVars,
         proc' \in {"down", "recovering"} <=> proc \in {"down", "recovering"},
         proc' \in Stopping => proc \in Stopping
  PROVE  FileInv'
BY DEF trackerVars, FileInv, Live, Unstarted, Stopped, OnItsWay

\* A planner session tells the tracker of itself and of its manager.
LEMMA SessionKeeps ==
  ASSUME FileInv, PlannerStep
  PROVE  FileInv'
<1> USE DEF PlannerStep
<1>1. proc' = proc /\ proc \notin {"down", "recovering"}
  BY DEF Serving, Stopping
<1>2. UNCHANGED trackerVars => FileInv'
  BY <1>1, UntouchedKeeps
<1>3. \A b \in BOOLEAN : [live EXCEPT !.planner = b] \in Snapshots
  BY DEF FileInv, Live, Snapshots
<1>4. \A s \in Stage \cup {None} : [live EXCEPT !.stage = s] \in Snapshots
  BY DEF FileInv, Live, Snapshots
<1>5. CASE StartSession \/ SessionNotCreated \/ CallModel \/ Requeued \/ DelayEnds
  BY <1>2, <1>5 DEF StartSession, SessionNotCreated, CallModel, Requeued, DelayEnds
<1>6. CASE SessionCreated
  BY <1>1, <1>3, <1>6, TrackKeeps DEF SessionCreated
<1>7. CASE ManagerEnds
  BY <1>1, <1>4, <1>7, TrackKeeps DEF ManagerEnds
<1>8. ASSUME NEW s \in Stage, ManagerStarts(s) PROVE FileInv'
  BY <1>1, <1>4, <1>8, TrackKeeps DEF ManagerStarts
<1>9. ASSUME NEW result, SessionEnds(result) PROVE FileInv'
  BY <1>1, <1>3, <1>9, TrackKeeps DEF SessionEnds
<1> QED BY <1>5, <1>6, <1>7, <1>8, <1>9 DEF SessionStep

\* Boot, shutdown, failures and kills keep the file's bond with the tracker.
LEMMA StepFileInv == FileInv /\ [Next]_vars => FileInv'
<1> SUFFICES ASSUME FileInv, [Next]_vars PROVE FileInv'
  OBVIOUS
<1>1. CASE Boot \/ Exit \/ Crash
  BY <1>1, NewTrackerKeeps DEF Boot, Exit, Crash, Gone
<1>2. CASE WriteInitialState
  BY <1>2 DEF WriteInitialState, FileInv, Live, Unstarted, Stopped, OnItsWay, Stopping
<1>3. CASE TakeHandoff \/ TakeRequestFile
  BY <1>3, UntouchedKeeps DEF TakeHandoff, TakeRequestFile, Stopping
<1>4. CASE PlannerStep
  BY <1>4, SessionKeeps
<1>5. CASE TrackerStep
  BY <1>5, NoneAssumption
  DEF TrackerStep, WriteLands, FileInv, Live, Unstarted, Stopped, OnItsWay
<1>6. CASE Signal \/ AskPlanner
  BY <1>6, UntouchedKeeps DEF Signal, AskPlanner, Stopping
<1>7. CASE BeginShutdown
  BY <1>7 DEF BeginShutdown, FileInv, Live, Unstarted, Stopped, OnItsWay
<1>8. CASE ReadRequest \/ WriteSummary \/ WriteSummaryFails \/ RetireRequest
  BY <1>8, UntouchedKeeps DEF ReadRequest, WriteSummary, WriteSummaryFails, RetireRequest, Stopping
<1>9. CASE WriteIdle
  BY <1>9 DEF WriteIdle, FileInv, Live, Unstarted, Stopped, OnItsWay, Stopping
<1>10. CASE Fatal
  BY <1>10 DEF Fatal, FileInv, Live, Unstarted, Stopped, OnItsWay
<1>11. ASSUME NEW r \in Restart, UserRestarts(r) PROVE FileInv'
  BY <1>11, UntouchedKeeps DEF UserRestarts, RequestRestart
<1>12. ASSUME NEW q \in Reason, RecordReason(q) PROVE FileInv'
  BY <1>12, UntouchedKeeps DEF RecordReason
<1>13. CASE UNCHANGED vars
  BY <1>13, UntouchedKeeps DEF vars
<1> QED
  BY <1>1, <1>2, <1>3, <1>4, <1>5, <1>6, <1>7, <1>8, <1>9, <1>10, <1>11, <1>12, <1>13
  DEF Next, BootStep, ShutdownStep

\* While the process serves and no write is in flight, runtime.json is what the
\* tracker knows, so a kill leaves the current stage to recovery.
THEOREM FileStaysCurrent == Spec => []FileIsCurrent
<1>1. FileInv => FileIsCurrent
  BY DEF FileInv, OnItsWay, FileIsCurrent, FileFollowsTracker, Serving
<1> QED BY <1>1, InitFileInv, StepFileInv, PTL DEF Spec

(***************************************************************************)
(* The reasons of shutdowns.                                               *)
(***************************************************************************)

\* What the runtime will rename away is what it has read and a summary or a
\* boot tells of, or is no longer due; and a summary is only written when the
\* earlier one has been taken.
HandoffInv ==
  /\ due \subseteq Reason
  /\ ReasonsSurvive
  /\ Retiring => request = seen \/ request \notin due
  /\ proc = "retiring" /\ seen # None => summary = seen
  /\ proc \in {"consuming", "summarizing", "writing"} \cup Serving => summary = None

\* No reason has been recorded before the first boot.
LEMMA InitHandoffInv == Init => HandoffInv
BY DEF Init, HandoffInv, ReasonsSurvive, Retiring, Serving

\* Every step leaves a reason that is due in one of the two files.
LEMMA StepHandoffInv == HandoffInv /\ [Next]_vars => HandoffInv'
<1> SUFFICES ASSUME HandoffInv, [Next]_vars PROVE HandoffInv'
  OBVIOUS
<1> USE ReasonAssumption DEF HandoffInv, ReasonsSurvive, Retiring, Serving, Stopping, handoffVars
<1>1. CASE Boot \/ WriteInitialState
  BY <1>1 DEF Boot, WriteInitialState
<1>2. CASE Exit \/ Crash
  BY <1>2 DEF Exit, Crash, Gone
<1>3. CASE TakeHandoff
  BY <1>3 DEF TakeHandoff
<1>4. CASE TakeRequestFile
  BY <1>4 DEF TakeRequestFile
<1>5. CASE PlannerStep \/ TrackerStep
  BY <1>5 DEF PlannerStep, TrackerStep
<1>6. CASE Signal \/ AskPlanner \/ BeginShutdown \/ Fatal
  BY <1>6 DEF Signal, AskPlanner, BeginShutdown, Fatal
<1>7. CASE ReadRequest
  BY <1>7 DEF ReadRequest
<1>8. CASE WriteSummary
  BY <1>8 DEF WriteSummary
<1>9. CASE WriteSummaryFails \/ WriteIdle
  BY <1>9 DEF WriteSummaryFails, WriteIdle
<1>10. CASE RetireRequest
  BY <1>10 DEF RetireRequest
<1>11. ASSUME NEW r \in Restart, UserRestarts(r) PROVE HandoffInv'
  BY <1>11 DEF UserRestarts
<1>12. ASSUME NEW q \in Reason, RecordReason(q) PROVE HandoffInv'
  BY <1>12 DEF RecordReason
<1>13. CASE UNCHANGED vars
  BY <1>13 DEF vars
<1> QED
  BY <1>1, <1>2, <1>3, <1>4, <1>5, <1>6, <1>7, <1>8, <1>9, <1>10, <1>11, <1>12, <1>13
  DEF Next, BootStep, ShutdownStep

\* A reason an operator has recorded is on disk until a bootstrap has taken it,
\* whichever write fails and wherever a kill falls, unless the operator's writes
\* met: with an earlier request nobody had told of, or with the rename that
\* retires one.
THEOREM RecordedReasonsSurvive == Spec => []ReasonsSurvive
<1>1. HandoffInv => ReasonsSurvive
  BY DEF HandoffInv
<1> QED BY <1>1, InitHandoffInv, StepHandoffInv, PTL DEF Spec

(***************************************************************************)
(* Shutdown and the planner loop.                                          *)
(***************************************************************************)

\* Once the runtime is shutting down no further planner session is started: a
\* session that is being created after the signal was being created before it.
THEOREM NothingStartsAfterTheSignal == Spec => NoSessionAfterSignal
<1>1. [Next]_vars => [aborting /\ runner # "creating" => runner' # "creating"]_vars
  <2> SUFFICES ASSUME [Next]_vars, aborting, runner # "creating" PROVE runner' # "creating"
    OBVIOUS
  <2>1. CASE BootStep
    BY <2>1 DEF BootStep, Boot, NewRunner, WriteInitialState, TakeHandoff, TakeRequestFile, runnerVars
  <2>2. CASE PlannerStep
    <3>1. CASE \E result \in {"abort", "plan_done", "failure"} : SessionEnds(result)
      <4>1. PICK result \in {"abort", "plan_done", "failure"} : AfterSession(result)
        BY <3>1 DEF SessionEnds
      <4> QED BY <4>1 DEF AfterSession
    <3>2. CASE StartSession \/ SessionNotCreated \/ SessionCreated \/ Requeued \/ DelayEnds \/ CallModel
      BY <3>2 DEF StartSession, SessionNotCreated, SessionCreated, Requeued, DelayEnds, CallModel
    <3>3. CASE ManagerEnds \/ \E s \in Stage : ManagerStarts(s)
      BY <3>3 DEF ManagerStarts, ManagerEnds, runnerVars
    <3> QED BY <2>2, <3>1, <3>2, <3>3 DEF PlannerStep, SessionStep
  <2>3. CASE TrackerStep \/ ShutdownStep \/ Signal \/ Crash \/ Fatal
    BY <2>3 DEF TrackerStep, ShutdownStep, AskPlanner, BeginShutdown, ReadRequest, WriteSummary,
                WriteSummaryFails, RetireRequest, WriteIdle, Exit, Gone, NewRunner, Signal, Crash,
                Fatal, runnerVars
  <2>4. ASSUME NEW r \in Restart, UserRestarts(r) PROVE runner' # "creating"
    BY <2>4 DEF UserRestarts, RequestRestart
  <2>5. ASSUME NEW q \in Reason, RecordReason(q) PROVE runner' # "creating"
    BY <2>5 DEF RecordReason, runnerVars
  <2>6. CASE UNCHANGED vars
    BY <2>6 DEF vars, runnerVars
  <2> QED BY <2>1, <2>2, <2>3, <2>4, <2>5, <2>6 DEF Next
<1> QED BY <1>1, PTL DEF Spec, NoSessionAfterSignal

\* A session is aborted by the signal, or by a request that has been noted.
AbortsHaveReasons == aborted => aborting \/ during # None

LoopInv == AbortsHaveReasons /\ StopsOnlyForShutdown

\* What a session's end makes of the loop: it stops for a shutdown only.
LEMMA EndsGoOn ==
  ASSUME LoopInv, Continuous, NEW result, SessionEnds(result), aborting' = aborting
  PROVE  LoopInv'
<1>1. ~aborted' /\ (result = "abort" => aborted)
  BY DEF SessionEnds, SessionOver
<1>2. runner' = "done" => aborting
  BY <1>1 DEF SessionEnds, AfterSession, LoopInv, AbortsHaveReasons
<1> QED BY <1>1, <1>2 DEF LoopInv, AbortsHaveReasons, StopsOnlyForShutdown

\* A request is noted by the session it aborts.
LEMMA RequestsAreNoted ==
  ASSUME LoopInv, NEW r \in Requests, TakeRequest(r), UNCHANGED <<runner, aborting>>
  PROVE  LoopInv'
BY RequestAssumption DEF TakeRequest, LoopInv, AbortsHaveReasons, StopsOnlyForShutdown

\* In continuous-improvement mode every step keeps the loop's bond with shutdown.
LEMMA StepLoopInv == Continuous /\ LoopInv /\ [Next]_vars => LoopInv'
<1> SUFFICES ASSUME Continuous, LoopInv, [Next]_vars PROVE LoopInv'
  OBVIOUS
<1>1. UNCHANGED <<runner, aborted, during, aborting>> => LoopInv'
  BY DEF LoopInv, AbortsHaveReasons, StopsOnlyForShutdown
<1>2. CASE BootStep
  BY <1>1, <1>2 DEF BootStep, Boot, NewRunner, WriteInitialState, TakeHandoff, TakeRequestFile,
                    runnerVars, LoopInv, AbortsHaveReasons, StopsOnlyForShutdown
<1>3. CASE PlannerStep
  <2>1. aborting' = aborting
    BY <1>3 DEF PlannerStep
  <2>2. ASSUME NEW result, SessionEnds(result) PROVE LoopInv'
    BY <2>1, <2>2, EndsGoOn
  <2>3. CASE StartSession \/ SessionNotCreated \/ SessionCreated \/ Requeued \/ DelayEnds \/ CallModel
    BY <2>1, <2>3 DEF StartSession, SessionNotCreated, SessionOver, SessionCreated, Requeued,
                      DelayEnds, CallModel, LoopInv, AbortsHaveReasons, StopsOnlyForShutdown
  <2>4. CASE ManagerEnds \/ \E s \in Stage : ManagerStarts(s)
    BY <1>1, <2>1, <2>4 DEF ManagerStarts, ManagerEnds, runnerVars
  <2> QED BY <1>3, <2>2, <2>3, <2>4 DEF PlannerStep, SessionStep
<1>4. CASE Exit \/ Crash
  BY <1>4 DEF Exit, Crash, Gone, NewRunner, LoopInv, AbortsHaveReasons, StopsOnlyForShutdown
<1>5. CASE AskPlanner
  BY <1>5, RequestsAreNoted DEF AskPlanner, Requests
<1>6. CASE Signal
  BY <1>6 DEF Signal, LoopInv, AbortsHaveReasons, StopsOnlyForShutdown
<1>7. ASSUME NEW r \in Restart, UserRestarts(r) PROVE LoopInv'
  BY <1>7, RequestsAreNoted DEF UserRestarts, RequestRestart, Requests
<1>8. CASE \/ TrackerStep \/ BeginShutdown \/ ReadRequest \/ WriteSummary \/ WriteSummaryFails
           \/ RetireRequest \/ WriteIdle \/ Fatal \/ \E q \in Reason : RecordReason(q)
  BY <1>1, <1>8 DEF TrackerStep, BeginShutdown, ReadRequest, WriteSummary, WriteSummaryFails,
                    RetireRequest, WriteIdle, Fatal, RecordReason, runnerVars
<1>9. CASE UNCHANGED vars
  BY <1>1, <1>9 DEF vars, runnerVars
<1> QED
  BY <1>2, <1>3, <1>4, <1>5, <1>6, <1>7, <1>8, <1>9 DEF Next, ShutdownStep

\* In continuous-improvement mode the planner loop stops for nothing but a
\* shutdown, whatever sessions do and whichever requests abort them
\* (PlannerRunner.runWithRecovery).
THEOREM OnlyShutdownStops == Spec => []StopsOnlyForShutdown
<1>1. Init => LoopInv
  BY DEF Init, RunnerInit, LoopInv, AbortsHaveReasons, StopsOnlyForShutdown
<1>2. LoopInv => StopsOnlyForShutdown
  BY DEF LoopInv
<1>3. CASE Continuous
  <2>1. LoopInv /\ [Next]_vars => LoopInv'
    BY <1>3, StepLoopInv
  <2> QED BY <1>1, <1>2, <2>1, PTL DEF Spec
<1>4. CASE ~Continuous
  <2>1. StopsOnlyForShutdown
    BY <1>4 DEF StopsOnlyForShutdown
  <2> QED BY <2>1, PTL
<1> QED BY <1>3, <1>4

(***************************************************************************)
(* The types of the tracker, the loop, the process and its files.          *)
(***************************************************************************)

\* The states written without a snapshot.
LEMMA NobodyIsASnapshot ==
  /\ Nobody \in Snapshots /\ Running(Nobody) \in Files
  /\ \A status \in {"missing", "idle", "error"} : Final(status) \in Files
<1>1. Nobody \in Snapshots
  BY DEF Nobody, Snapshots
<1> QED BY <1>1 DEF Running, Final, Files

\* Recording a change leaves the tracker in its types.
LEMMA TrackTypes ==
  ASSUME TrackerTypeOK, NEW s \in Snapshots, Track(s) PROVE TrackerTypeOK'
BY DEF Track, Flush, trackerVars, TrackerTypeOK

\* So does a session.
LEMMA SessionTypes ==
  ASSUME TrackerTypeOK, RunnerTypeOK, SessionStep, UNCHANGED aborting
  PROVE  TrackerTypeOK' /\ RunnerTypeOK'
<1>1. UNCHANGED trackerVars => TrackerTypeOK'
  BY DEF trackerVars, TrackerTypeOK
<1>2. /\ \A b \in BOOLEAN : [live EXCEPT !.planner = b] \in Snapshots
      /\ \A s \in Stage \cup {None} : [live EXCEPT !.stage = s] \in Snapshots
  BY DEF TrackerTypeOK, Snapshots
<1>3. CASE StartSession \/ SessionNotCreated \/ CallModel \/ Requeued \/ DelayEnds
  <2>1. RunnerTypeOK'
    BY <1>3 DEF StartSession, SessionNotCreated, SessionOver, CallModel, Requeued, DelayEnds,
                RunnerTypeOK, Directives, Notices
  <2>2. UNCHANGED trackerVars
    BY <1>3 DEF StartSession, SessionNotCreated, CallModel, Requeued, DelayEnds
  <2> QED BY <1>1, <2>1, <2>2
<1>4. CASE SessionCreated
  BY <1>2, <1>4, TrackTypes DEF SessionCreated, RunnerTypeOK
<1>5. CASE ManagerEnds \/ \E s \in Stage : ManagerStarts(s)
  BY <1>2, <1>5, TrackTypes DEF ManagerEnds, ManagerStarts, runnerVars, RunnerTypeOK
<1>6. ASSUME NEW result, SessionEnds(result) PROVE TrackerTypeOK' /\ RunnerTypeOK'
  <2>1. TrackerTypeOK'
    BY <1>2, <1>6, TrackTypes DEF SessionEnds
  <2>2. runner' \in {"requeued", "done", "delay"} /\ restart' = None
    BY <1>6 DEF SessionEnds, AfterSession
  <2>3. directives' \in SUBSET Directives
    BY <1>6 DEF SessionEnds, AfterSession, RunnerTypeOK, Directives, Notices, Requests, Handoff
  <2> QED BY <1>6, <2>1, <2>2, <2>3 DEF SessionEnds, SessionOver, RunnerTypeOK
<1> QED BY <1>3, <1>4, <1>5, <1>6 DEF SessionStep

\* And boot, shutdown, failures and kills.
LEMMA StepTypes == TypeOK /\ [Next]_vars => TypeOK'
<1> SUFFICES ASSUME TypeOK, [Next]_vars PROVE TypeOK'
  OBVIOUS
<1> USE DEF TypeOK, Booting, Serving, Stopping
<1>1. UNCHANGED trackerVars => TrackerTypeOK'
  BY DEF trackerVars, TrackerTypeOK
<1>2. UNCHANGED <<runnerVars, aborting>> => RunnerTypeOK'
  BY DEF runnerVars, RunnerTypeOK
<1>3. Nobody \in Snapshots
  BY NobodyIsASnapshot
<1>4. CASE Boot \/ Exit \/ Crash
  <2>1. TrackerTypeOK'
    BY <1>3, <1>4 DEF Boot, Exit, Crash, Gone, NewTracker, TrackerTypeOK
  <2>2. RunnerTypeOK'
    BY <1>4 DEF Boot, Exit, Crash, Gone, NewRunner, RunnerTypeOK
  <2> QED BY <1>4, <2>1, <2>2 DEF Boot, Exit, Crash, Gone, handoffVars
<1>5. CASE WriteInitialState \/ WriteIdle \/ Fatal
  <2>1. file' \in Files
    BY <1>5, NobodyIsASnapshot DEF WriteInitialState, WriteIdle, Fatal
  <2>2. UNCHANGED <<live, pending, inflight>> /\ frozen' \in {frozen, TRUE}
    BY <1>5 DEF WriteInitialState, WriteIdle, Fatal
  <2>3. TrackerTypeOK'
    BY <2>1, <2>2 DEF TrackerTypeOK
  <2> QED BY <1>2, <1>5, <2>3 DEF WriteInitialState, WriteIdle, Fatal, handoffVars
<1>6. CASE TakeHandoff \/ TakeRequestFile
  <2>1. directives' \in SUBSET Directives
    BY <1>6 DEF TakeHandoff, TakeRequestFile, RunnerTypeOK, Directives, Handoff
  <2>2. runner' \in {runner, "top"} /\ UNCHANGED <<aborting, aborted, during, restart, prompt, asked, told>>
    BY <1>6 DEF TakeHandoff, TakeRequestFile
  <2>3. RunnerTypeOK'
    BY <2>1, <2>2 DEF RunnerTypeOK
  <2>4. due' \in SUBSET Reason /\ proc' \in {"up", "consuming"}
    BY <1>6 DEF TakeHandoff, TakeRequestFile
  <2> QED BY <1>1, <1>6, <2>3, <2>4 DEF TakeHandoff, TakeRequestFile
<1>7. CASE PlannerStep
  BY <1>7, SessionTypes DEF PlannerStep, handoffVars
<1>8. CASE TrackerStep
  <2>1. TrackerTypeOK'
    BY <1>8 DEF TrackerStep, WriteLands, TrackerTypeOK, Files, Running
  <2> QED BY <1>2, <1>8, <2>1 DEF TrackerStep, handoffVars
<1>9. ASSUME NEW r \in Requests, TakeRequest(r), NEW rs \in SUBSET Restart, asked' = rs,
             UNCHANGED <<runner, directives, prompt, told, trackerVars, aborting, handoffVars>>,
             proc' = proc \/ proc' = "waiting"
      PROVE  TypeOK'
  BY <1>1, <1>9 DEF TakeRequest, RunnerTypeOK, handoffVars
<1>10. CASE AskPlanner
  BY <1>9, <1>10 DEF AskPlanner, Requests, RunnerTypeOK
<1>11. ASSUME NEW r \in Restart, UserRestarts(r) PROVE TypeOK'
  BY <1>9, <1>11 DEF UserRestarts, RequestRestart, Requests, RunnerTypeOK
<1>12. CASE Signal
  BY <1>1, <1>12 DEF Signal, RunnerTypeOK, handoffVars
<1>13. CASE BeginShutdown
  BY <1>2, <1>13 DEF BeginShutdown, TrackerTypeOK, handoffVars
<1>14. CASE ReadRequest \/ WriteSummary \/ WriteSummaryFails \/ RetireRequest
  BY <1>1, <1>2, <1>14
  DEF ReadRequest, WriteSummary, WriteSummaryFails, RetireRequest, handoffVars, Handoff
<1>15. ASSUME NEW q \in Reason, RecordReason(q) PROVE TypeOK'
  BY <1>1, <1>2, <1>15 DEF RecordReason
<1>16. CASE UNCHANGED vars
  BY <1>1, <1>2, <1>16 DEF vars, handoffVars
<1> QED
  BY <1>4, <1>5, <1>6, <1>7, <1>8, <1>10, <1>11, <1>12, <1>13, <1>14, <1>15, <1>16
  DEF Next, BootStep, ShutdownStep

\* Tracker, loop, process and the files that outlive them keep their types
\* through any boots, signals, failures and kills.
THEOREM TypeCorrect == Spec => []TypeOK
<1>1. Init => TypeOK
  BY NobodyIsASnapshot DEF Init, TrackerInit, RunnerInit, TypeOK, TrackerTypeOK, RunnerTypeOK
<1> QED BY <1>1, StepTypes, PTL DEF Spec
=============================================================================
