---------------------------- MODULE PlannerRunner ----------------------------
(***************************************************************************)
(* The loop that runs one planner session after the other until plan_done  *)
(* or a shutdown (PlannerRunner.runWithRecovery,                           *)
(* src/src/server/planner-runner.ts), and the restart requests it serves   *)
(* (PlannerControl, src/src/server/bootstrap.ts).  A directive is what a   *)
(* later session is told in its first message.                             *)
(***************************************************************************)
EXTENDS RuntimeTracker

CONSTANTS
  Restart,     \* the restart requests users make
  Reason,      \* the reasons recorded for a shutdown
  Default,     \* the reason of a shutdown that has none recorded
  Continuous,  \* runtime.continuousImprovement
  MayFail      \* may creating a session or writing runtime.json fail?

ASSUME ReasonAssumption == None \notin Reason

Handoff == Reason \cup {Default}
Notices == {"recovery", "continue", "shutdown"}
Directives == Restart \cup Handoff \cup Notices
Requests == Restart \cup {"shutdown"}

ASSUME RequestAssumption == None \notin Requests

VARIABLES
  runner,     \* where the loop is
  aborting,   \* the runtime's cancellation signal
  aborted,    \* the abort signal of the current session
  during,     \* restartDuringRun
  restart,    \* pendingRestart
  directives, \* plannerStartupDirectives
  prompt,     \* the restarts in the first message of the current session
  asked,      \* the restarts requested of this process (history variable)
  told        \* those a model of this process has been told of (history variable)

runnerVars == <<runner, aborted, during, restart, directives, prompt, asked, told>>

InSession == runner \in {"creating", "opening", "running"}

RunnerTypeOK ==
  /\ runner \in {"off", "top", "creating", "opening", "running", "requeued", "delay",
                "done", "dead"}
  /\ aborting \in BOOLEAN /\ aborted \in BOOLEAN
  /\ during \in Requests \cup {None} /\ restart \in Requests \cup {None}
  /\ directives \in SUBSET Directives /\ prompt \in SUBSET Restart
  /\ asked \in SUBSET Restart /\ told \in SUBSET Restart

RunnerInit ==
  /\ runner = "off" /\ aborting = FALSE /\ aborted = FALSE
  /\ during = None /\ restart = None
  /\ directives = {} /\ prompt = {} /\ asked = {} /\ told = {}

NewRunner ==
  /\ runner' = "off" /\ aborted' = FALSE /\ during' = None /\ restart' = None
  /\ directives' = {} /\ prompt' = {} /\ asked' = {} /\ told' = {}

-----------------------------------------------------------------------------
\* What belongs to one iteration of the loop.
SessionOver == aborted' = FALSE /\ during' = None /\ prompt' = {}

\* Mutation: the loop's condition is checked only after a recovery delay.
StartSessionAnyway ==
  /\ runner = "top"
  /\ runner' = "creating" /\ aborted' = aborting
  /\ prompt' = directives \cap Restart /\ directives' = {}
  /\ UNCHANGED <<during, restart, asked, told, trackerVars>>

\* The top of the loop: listeners are set, the directives taken, and the
\* session's creation awaited.
StartSession ==
  /\ runner = "top"
  /\ IF aborting
       THEN runner' = "done" /\ UNCHANGED <<prompt, directives>>
       ELSE /\ runner' = "creating"
            /\ prompt' = directives \cap Restart /\ directives' = {}
  /\ UNCHANGED <<aborted, during, restart, asked, told, trackerVars>>

\* PlannerAgent.create throws, and so does runWithRecovery.
SessionNotCreated ==
  /\ MayFail
  /\ runner = "creating"
  /\ runner' = "dead"
  /\ SessionOver
  /\ UNCHANGED <<restart, directives, asked, told, trackerVars>>

SessionCreated ==
  /\ runner = "creating"
  /\ runner' = "opening"
  /\ Track([live EXCEPT !.planner = TRUE])
  /\ UNCHANGED <<aborted, during, restart, directives, prompt, asked, told>>

\* The first model call carries the directives, unless the session has been
\* aborted before it.
CallModel ==
  /\ runner = "opening" /\ ~aborted
  /\ runner' = "running"
  /\ told' = told \cup prompt
  /\ prompt' = {}
  /\ UNCHANGED <<aborted, during, restart, directives, asked, trackerVars>>

\* The model dispatches a manager, which sets the current stage; an aborted
\* session dispatches nothing any more.
ManagerStarts(s) ==
  /\ runner = "running" /\ ~aborted /\ live.stage = None /\ ~frozen
  /\ Track([live EXCEPT !.stage = s])
  /\ UNCHANGED runnerVars

\* The manager settles.  A frozen tracker keeps the stage.
ManagerEnds ==
  /\ live.stage # None /\ ~frozen
  /\ Track([live EXCEPT !.stage = None])
  /\ UNCHANGED runnerVars

\* Mutation: a request is dropped when the aborted session has finished anyway.
AfterSessionForgetful(result) ==
  /\ restart' = None
  /\ IF result = "abort" /\ restart # None
       THEN runner' = "requeued" /\ directives' = directives \cup {restart}
       ELSE runner' = (IF aborting THEN "done" ELSE "delay") /\ UNCHANGED directives

\* What the loop makes of a session's result: a requested restart comes first.
AfterSession(result) ==
  LET request == IF restart # None THEN restart ELSE during
  IN /\ restart' = None
     /\ IF request # None
          THEN runner' = "requeued" /\ directives' = directives \cup {request}
        ELSE IF result = "plan_done" /\ Continuous
          THEN runner' = "requeued" /\ directives' = directives \cup {"continue"}
        ELSE IF result \in {"abort", "plan_done"}
          THEN runner' = "done" /\ UNCHANGED directives
        ELSE runner' = (IF aborting THEN "done" ELSE "delay") /\ UNCHANGED directives

\* The session returns; an aborted one may still have finished its turn.  Its
\* manager has returned before, unless the tracker was frozen meanwhile.
SessionEnds(result) ==
  /\ runner \in {"opening", "running"} /\ (live.stage = None \/ frozen)
  /\ IF result = "abort" THEN aborted ELSE runner = "running"
  /\ AfterSession(result)
  /\ SessionOver
  /\ Track([live EXCEPT !.planner = FALSE])
  /\ UNCHANGED <<asked, told>>

\* The event is published and the loop continues.
Requeued ==
  /\ runner = "requeued"
  /\ runner' = "top"
  /\ UNCHANGED <<aborted, during, restart, directives, prompt, asked, told, trackerVars>>

\* The recovery delay elapses, or the shutdown signal ends it.
DelayEnds ==
  /\ runner = "delay"
  /\ IF aborting THEN runner' = "done" /\ UNCHANGED directives
                 ELSE runner' = "top" /\ directives' = directives \cup {"recovery"}
  /\ UNCHANGED <<aborted, during, restart, prompt, asked, told, trackerVars>>

\* requestRestart: the listener of a session in progress aborts it.
TakeRequest(r) ==
  /\ restart' = r
  /\ during' = IF InSession THEN r ELSE during
  /\ aborted' = (aborted \/ InSession)

\* /restart-planner from a chat
RequestRestart(r) ==
  /\ runner # "off" /\ r \notin asked
  /\ asked' = asked \cup {r}
  /\ TakeRequest(r)
  /\ UNCHANGED <<runner, directives, prompt, told, trackerVars>>

SessionStep ==
  \/ StartSession \/ SessionNotCreated \/ SessionCreated \/ CallModel
  \/ ManagerEnds \/ Requeued \/ DelayEnds
  \/ \E s \in Stage : ManagerStarts(s)
  \/ \E result \in {"abort", "plan_done", "failure"} : SessionEnds(result)
=============================================================================
