--------------------------------- MODULE Shell ---------------------------------
(***************************************************************************)
(* One call of the tool run_command: the handler and its command            *)
(* (src/src/mcp/builtins/shell.ts) inside the timeout that every in-process *)
(* tool call has (mcp/in-process-registry.ts), on a clock that counts from  *)
(* the call.  A timer that is due, output that can be read and a stream     *)
(* that has closed are dealt with before the clock moves on.  Of the        *)
(* command's processes the model keeps the leader of the process group, a   *)
(* member of the group that has let go of the output, and a process that    *)
(* has left the group with the output open.                                 *)
(***************************************************************************)
EXTENDS Integers

CONSTANTS
  ShellTimeout,   \* mcp.shellTimeoutMs
  Headroom,       \* WALL_CLOCK_HEADROOM_MS
  Grace,          \* PROCESS_KILL_GRACE_MS
  Floor,          \* mcp.shellTimeoutFloorMs
  Poll,           \* growthPollInterval
  Timeouts,       \* values of timeout_ms and inactivity_timeout_ms; 0 for none
  PrepareTime, CheckTime, FinishTime,
                  \* the longest that making the directories, the two stats and
                  \* the handling of the closed streams take
  MaxTime         \* bound of the clock

\* The first two lines are refinements of the configuration's schema, the last is
\* what WALL_CLOCK_HEADROOM_MS is for.
ASSUME TimesAssumption ==
  /\ ShellTimeout \in Nat /\ Headroom \in Nat /\ ShellTimeout > Headroom
  /\ Floor \in Nat /\ Floor <= ShellTimeout - Headroom
  /\ Grace \in Nat /\ Poll \in Nat \ {0} /\ Timeouts \subseteq Nat
  /\ PrepareTime \in Nat /\ CheckTime \in Nat /\ FinishTime \in Nat /\ MaxTime \in Nat
  /\ PrepareTime + Grace + FinishTime < Headroom

Process == {"leader", "member", "fled"}
Group == {"leader", "member"}
Never == -1

VARIABLES
  now,
  phase,    \* of the handler: "idle", "preparing", "running", "finishing", "over"
  answer,   \* what the caller was told: "none", "result", "error", "timeout"
  limit,    \* effectiveTimeout
  quiet,    \* inactivityTimeoutMs, 0 for none
  since,    \* when the phase began
  procs,    \* the processes alive
  kind,     \* timeoutKind
  killAt,   \* when killTimer is due
  pollAt,   \* when growthTimer is due
  check,    \* when the check in flight began
  grown,    \* lastGrowthAt
  unread,   \* is there output in the pipe?
  spoke,    \* history: when the command last wrote
  silence,  \* history: its longest silence between two writes
  fled      \* history: has a process left the group?

timers == <<kind, killAt, pollAt, check>>
output == <<grown, unread, spoke, silence>>
shellVars == <<now, phase, answer, limit, quiet, since, procs, timers, output, fled>>

Longer(a, b) == IF a > b THEN a ELSE b
Shorter(a, b) == IF a < b THEN a ELSE b

ShellInit ==
  /\ now = 0 /\ phase = "idle" /\ answer = "none" /\ since = 0
  /\ limit = 0 /\ quiet = 0 /\ procs = {} /\ fled = FALSE
  /\ kind = "none" /\ killAt = Never /\ pollAt = Never /\ check = Never
  /\ grown = 0 /\ unread = FALSE /\ spoke = 0 /\ silence = 0

Clamp(ms) == IF ms = 0 THEN 0 ELSE Longer(ms, Floor)

InnerCap == ShellTimeout - Headroom

EffectiveTimeout(ms) == IF ms = 0 THEN InnerCap ELSE Shorter(Clamp(ms), InnerCap)

\* The call, and with it the caller's timer, begins.
Call ==
  /\ phase = "idle"
  /\ \E timeout \in Timeouts, inactivity \in Timeouts :
       limit' = EffectiveTimeout(timeout) /\ quiet' = Clamp(inactivity)
  /\ phase' = "preparing" /\ since' = now
  /\ UNCHANGED <<now, answer, procs, timers, output, fled>>

\* The promise of the handler settles; after a timeout nobody listens.
Answer(what) == answer' = IF answer = "none" THEN what ELSE answer

\* The log directories are there; the command starts, and its timers.
Spawn ==
  /\ phase = "preparing"
  /\ phase' = "running" /\ since' = now
  /\ procs' = {"leader"}
  /\ pollAt' = IF quiet = 0 THEN Never ELSE now + Poll
  /\ grown' = now /\ spoke' = now
  /\ UNCHANGED <<now, answer, limit, quiet, kind, killAt, check, unread, silence, fled>>

SpawnFails ==
  /\ phase = "preparing"
  /\ phase' = "over" /\ since' = now /\ Answer("error")
  /\ UNCHANGED <<now, limit, quiet, procs, timers, output, fled>>

-----------------------------------------------------------------------------
(* The command *)

\* A process that holds the output writes.
Write ==
  /\ phase = "running" /\ {"leader", "fled"} \cap procs # {}
  /\ unread' = TRUE /\ spoke' = now
  /\ silence' = Longer(silence, now - spoke)
  /\ UNCHANGED <<now, phase, answer, limit, quiet, since, procs, timers, grown, fled>>

\* A child of the leader redirects its output, or leaves the group.
Fork(p) ==
  /\ "leader" \in procs /\ p \in {"member", "fled"} \ procs
  /\ procs' = procs \cup {p} /\ fled' = (fled \/ p = "fled")
  /\ UNCHANGED <<now, phase, answer, limit, quiet, since, timers, output>>

\* A process ends, on its own or because of SIGTERM.
End(p) ==
  /\ p \in procs
  /\ procs' = procs \ {p}
  /\ UNCHANGED <<now, phase, answer, limit, quiet, since, timers, output, fled>>

-----------------------------------------------------------------------------
(* The handler *)

\* Mutation: what is read is logged, and its time is not noted.
ReadOutputUnnoted ==
  /\ unread /\ phase = "running"
  /\ unread' = FALSE
  /\ UNCHANGED <<now, phase, answer, limit, quiet, since, procs, timers, grown, spoke, silence, fled>>

ReadOutput ==
  /\ unread /\ phase = "running"
  /\ unread' = FALSE /\ grown' = now
  /\ UNCHANGED <<now, phase, answer, limit, quiet, since, procs, timers, spoke, silence, fled>>

\* SIGTERM and, after the grace, SIGKILL; only the first reason counts.
Terminate(why) ==
  IF kind # "none" THEN UNCHANGED <<kind, killAt>>
  ELSE kind' = why /\ killAt' = now + Grace

TotalIsDue == phase = "running" /\ kind = "none" /\ now >= since + limit

TotalTimerFires ==
  /\ TotalIsDue
  /\ Terminate("total")
  /\ UNCHANGED <<now, phase, answer, limit, quiet, since, procs, pollAt, check, output, fled>>

KillIsDue == phase = "running" /\ killAt # Never /\ now >= killAt

\* Mutation: the second signal is the first one again.
KillTimerFiresGently ==
  /\ KillIsDue
  /\ killAt' = Never
  /\ UNCHANGED <<now, phase, answer, limit, quiet, since, procs, kind, pollAt, check, output, fled>>

KillTimerFires ==
  /\ KillIsDue
  /\ procs' = procs \ Group /\ killAt' = Never
  /\ UNCHANGED <<now, phase, answer, limit, quiet, since, kind, pollAt, check, output, fled>>

PollIsDue == phase = "running" /\ pollAt # Never /\ now >= pollAt

\* checkOutputGrowth starts the two stats, unless a check is in flight.
PollTimerFires ==
  /\ PollIsDue
  /\ pollAt' = now + Poll
  /\ check' = IF check = Never THEN now ELSE check
  /\ UNCHANGED <<now, phase, answer, limit, quiet, since, procs, kind, killAt, output, fled>>

\* The stats have returned: the logs hold no more than what was read, and that
\* is compared as it is now.
CheckReturns ==
  /\ phase = "running" /\ check # Never
  /\ check' = Never
  /\ IF now - grown >= quiet THEN Terminate("inactivity") ELSE UNCHANGED <<kind, killAt>>
  /\ UNCHANGED <<now, phase, answer, limit, quiet, since, procs, pollAt, output, fled>>

\* Nobody holds the output any more: the child is closed and the timers are
\* cleared.
IsClosed == phase = "running" /\ ~unread /\ {"leader", "fled"} \cap procs = {}

Close ==
  /\ IsClosed
  /\ phase' = "finishing" /\ since' = now
  /\ killAt' = Never /\ pollAt' = Never /\ check' = Never
  /\ UNCHANGED <<now, answer, limit, quiet, procs, kind, output, fled>>

\* The logs are flushed and their tails read: the result, with its exit code.
Finish ==
  /\ phase = "finishing"
  /\ phase' = "over" /\ since' = now /\ Answer("result")
  /\ UNCHANGED <<now, limit, quiet, procs, timers, output, fled>>

\* A log cannot be written: the group is killed and the call fails.  A check in
\* flight finds nothing left to terminate.
StreamFails ==
  /\ phase \in {"running", "finishing"}
  /\ phase' = "over" /\ since' = now /\ Answer("error")
  /\ procs' = procs \ Group
  /\ killAt' = Never /\ pollAt' = Never /\ check' = Never
  /\ UNCHANGED <<now, limit, quiet, kind, output, fled>>

-----------------------------------------------------------------------------
(* The caller and the clock *)

CallerIsDue == phase # "idle" /\ answer = "none" /\ now >= ShellTimeout

\* withTimeout rejects; the handler goes on.
CallerTimesOut ==
  /\ CallerIsDue
  /\ answer' = "timeout"
  /\ UNCHANGED <<now, phase, limit, quiet, since, procs, timers, output, fled>>

Tick ==
  /\ phase # "idle" /\ now < MaxTime
  /\ ~TotalIsDue /\ ~KillIsDue /\ ~PollIsDue /\ ~IsClosed /\ ~CallerIsDue
  /\ ~(phase = "running" /\ unread)
  /\ phase = "preparing" => now < since + PrepareTime
  /\ phase = "running" /\ check # Never => now < check + CheckTime
  /\ phase = "finishing" => now < since + FinishTime
  /\ now' = now + 1
  /\ UNCHANGED <<phase, answer, limit, quiet, since, procs, timers, output, fled>>

Handler ==
  \/ Call \/ Spawn \/ SpawnFails \/ ReadOutput \/ TotalTimerFires \/ KillTimerFires
  \/ PollTimerFires \/ CheckReturns \/ Close \/ Finish \/ StreamFails

Command == Write \/ \E p \in Process : Fork(p) \/ End(p)

ShellNext == Handler \/ Command \/ CallerTimesOut \/ Tick

ShellSpec == ShellInit /\ [][ShellNext]_shellVars

-----------------------------------------------------------------------------
(* Properties *)

Times == Nat \cup {Never}

\* Types.
ShellTypeOK ==
  /\ now \in Nat /\ since \in Nat /\ limit \in Nat /\ quiet \in Nat
  /\ phase \in {"idle", "preparing", "running", "finishing", "over"}
  /\ answer \in {"none", "result", "error", "timeout"}
  /\ procs \subseteq Process /\ fled \in BOOLEAN
  /\ kind \in {"none", "total", "inactivity"}
  /\ killAt \in Times /\ pollAt \in Times /\ check \in Times
  /\ grown \in Nat /\ unread \in BOOLEAN /\ spoke \in Nat /\ silence \in Nat

\* A call always ends by the handler's own answer, however long its command
\* would run and whatever signals it ignores: the caller's timeout ends only
\* calls of which a process has left the group.
CommandsReportInTime ==
  [][answer' = "timeout" /\ answer # "timeout" => fled]_shellVars

\* A command is terminated for inactivity only if it was silent that long,
\* although what it writes is read later and a check's stats take their time.
OnlySilentCommandsAreKilled ==
  [][kind' = "inactivity" /\ kind = "none" => silence >= quiet \/ now - spoke >= quiet]_shellVars
=============================================================================
