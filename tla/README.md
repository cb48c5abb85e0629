# Saivage: a verification project

Saivage runs a team of LLM agents over a software project: a *planner* keeps a
plan of stages, dispatches a *manager* per stage, and managers dispatch
*workers*. All of it is one Node.js process per project (`saivage serve`), whose
state lives under `.saivage/`: JSON files, event logs and two SQLite databases.
The process may be killed at any time, restarted by a person or a service
manager, and talked to while it runs.

This directory holds TLA+ models of the parts that have to be right for that to
work: the plan and its service, the dispatch of agents and their conversations,
the calls to models with their accounts and tokens, the memories and the index
agents search, the tools they run, the chats, the project lock, the life of the
runtime, and what a stage leaves on disk. TLC checks them on small instances and
TLAPS proves the theorems listed below for instances of any size. Paths are
relative to the repository; `src/src/x.ts` is written `x.ts`.

## 1. The system and its parts

Everything in one process shares one event loop, so what interleaves is code
between two awaits; what runs truly in parallel is other processes (a second
`serve`, `saivage login`, the backfill script, an operator's command, the
children of the shell tool, external tool servers) and the file system.

| part | state | operations | interacts with | what is hard | what makes it correct | modelled in |
|---|---|---|---|---|---|---|
| plan service (`mcp/plan-server.ts`, `mcp/plan-registry.ts`) | plan.json, its cache, `opQueue` | the plan_* tools | planner (writer), everyone (reads), knowledge store, stage-run store | async read-modify-write, caller timeouts, failing writes, kills, backfill | no lost update; append-only history; effects after the write; every call gets its turn | `PlanDocument`, `AtomicPlan`, `PlanService` |
| agent orchestrator, dispatcher, workers and managers, supervisor (`server/agent-orchestrator.ts`, `runtime/dispatcher.ts`, `agents/worker.ts`, `runtime/supervisor.ts`) | worker cache, agent registry, tracker, delayed second cancellations | gate, run_manager, run_<worker>, evict, cancel, pick and abort | planner, managers, workers, tracker, shutdown | five effects around two awaits, parallel dispatches, reused agents, a supervisor that acts half a minute after it looked | a manager runs the current stage; tracker, registry and cache agree; a worker runs its own task; cancellations are aimed; shutdown ends everything | `Orchestrator` |
| agent roster (`agents/roster.ts`, `mcp/runtime.ts`) | none | who may dispatch whom, which tools, which name | dispatcher, tools | names shared by servers | whatever is offered can be called | `Roster` |
| agent loop (`agents/base.ts`, `conversation-state.ts`, `runtime/compaction.ts`) | conversation, retry, repair and compaction counters | model call, tool batch, compaction, hook, repair, cancel | router, dispatcher, notes | limits, overflow, a compaction inside a compaction's hook, cancellation between awaits | every request is well formed; a cancelled run ends | `Conversation`, `AgentLoop` |
| notes (`runtime/notes.ts`, `server/routes/notes.ts`) | one file per note, what is pending | create, acknowledge, delete, inject | users, planner | both sides change files between awaits | no note is taken for seen that no planner has seen | `Notes`, in `AgentLoop` |
| provider router and routing (`providers/router.ts`, `candidate-planner.ts`, `usage-stats.ts`, `routing/resolver.ts`) | sticky choice, health records | chat with failover, cooldown, recovery | agent loop, credentials | agents share instances, keys and choices across awaits | an answer is of an eligible candidate; a forced account is used; the primary comes back | `Routing`, `CandidatePlan`, `ModelRouter` |
| provider clients (`providers/openai.ts`, `copilot.ts`, `pi-ai.ts`, `error.ts`) | none | translate requests, answers, errors | router | each wire has its own shape | calls and results stay paired | `Wire` |
| credentials (`auth/*`) | the auth file, its lock file | read, refresh, log in, log out | providers, other processes | refresh races, killed holders, rotating tokens | no update is lost | `AuthStore`, `OAuthLogins` |
| knowledge store (`knowledge/*`, `mcp/knowledgeMemory.ts`) | SQLite rows, the dataset published from them | create, update, supersede, archive, search, read, load | agents, plan service, retrieval | every change publishes through an ingest that takes time and may fail | readers agree; writes stay in scope | `KnowledgeAccess`, `IngestPipeline`, `Knowledge` |
| retrieval index (`rag/*`, `server/rag/*`) | datasets, vector store, registry, watcher | ingest, query, register, watch, reconcile, drop | file system, agents | three parties ingest; batches fail half way; floods, drops, crashes | what the index calls unchanged is indexed; one writer per dataset | `Retrieval`, `Chunking`, `Datasets` |
| chat, event bus and channels (`agents/chat.ts`, `server/chat-command-service.ts`, `server/telegram-bot.ts`, `events/bus.ts`, `channels/*`) | queues, sessions, subscriptions and their file | open, close, publish, accept, handle, resume | users, agents | bounded queues, closings during awaits, restarts | accepted messages are handled; subscribers hear; publishers go on | `Chat` |
| tool runtime (`mcp/*-runtime.ts`, `mcp/client.ts`, `mcp/in-process-registry.ts`) | client table, crash counts, health timer | start, check, restart, call, stop | agents | a server that ends while checks run | a crashed server comes back | `Services`; time-outs in `Shell` and `PlanService` |
| shell tool (`mcp/builtins/shell.ts`) | one command, its timers and streams | run_command | operating system | three timers, two signals, processes that leave the group | the answer is the handler's, in time | `Shell` |
| built-in tools (`mcp/builtins/filesystem.ts`, `web.ts`, `mcp/httpFetch.ts`, `agents/conventions.ts`) | none | files, patches, searches, pages | agents | limits, half-applied patches | agents cannot touch the plan | `FileTools`, `WebTools` |
| runtime lock (`runtime/runtime-lock.ts`) | runtime.lock | acquire, release | other processes | system calls of two processes interleave, pid reuse, age | one holder per project | `RuntimeLock` |
| runtime tracker (`runtime/recovery.ts`) | live agents and stage, queued snapshot, runtime.json | agentStarted, agentStopped, setCurrentStage, freeze | everyone; recovery after a crash | coalesced async writes, freeze during a write | the file catches up | `RuntimeTracker`, in `Runtime` |
| planner runner (`server/planner-runner.ts`, `PlannerControl` in `server/bootstrap.ts`) | startup directives, pending restart, listeners | session, recovery delay, restart request, cancellation | planner, chat, shutdown | requests, aborts and results race | goes on unless told to stop; a request is told to a later session | `PlannerRunner`, in `Runtime` |
| lifecycle and handoff (`runtime/lifecycle.ts`, `runtime/shutdown-handoff.ts`, `server/cli.ts`, `server/bootstrap.ts`) | shutdown-request.json, shutdown-summary.json, cancellation signal | boot, signal, shutdown, fatal handler, request-shutdown | all | a reason moves between files while anything fails | a recorded reason reaches the next planner; shutdown ends | `Runtime` |
| stage-run store (`store/stage-run-store.ts`) and crash recovery (`runtime/recovery.ts`) | tasks.json, reports, summary.json, events.jsonl, `writeQueue` | the writers, mark*, readEvents, recoverFromCrash | managers, workers, plan service, dashboard | two writes per operation, torn appends, crashes of recovery | the log tells of nothing that is not there; no finished work is redone | `StageRun` |
| project store and backfill (`store/project-store.ts`, `scripts/backfill-plan-history.ts`) | none | lists, errors, timeline, backfill | dashboard, plan service | logs and directories in any state | what is read is what was written | `StageArchive` |
| secrets (`security/secrets.ts`) | none | redact, classify names | all tools | overlapping hits | takes out the hits and nothing else | `Secrets` |
| other agents' prompts, dashboard server, configuration schemas, web application | | | | wording, read models, presentation | | no, see section 6 |

`PROJECT.json` lists the same parts with their source files, and under `hazards`
every place where this code can go wrong in a way a test would hardly reach,
with the properties that look at it.

## 2. Modules and how they stand for the code

An arrow reads "is extended by"; a dotted one "is instantiated by".

```
PlanDocument ─► AtomicPlan ·· refined by ·· PlanService ─► MCPlanService ◄·· StageArchive
     └────────► Orchestrator ─► MCOrchestrator ◄·· Roster

Conversation ─► Notes ─► AgentLoop
CandidatePlan, AuthStore ─► ModelRouter ─► MCModelRouter ◄·· Routing, Conversation, Wire, OAuthLogins
Roster ─► Routing

IngestPipeline, KnowledgeAccess ─► Knowledge ─► MCKnowledge        (Knowledge ◄·· Roster)
IngestPipeline ─► Retrieval ─► MCRetrieval ◄─ Chunking, Datasets

RuntimeTracker ─► PlannerRunner ─► Runtime       StageRun       RuntimeLock
Shell, WebTools ─► MCShell ◄·· Roster, Secrets   FileTools ─► WebTools      Chat      Services
```

with the proofs in `PlanServiceProofs`, `OrchestratorProofs`, `KnowledgeProofs`,
`RetrievalProofs`, `RuntimeProofs` and `StageRunProofs`, each of which extends the
module it is named for; in `LockFileProofs`, which extends the two machines with a
lock file, `RuntimeLock` and `ModelRouter` (with `AuthStore` below it); and in
`AgentProofs`, which extends `AgentLoop`, `Shell` and `Chat`. There are two kinds of module. Those with VARIABLES are state machines, one action per
stretch of code between two awaits. The others (`CandidatePlan`, `Routing`,
`Roster`, `Wire`, `OAuthLogins`, `Chunking`, `Datasets`, `StageArchive`,
`FileTools`, `WebTools`, `Secrets`, `IngestPipeline`, `KnowledgeAccess`) are
algorithms as operators, used by the machines or held to reference definitions by
the assumptions of section 3.

### The plan and the agents

**PlanDocument** is plan.json as data and one operator per writer tool: the
document the tool writes, or `Rejected`. A stage is its id and whether it has a
`started_at`; `Valid` is the schema's `superRefine`, which every write passes.
Texts of a stage are left out: no tool looks at them beyond their type.

**AtomicPlan** is the promise: one document, changed in a single step by each
call. **PlanService** is the service: calls queue on `opQueue`
(`HandleToolCall`), start when they are the head (`StartHandler`), write a
temporary file and rename it (`Rename`, `WriteFails`), replace the cache
(`Publish`), and for `plan_complete_stage` archive knowledge (`Archive`) and
record the event (`MarkCompleted`). Callers time out without stopping their
handler, the process is killed at any step, and the backfill script writes while
no runtime is up. The mapping to the promise is `plan <- disk`.

**StageArchive** is what is read back of stages: the event log with its torn
lines, the status and times of a stage, the run lists, the dashboard's errors and
timeline, and the script that rebuilds a history from directories.

**Orchestrator** takes the plan as one atomic document (what `PlanService` is
shown to implement) and models what runs between two awaits of a dispatch:
`GateReadsPlan` and `GateLooksUp` are `assertStageDispatchable`, `StartManager`
the synchronous part of `run` after the manager's creation, `SettleManager` its
`finally`; `CreateWorker` caches, `StartWorker` tracks and registers, `Prompt` is
the first synchronous part of `run`/`runNext`, `WorkerLoops` the check of the
cancellation flag before a model call, `WorkerAnswers` what follows it. What the
models behind the agents answer is a nondeterministic choice.

**Roster** is the table of roles: who dispatches whom and with which arguments,
which tools a role is offered and by which alias, in which order the supervisor
aborts.

### The conversation

**Conversation** is the message list: a message is its kind, the model call it
belongs to, the user notes it carries and a size. `Kept` is what a
failed summary keeps; its pair-splitting rules are the code's. **Notes** adds the
note files, which users create, acknowledge and delete between any two awaits.
**AgentLoop** is `runLoop` and `callLLM`: retries, compaction and its fallback,
the planner's hook (which calls the model through the same `callLLM`, so the
state has a stack, `frames`), invalid endings, nudges, tool batches, and the
sessions around the loop. **Wire** is what each provider client makes of a
conversation, an answer and an error. The two meet at `WellFormed`: every request
of the loop is well formed (proved), and every well-formed conversation of up to
six messages is one each wire accepts (checked in `model_calls`).

### Calling a model

**Routing** goes from a role to a model and its accounts, and from accounts and
their usage to an order. **CandidatePlan** is the chain of candidates of a call.
**AuthStore** is the file of OAuth profiles under its lock file: a key is
fetched, found expired, the lock taken (or reclaimed as stale), the profile read
again, refreshed and written, while the command line logs in or out, is
interrupted (its signal handler unlinks the lock and goes on) or is killed.
**ModelRouter** composes the two: agents share instances, health and the sticky
failover; every call resolves its key through AuthStore. **OAuthLogins** is how a
login comes by its tokens: the code grants with their callback port and the
polling device grant.

### What agents know

**IngestPipeline** is one ingest, in the two tables it writes in different
transactions. **Knowledge** are the memory tools over the SQLite rows, the stage
archive, the republication every change triggers, searches that wait for their
embedding, and what a new agent is told. **KnowledgeAccess** is the permission
matrix. **Retrieval** is a collection of documents: edits of its files, the
watcher's batches with debounce and floods, `rag_ingest`, and the control tools
with their single-flight slot and the rollback of the registry (`RollBack`).
**Chunking** are the chunkers over lines of words; **Datasets** the store's
tables, batching, filters, queries, registration and the gate of the tools.

### Chat and tools

**Chat** has the sessions of web sockets or of one Telegram chat, the agent's
bounded queue, the channel's buffer, the bus's delivery time-out and the
subscriptions file across restarts. **Services** has external servers: start from
the configuration, health checks, restarts, give-up, shutdown. **Shell** is one
`run_command` on a clock: the caller's, the wall-clock, the inactivity and the
kill timers, the group's leader, a member that let go of the output and a process
that left the group with the output open. **FileTools**, **WebTools** and
**Secrets** are functions of what they read.

### The process

**RuntimeLock** has one action per system call of `acquireRuntimeLock`, for any
number of processes, with kills, pid reuse and the 14 day horizon.

**RuntimeTracker**, **PlannerRunner** and **Runtime** are layers of one
specification, run as `Runtime`: the tracker's coalesced writer, the planner's
recovery loop with restart requests, and around them boot, signal, shutdown,
fatal handler, kill and the files that hand a shutdown's reason over. In
`Runtime` a planner session is what it does to the tracker.

**StageRun** is a stage's documents and event log behind the store's one queue:
an operation writes a document (`WriteDocument`), then its events
(`AppendEvent`); either may fail (`WriteFails`), a kill may tear an append
(`Gone`). `Recover` is `recoverFromCrash`. The log is the set of its whole lines
plus what follows the last line feed; `ReadEvents` is what `readEvents` would
return while no garbled line makes it throw.

A definition whose comment begins with "Mutation:" is a plausible bug in the
definition that follows it, and no part of the model: each property of the runs is
known to fail when such a mutation takes the place of the definition it distorts.

## 3. What is checked

### Runs

| run | asks | bounds |
|---|---|---|
| `plan_service` | Is the service the atomic plan, whatever times out, fails or is killed? `AbstractSpec`, `CacheIsTheFile`, `EffectsFollowTheWrite`, `CallsEnd` | 1 stage, 2 calls at a time, unbounded in number |
| `orchestrator` | Do gate, tracker, registry, cache and prompts agree, are cancellations of one-shot workers aimed, and does a shutdown end every dispatch? `ManagerStageIsCurrent`, `BookkeepingAgrees`, `PromptedForItsTask`, `OneShotCancelIsAimed`, `ShutdownEndsRuns` | 2 stages, 1 manager, 2 agents, a stage-scoped and a one-shot role, 2 tasks; until a worker is dispatched for another stage than its manager's (`NotStrayed`) |
| `lock_serial` | Do launches that do not overlap exclude each other? `ExclusiveUnlessExpired`, `NoLiveTakeover`, `AttemptEnds` | 2 pids, reused |
| `runtime` | Are reasons, restarts and the tracker's file right through sessions, shutdown, failures and kills? `FileIsCurrent`, `ReasonsSurvive`, `NoSessionAfterSignal`, `ShutdownEnds`, `RestartDuringSessionIsTold` | 1 stage, 2 restart requests and 2 reasons, each used again at will; any number of boots and sessions |
| `stage_run` | Is the event log honest and recovery right? `EventsFollowDocuments`, `RecoveryFollowsReports` | 1 stage, 1 task, 3 queued writes |
| `agent_loop` | Is every request whole, do notes reach the planner, does a cancelled run end? `RequestsAreWellFormed`, `FirstPlannerHasItsNotes`, `UnseenOnlyAfterFailure`, `CancelEnds` | a planner, a worker or a chat; 1 note, permanent or not; contexts of 4 tokens with a large result of 4; 1 compaction and 1 fallback, 2 invalid endings, 2 nudges, a hook of 1 turn, 2 rounds, compactions nested once, 2 sessions |
| `model_calls` | Are tokens kept, plans and answers sound, accounts respected, the primary restored? `NoLostUpdate`, `PlansAndAnswersAreSound`, `ForcedProfileIsUsed`, `PrimaryComesUpAgain` | 2 agents, a primary with OAuth and a spare, 2 profiles, 1 generation of expiry, a cooldown of 1 tick; of the wires, every well-formed conversation of up to 6 messages |
| `knowledge` | Does each reader show the memories whose status says so, and nobody change what is not his? `ReadersFollowStatus`, `DuplicatesComeFromSupersession`, `LockIsOfTheIngest`, `AnswersAreLive`, `WritesStayInScope` | 2 interchangeable callers of 3 roles, 2 topics, 1 stage, 3 writes, a budget for one of two memories |
| `retrieval` | Is what the index calls unchanged indexed, by one writer, and does the watcher catch up? `SkippedFilesAreIndexed`, `OneIngestAtATime`, `WatchedFilesAreIndexed` | 2 interchangeable files, both there at first, and two edits, to a new content, an earlier one or none; batches of 1, a flood of 2, 1 store in the registry, 1 ingest that a drop has passed; until two ingests were in one store (`NotShared`) |
| `chat` | Do subscribers hear, are accepted messages handled, do publishers go on? `ChatsHearEvents`, `AcceptedAreHandled`, `PublishersGoOn` | 2 agents, whose run may fail before it listens, 3 messages under way, queues of 2 |
| `shell` | Does the handler answer before its caller gives up, and are only silent commands killed for silence? `CommandsReportInTime`, `OnlySilentCommandsAreKilled` | a time-out of 9 with headroom 4, requested and idle time-outs of 0, 1, 3 and 7, twelve ticks |
| `services` | *violated*: a crashed server is found and restarted. `CrashedServicesComeBack` | 2 servers, 1 health check at a time, 3 restarts |

Each machine has a type invariant, and all but that of `AtomicPlan` are proved, by
a theorem of their own or as a part of the inductive invariant of others
(section 5); no configuration repeats them. `CHECK_DEADLOCK FALSE` is set
throughout because each of these systems may rest: nobody has to call, launch,
write or dispatch anything.

Two configurations have a `CONSTRAINT`: TLC follows a behaviour up to the first state
that breaks it and no further. `NotStrayed` ends a behaviour of `Orchestrator` with
the first worker dispatched for a stage other than its manager's (or, with a second
manager, with two at work at once): `BookkeepingAgrees` and `PromptedForItsTask` say
nothing of what comes after, because there they fail (below). `ManagerStageIsCurrent`
and `OneShotCancelIsAimed` do speak of it, and are proved for it (section 5);
`ShutdownEndsRuns` is checked for the behaviours that do not stray. `NotShared` ends a
behaviour of `Retrieval` with the first store that two ingests write to after a drop,
where its properties claim nothing but `OneIngestAtATime`, again proved without the
constraint. The proofs know of neither. The symmetry of `retrieval`'s files is sound:
they differ in nothing but their names, and the run has no liveness property.

Why the bounds are enough to be interesting. A lost update needs two overlapping
calls and one document. A stale cache entry needs a second stage, a wrong prompt a
second task, an id used twice a second agent. Two restarts and a shutdown compete
for one `pendingRestart`, two reasons for one request file, so that each is
overwritten, and read while another is written; the second boot, which takes a
reason over, is reached since boots are not bounded. In `StageRun` the third queued write lets an
operation fail with others before and behind it. In `AgentLoop` one compaction
within the hook of another is where the stack matters, and a result as large as the
threshold makes compaction fail and fall back. A shared instance needs two agents,
a forced account two profiles, a wrong sticky a spare whose own failover leads
back. Three memories are a record, its replacement and a third that competes for
the topic. Two files let one batch be stored and the other fail; an edit beyond the first content
leaves room for that content to come back; and one ingest that a drop has passed meets
the dataset registered anew. A queue of two and
three messages make it refuse. The shell's time-outs come in every order.

### Assumptions TLC evaluates

The algorithms without state are held to reference definitions by named
assumptions of the MC modules, over every small input; TLC evaluates them before
it explores the run's states. Some say what the code's documents do not, and name
the line.

* `MCPlanService`, of the plan and `StageArchive`: `StartsAreKept`,
  `EventsAreReadOnce`, `TornLinesBlockTheLog`, `StatusFollowsThePlan`,
  `OneBadStageHidesAll`, `MisnamedSummariesAreInvalid`, `BackfillIsIdempotent`,
  `MisnamedSummariesComeBack`, `FailuresAreShown`, `TimelineIsOfHistory`,
  `ListedSessionsOpen`.
* `MCModelRouter`, of `OAuthLogins`: `LoginsWaitForTheBrowser`,
  `RefreshesNeedANewToken`, `AccountsNeedTheirClaims`, `AnthropicHasNoAccount`,
  `LogoutsAreAimed`, `PollsKeepTheirDistance`, `OneFailureEndsTheLogin`,
  `CopilotKeepsTheDeviceToken`, `TokensNameTheHost`. Routing, candidate chains and
  wires are part of the run's `PlansAndAnswersAreSound`, since a router may start
  with any of the configurations.
* `MCRetrieval`, of `Chunking`: `ChunksAreTheDocument`, `CapBoundsTheWords`,
  `CapIsExceeded`, `ChunksAreTheCode`, `PreludesMissTheirLines`, `NotesAreWhole`;
  of `Datasets`: `QueriesAnswerTheNearest`, `QueriesMissTheFar`,
  `FiltersAreChecked`, `EmbeddingsEnd`, `RegistryMirrorsTheStore`, `WidthsMayDiffer`,
  `RegisteredAnewIsTheOld`, `ToolsAreGated`, `BatchesAreWhole`, `RootsAreInside`,
  `ErrorsAreTold`.
* `MCShell`, of `FileTools`: `PlanIsOutOfReach`, `PagesAreTheText`,
  `PagesAreTheDirectory`, `ReadsAreLimited`, `SearchesAreComplete`,
  `EditsReplaceOneMatch`, `DollarsAreRewritten`, `PatchesGiveTheNewFile`,
  `NewFilesAreWhole`, `BareAdditionsComeEarly`, `PatchesAreNotAtomic`; of
  `WebTools`: `FetchesAreWhole`, `SearchesGiveTheFirstLinks`; of `Secrets`:
  `RedactionTakesOnlyHits`, `RefusalsNameTheFields`, `NamesAreClassified`; of
  `Roster`: `OfferedToolsCanBeCalled`, `NamesMoveToOtherServers`,
  `NamesakesAreShadowed`.

### What the violated run shows

`services` — the client of an external server is called connected until `stop` is
called (`mcp/client.ts:48`); that its process has ended does not change it, so the
health checks never find it disconnected and never restart it, against
`docs/internals/mcp/runtime.md:85`.

### What else the models show

The following were met while modelling. None has a run of its own; where a switch
or a definition of a module reproduces one, it is named.

*Plan, agents, stages*

* With `Overlap = TRUE` and three pids, `MutualExclusion` of `RuntimeLock` fails:
  between judging a dead owner's lock stale and unlinking the path, another launch
  may have replaced it; the unlink removes the new lock, and both processes hold the
  project (`runtime/runtime-lock.ts:103`).
  The lock is taken for one user's: the probe of an owner that belongs to another
  user fails with EPERM, which `runtime-lock.ts:95` counts as a dead owner, so that
  two users sharing a project exclude nobody. The model has no such owners.
* Two `run_manager` calls of one response, or a worker dispatched for another stage
  than its manager's, break tracker and cache: the tracker names one stage while
  another's manager works, and two dispatches may drive one cached agent. Nothing in
  the code rules either out (`runtime/dispatcher.ts:303` limits workers only, and only
  per role), so the model makes both steps and remembers them in `strayed`, up to
  which `BookkeepingAgrees` and `PromptedForItsTask` are stated.
* A recorded reason for a shutdown is lost in two ways, both of them in `Runtime` and
  excepted by `ReasonsSurvive`: a second `request-shutdown` replaces the first
  (`runtime/shutdown-handoff.ts:22-32` writes without looking), and one written
  between the runtime's read of a request and the rename that marks it consumed
  (lines 37-74) is renamed away unread.
* Of two restarts requested during one session the first is forgotten
  (`server/planner-runner.ts:110`, `server/bootstrap.ts:99-107`):
  `RestartDuringSessionIsTold` is about the latest.
* `cancel()` sets a flag nothing resets: arriving after the last check of a run that
  succeeds, it ends a cached reviewer's next task. This is why
  `OneShotCancelIsAimed` speaks of one-shot workers.
* A worker is cached before its task is recorded. When recording throws, the next
  dispatch finds it with a turn count of zero and runs it with the first task's
  prompt. `PromptedForItsTask` therefore excepts a worker whose first dispatch failed.
* A restart requested while no session is open is consumed after the next session,
  which runs untold and whose result is discarded (`PendingRestartAborts`).
* The fatal handler writes a runtime state without a stage, and recovery takes that
  for a fresh start (`NothingLeftInProgress`).
* A torn line makes every later `readEvents` throw; a stage is never shown as
  running; one broken stage empties every list of stages, one broken chat log every
  list of sessions; the dashboard lists a failed stage twice.
* The backfill compares directory names and appends the ids the summaries give; a
  dry run that would be refused for a duplicate exits 0, its header says 2.
* `data_agent` and `designer` may change the documents of stages; the librarian's
  territory is out of reach of the file tools.

*Conversation and notes*

* `DeliveredIsInContext` fails beyond the first planner of a process: what was
  delivered to the first is taken for delivered to the next.
* An orphaned tool result, a conversation's own fault, cools down every model in
  turn. The OpenAI wires drop `is_error`; the Responses wire puts an assistant's
  text behind its calls; images and thinking become empty text for Copilot.
* Arguments of a tool call that were cut off make `JSON.parse` throw in `openai.ts`,
  and the model is cooled down for it; PiAi drops the abort signal and the status of
  errors; the finish reason by which `providers/copilot.ts:33-35` would have the
  agent retry is not looked at by the loop, which counts `toolCalls`.

*Models and accounts*

* An instance that awaits between taking its key and using it, as Copilot's does
  (`providers/copilot.ts:187`), may be given another agent's key meanwhile. Such
  instances are `Late`, and `ForcedProfileIsUsed` excepts them: for the call of one
  that is shared it is false.
* `docs/guide/routing.md:63` has preferred models tried in order; only the first is
  ever used. `allowed_accounts` does not bind a bare model, and
  `allowedAccountRefs` has no reader. An account that is also a provider instance is
  tried twice for a bare model. A dotted default account is known to the resolver
  and not to the credentials. A provider with accounts has no usage of its own, one
  that reports ratios hides its configured tokens, and known exhaustion ranks before
  the unknown.
* The signal handlers of the auth store remove the lock that is held but do not end
  the process, which goes on with its update while another takes the lock. The
  property `NoLostUpdate` speaks of histories in which no lock was taken from a live holder.
* A login whose port is free waits for ever for a browser that was refused or runs
  elsewhere. A refresh that keeps its refresh token counts as failed. Claims with
  characters of the URL alphabet are not read, so accounts replace one another. One
  failed poll ends a device login, a slow_down may quicken it, and the enterprise's
  domain is not passed on.

*Memories and the index*

* `list_memories` goes on showing a replaced memory as active, and `get_memory` and
  the search hide it, against `docs/internals/knowledge/skills-and-memory.md:131-134`:
  `supersede` sets the column `status` alone, and the list filters by `record_json`
  (`knowledge/lifecycle.ts:957`). `ListShowsTheUnarchived` says what the code does.
* `get_memory` by topic ignores the scope's reference and takes the first row of
  several; a new agent is offered other stages' memories, survivors
  without targets are not told again after a compaction, skills removed from the
  bundle stay active, and `createSkill` and its siblings have no caller.
* A batch is stored, the next one fails, and the file gets the content back that
  `file_state` remembers (a checkout, an undo): every later ingest skips it, and its
  newer chunks stay. The file is then `torn`, and `SkippedFilesAreIndexed` and
  `WatchedFilesAreIndexed` except it.
* A drop removes the directory under an ingest that `rag_ingest` has running. It
  lives on in its await, and its end unlinks the lock by its path
  (`rag/pipeline.ts:298-300`, `rag/lock.ts:59-71`): after the dataset is registered
  anew that is the lock of a newer ingest, and a third may start. Until that end
  (`overtaken`) `OneIngestAtATime` claims nothing; if the older one opens the new
  store as well (`shared`), nothing is claimed of what the store holds.
* `SweepRemoves` of `Retrieval` fails: a sweep leaves the files of a source that
  has none any more. `PendingMarksTheMissing` of `Knowledge` fails: a memory whose
  ingest was refused another's lock is not in the index and not marked.
* Chunks may exceed `chunkSize`, against `rag/chunker/markdown.ts:9-10`; the
  configured `chunkSize`, overlap and exclusions are not used; what stands before a
  symbol names the last line of the one before.
* A filter applied after the search sees the nearest `4 * topK` chunks only;
  `sourceHash` is among the filters before it by `rag/store/sql.ts:6-8`, among
  those after it by the code; an `in` without columns is an internal error.
* A store is opened again by each query and ingest and not closed; a process that
  dies between creating the tables and stamping them may leave vectors of another
  width (`WidthsMayDiffer`); registering an open dataset anew changes nothing until a restart; datasets
  from the configuration are listed only when registered; rolling a failed drop back
  restores a whole snapshot; `secretsDropped` is always 0.

*Chat and tools*

* A Telegram chat whose session cannot make its directory (`agents/chat.ts:161-166`)
  is told that it is subscribed and loses its session (`server/telegram-bot.ts:110-111`).
  It stays in the file, so the next `/subscribe` is answered "Already subscribed." and
  still makes none; a text or a restart does. `ChatsHearEvents` excepts it (`unheard`).
* The load of a chat log races with messages of the new session; a socket that
  closes before `onClose` is registered leaves its agent; `onClose` archives under
  the channel's name, "web".
* A member of a command's group that let go of the output survives, because the
  stream's `close` clears the timer that would kill it.
* `edit` without `replace_all` rewrites `$$` and `$&` in the new text
  (`mcp/builtins/filesystem.ts:380`). A patch is not atomic, a hunk without context
  lands one line early, a renamed file's old name stays. A search ends at the first
  directory that is too deep, and skips large and binary files in silence.
  `git_commit` commits the whole index. A page of 0 entries of a directory is
  truncated for ever. A fetch may be given 600 s in a call that is given 300.
* A tool's alias depends on which servers are up; an external server named like a
  built-in service never gets a call. A kind of secret inside a wider match of
  another is not named; the suffix `-URL` does not make a name a pointer.

## 4. Fairness

* `PlanService`: `WF` of a handler's steps: an awaited file operation ends, well or
  not.
* `Orchestrator`: `WF` of each dispatch's steps and of the planner's end. A model
  call ends because providers time out; a manager may loop for ever as long as
  the runtime is up, and `ShutdownEndsRuns` uses only that it looks at its
  cancellation flag between two awaits.
* `RuntimeLock`: `WF` of the steps inside `acquireRuntimeLock`, synchronous code.
* `Runtime`: `WF` of boot, of the shutdown sequence, of the tracker's writer, and
  of the loop's own steps. The last contain the end of a session only when it
  has been aborted: a session that nobody stops may go on for ever. The wait for
  the planner is limited to 30 s (`server/cli.ts:299`), which is why shutdown
  needs no fairness of the planner at all.
* `AgentLoop`: `WF` of the agent's step: model calls and tools have time-outs, the
  abort signal reaches the call in flight.
* `ModelRouter`: `WF` of each agent's call and of each key's resolution (requests
  have time-outs, waiting for the lock gives up), of the recovery probe of a key,
  and of time.
* `Chat`: `WF` of each agent's step, of the time limit of each delivery and of a
  publisher's return. Nothing is asked of channels or users.
* `Services`: `WF` of a health check's steps, of starts, connections and stops: the
  timer repeats and each call has a time-out. The violation is therefore not a
  system that stands still.
* `Shell`, `StageRun`, `Knowledge`, `Retrieval`: safety only. `Shell`'s time-outs
  are safety too, since its clock cannot pass a timer that is due.

No fairness is assumed of users, operators, supervisors, kills or failures.

## 5. Proofs

Every safety property of the passing runs is a theorem but two,
`PlansAndAnswersAreSound` and `ReadersFollowStatus`, of which three of the four parts
are.
What is said here is for any sets of stages, calls, call slots, agents, keys,
profiles, notes, messages and processes, conversations, queues and logs of any
length, and any time-outs that `TimesAssumption` allows.

| theorem | says | argument |
|---|---|---|
| `PlanServiceProofs!ImplementsAtomicPlan` | `Spec => AbstractSpec`: every behaviour of the service is one of the atomic plan | the invariant `IInv`: `Serial` (a handler that runs is the head of the queue), `Computed` (its document is the tool's effect on the cache), `InStep` (the cache is the file but between rename and publication, when the file is the handler's document), `DownIsIdle` (no handler while the backfill may run). `CacheIsTheFile` alone is not inductive: without `Serial` and `Computed` nothing ties what is renamed to what is cached. `Rename` and the backfill map to steps of the promise, all else stutters |
| `PlanServiceProofs!CacheIsCurrent` | between two calls the cache is the file | part of `IInv` |
| `PlanServiceProofs!CompletionsAreDurable` | no reader, archive, event or caller knows of a completion that plan.json does not have | `HInv`: histories only grow (`EffectExtends`, one case per tool), and a handler that archives or marks has its stage in the file's history |
| `PlanServiceProofs!HistoryIsAppendOnly`, `CompletedStaysCompleted` | no tool loses, reorders or repeats a completed stage; it is never active again | every document written has passed `Valid`; `EffectExtends` |
| `PlanServiceProofs!TypeCorrect` | file, cache and what is on its way are documents of the schema, and the rest of the service keeps its types | `DocTypes` on top of `IInv`: only a handler's document is renamed, and `EffectTypes`, one case per tool, says that what a tool makes of a document is a document |
| `OrchestratorProofs!GateHolds` | a manager that runs is the plan's current stage's, until a plan call that outlived its caller lands; no hypothesis | `GateInv`: between the gate's look at the plan and its second look, what it saw is still the plan, and from there on the current stage is the manager's. Between gate and settling the planner is suspended and calls nothing |
| `OrchestratorProofs!BooksAgree` | tracker, registry, cache and dispatches describe the same runs, until two managers are at work at once or one names another stage than its own | `IInv` is `Always`, which no answer of a model breaks, and `strayed \/ Books`. Of `Books`: `OneAtATime` and `WorkersOfManager` (workers live inside the one manager's loop and are of its stage), `AgentsHeld` and `AgentsApart` (a dispatch has an agent exactly while it runs, no two the same), `CacheApart` and `CacheInUse` (a conversation is cached under one key, only while a manager of its stage runs), `Registered`, `TrackerNamesTheStage`. `BookkeepingAgrees` says nothing of workers between creation and start, nor of who may hold a cached agent, and is not inductive without these |
| `OrchestratorProofs!WorkersKnowTheirTask` | until then a worker asks the model with the prompt of its own task | `Told`: before the prompt is given, whether the agent has run decides between first prompt and follow-up, and the agent is new exactly when it was created for this task |
| `OrchestratorProofs!CancelsAreAimed` | only the supervisor's choice of this run cancels a one-shot worker, whatever managers do at once and whichever stages they name | `Aimed`: a cancelled one-shot agent, or one with a timer, is that of a dispatch the supervisor chose; an id is not given out while anything still refers to it. `OneShotsApart`: no other dispatch and no cache entry has the agent of a one-shot worker, since it is made for its dispatch and never cached |
| `KnowledgeProofs!DuplicatesAreReplacements` | two active memories share topic and scope only where the younger replaced another | `Fresh` (rows beyond the counter are empty) and a step fact, `StepRows`: a step either retires rows, bringing none back and changing no row's topic, scope or origin, or does that and adds one whose topic is free or which replaces another |
| `KnowledgeProofs!StatusCopiesAgree` | the first part of `ReadersFollowStatus`: the status column and `record_json` agree on whether a memory is archived. On whether it was replaced they do not | `StepRows`, `RowMoves` (one line per operation on a row) |
| `KnowledgeProofs!ListOfUnarchived` | the second part: the list shows every memory but the archived ones, the replaced included | the theorem above, and that nothing writes "superseded" into `record_json` |
| `KnowledgeProofs!LockFollowsTheIngest` | the ingest lock is held by exactly the call inside the ingest | inductive with the types |
| `KnowledgeProofs!SearchesAnswerLive` | a search answers with live memories of its scope | `FoundInScope`: what was found before the await is no newer than the counter, and, if still there, in the scope it was found in. Without the counter a row could be deleted and its id used for another stage's |
| `KnowledgeProofs!ScopesHold` | workers change only their stage's memories, the librarian only project memories of its topics | `Access`, the access matrix case by case; `MutationsInScope`, the rows each mutation changes before and after |
| `RetrievalProofs!TypeCorrect` | the types of files, dataset, jobs, those of a dropped dataset included, watcher and slot | inductive as it stands |
| `RetrievalProofs!MutualExclusion` | the lock is that of the one ingest past its walk, unless a drop has passed one that has not ended | inductive with the types |
| `RetrievalProofs!ShortCutIsSound` | a file that is recorded as it is on disk has its chunks in the index, but for `torn` files and `shared` stores | `Exclusive` (one ingest writes into a store) and `Progress` (of an ingest under way: a path whose batch is stored has its new chunks, and no path of it but a torn one is recorded as it is on disk). The property alone does not speak of half-stored batches |
| `RetrievalProofs!WatcherFollowsTheFiles` | with the same two exceptions, a watcher that missed nothing has every file indexed that is not pending | `Arming` and `Watching`: a file that is not pending is indexed as it is on disk, or will be by the ingest under way |
| `KnowledgeProofs!LiveMemoriesFound` | the third part: an id leads along its line of replacements to a live memory or to none, and a live memory's own id to itself; its topic leads to it, or to a live memory that comes before it by the rules of the tool (`Hides`: one of a stage before one of the project, or one of the same scope, which is a replacement's twin or another stage's) | `LinesForward`: an heir is younger than what it replaced and an active row has none, since rows get ids in order and only `supersede` names heirs. So of the rows a walk reaches the greatest ends it (`WalksEnd`, by descent on ids), which is what makes the bounded walk of the code (`ChainHead`) complete. For topics, that active rows of one topic and scope are related by replacement, which is `DuplicatesComeFromSupersession` |
| `LockFileProofs!TypeCorrect` | the types of the lock | inductive as it stands |
| `LockFileProofs!SerialMutualExclusion` | under `Overlap = FALSE`, one holder at most, named by the file, through kills, releases and pid reuse, until a lock outlives the horizon | the process between create and write, or holding, is the file's creator; a reader's verdict is about the file still there because nobody else acquires meanwhile |
| `LockFileProofs!OnlyExpiredLocksAreTakenOver` | under `Overlap = FALSE`, a live owner's file is unlinked only when it is older than the horizon | `TakeoverInv`: one process at a time is acquiring, what it judges is the file that is there, and what it is about to unlink has been judged dead or aged |
| `LockFileProofs!NoUpdateIsLost` | `AuthSpec => []NoLostUpdate`: while no lock file is taken from a live holder, every profile in the file is what the last write about it left there | `AuthInv`: `HolderNamed` (whoever is between creating the lock file and removing it is the one it names), `ReadIsCurrent` (what a holder has read is still the file), `DeadIsIdle` (a killed command does nothing, so a stale lock hides no writer). `NoLostUpdate` alone allows a holder with an old copy. `MutationIsLocal`: a mutation changes one profile of the file it was given |
| `LockFileProofs!RouterUsesTheStore` | `RouterSpec => AuthSpec`: whatever agents, chains, cooldowns and failovers do, the files see only what any callers may do | each step of the router leaves the store alone, asks it for a profile (`Request`), takes an answer (`TakeAnswer`) or is a step of the store; `RouterInv` gives the asked-for profile its type |
| `LockFileProofs!CallsLoseNoUpdate` | `NoLostUpdate` under the calls of any number of agents | the two theorems above |
| `LockFileProofs!RouterIsTyped` | chains, sources, keys, cooldowns and the sticky choice keep their types | `RouterTyped`: besides types, a call that has begun has a candidate left, and looks a key up only for an instance that takes one |
| `LockFileProofs!ForcedKeys` | a call that its forced profile can serve goes out with that profile's key, unless its instance is one of `Late` | `AsksForForced`: at its first source an agent waits for its forced profile or for none, while others give the shared instance their keys; the key is set and the request sent in one step, but for `Late` instances, of which the property does not speak because there it fails (section 3) |
| `RuntimeProofs!FileStaysCurrent` | whenever nothing is on its way to runtime.json, it says what the tracker knows | `FileInv`: the latest snapshot is in the file, or the last of those in flight and queued; a snapshot that lands while another is queued hands over to it. Freezing ends the claim, which is why it is about a serving process |
| `RuntimeProofs!RecordedReasonsSurvive` | a recorded reason for a shutdown is in one of the two files until a boot has queued it for a planner, whatever write fails, unless a newer request replaced it before a summary told of it or it was written while an older one was being retired | `HandoffInv`: from reading the request to retiring it (`Retiring`), what is there is what was read, or nothing that is due; while the process serves there is no summary that a new one could overwrite |
| `RuntimeProofs!NothingStartsAfterTheSignal` | after the cancellation signal the planner loop opens no session | a fact of each step, without an invariant |
| `RuntimeProofs!OnlyShutdownStops` | `StopsOnlyForShutdown`: in continuous mode the planner loop stops for nothing but a shutdown | with `AbortsHaveReasons`: a session is aborted only by the shutdown or by a request that came during it, and for the latter the loop starts the next session. The property alone lets an aborted session have no reason, which would stop the loop |
| `RuntimeProofs!TypeCorrect` | tracker, loop, process and the files that outlive them keep their types | inductive as it stands |
| `StageRunProofs!LogIsHonest` | the event log never tells of a document or a completion that is not on disk, for a queue of any length, any failing write and any kill | `LogInv`: every queued operation is honest, its events true already or announced by the document it has yet to write (the property alone says nothing about the queue); documents never disappear, so what is true stays true |
| `StageRunProofs!RecoveryIsSound` | when recovery has run, no task of an interrupted stage is in progress, and none that has a report will be started again | `Quiet`: a process that has not started its agents writes nothing, so the documents stay as recovery left them until it starts |
| `StageRunProofs!TypeCorrect` | documents, log, queue, runtime.json and manager keep their types | `AgentTypes` (of what the log's invariant does not speak of) on top of `LogInv` |
| `AgentProofs!HandlersAnswerInTime` | a call of `run_command` none of whose processes leaves its group is answered by its handler before the caller's time-out | the invariant of the next line: the phases' bounds add up to less than the caller's time-out, which is what the headroom is for |
| `AgentProofs!CallsKeepToTheirBounds` | types, and what the clock can be in each phase | the clock cannot pass a timer that is due, so a phase's bound is its timer's; the property alone says nothing of the phases before the answer |
| `AgentProofs!SilenceIsReal` | a command is killed for inactivity only after that much silence | `Heard`: output not yet read was written now and the silence it ended is remembered; if all is read, the stream's size was noted when the command last spoke |
| `AgentProofs!RequestsAreWhole` | every request holds each tool call with its results, unless the batch that owed them has thrown, and its answer is filed under the round that began it | `ConvInv`: the stack begins with the loop's frame (`Stacked`), the pending round is the caller's on top (`Filed`), and the conversation is whole but for the calls of the batch in hand (`WholeRounds`), whose results are missing until it ends. `KeptIsWellFormed` says that the pair-splitting rules of a fallback compaction leave no half of a pair |
| `AgentProofs!DeliveredNotesAreSent` | what the first planner's note manager takes for delivered, and is still on disk, is in every request | `Noted`: what is delivered is carried by some message of the conversation. A compaction forgets both; every other step only appends (`GoesOn`) |
| `AgentProofs!NothingIsDeletedUnseen` | the first planner deletes no note that no answered request held, unless its run failed | `Told`: where no request is under way, what is delivered was in an answered one; while acknowledging after a success, so was what is left to acknowledge |
| `AgentProofs!LoopIsTyped` | refused endings, nudges, invalid batches, hook turns and rounds keep to their caps, and every variable of the loop to its type | `Caps`: a refused worker at its cap and a stalled planner are done, and no run goes on from there; only planners acknowledge and only workers are refused, so a planner's count is at most 1. The types alone let a run at its cap go on and count once more. `Within`: callers keep to the hook's turns and to rounds already begun |
| `AgentProofs!ChatsAreTyped` | agents, bus, bot and sessions keep their types | `NotedTypes` on top of `SessionsInv` and `BotInv` |
| `AgentProofs!SubscribersHear` | open web sessions and a Telegram chat's session are behind a subscription, and a stored chat has a session whenever the bot waits, unless its session failed to start and none was made since | `SessionsInv` (who is subscribed lives; a live web agent is subscribed from its constructor on; a session is subscribed and open) and `BotInv` (a stored chat without session means that its session failed, or that the bot boots, makes one, or has stopped). The property says nothing of a bot in the middle of a command |

One hypothesis is left, `Overlap = FALSE` in the theorems about the lock: launches that
overlap can take each other's lock (section 3). What else the code does not do is not a
hypothesis but a history the property names, written by the very steps that lead there:
`strayed`, `overtaken`, `shared`, `torn`, `unheard`, `missed`, and the set `due`, which
loses what a replaced or unread request held. `Late` is a constant, the instances that
take their key before an await.

Assumptions: `NoneAssumption` (of `PlanDocument`, `RuntimeTracker` and `StageRun`),
`ReasonAssumption`, `StageListsAssumption`, `NoCallAssumption`, `NoFileAssumption`,
`BoundsAssumption`, `PresentAssumption` and `NobodyAssumption` (of `Retrieval`),
`IdsAssumption` (of `Orchestrator`), `BoundAssumption` and `HoldersAssumption` (of
`Knowledge`), `SwitchesAssumption` and those of `AuthStore` (`CliAssumption`,
`OrderAssumption`, `CommandsAssumption`, `GenerationsAssumption`, `NoneAssumption`),
`WindowAssumption`, `SpecAssumption` and `ForcedAssumption` (of `ModelRouter`),
`MarginAssumption` (of `Conversation`: the margin is below the threshold),
`PermanentAssumption` (of `Notes`), `LimitsAssumption` (of `AgentLoop`: its caps are
positive numbers), `RequestAssumption` (of `PlannerRunner`), `MaxPendingAssumption`
and `SessionAssumption` (of `Chat`) say that constants have their kinds and that
sentinels are not values; `ChainAssumption` says that the planner of candidates
returns a finite list of keys. That is so by the recursion of `AppendFailoverChain`,
which no prover here can follow; `PlansAndAnswersAreSound` checks far more of the
same lists. `TimesAssumption` says what the shell's delays have to keep to, above
all that the work around the command takes less than the headroom. TLC evaluates
them in the runs.

Only model-checked, and why:

* `PlansAndAnswersAreSound`: candidate chains, routes and wires are recursive
  functions and folds over data. What such a definition computes for every input
  needs induction over data, which is out of the prover's reach, and `Routing`
  declares RECURSIVE operators.
* The fourth part of `ReadersFollowStatus`, `ToldWhatIsLive`: what a new agent is told is a
  fold (`SplitByBudget`) over a sorted list of candidates.
* The algorithms of section 3's assumptions, for the same reason.
* Liveness (`CallsEnd`, `ShutdownEndsRuns`, `AttemptEnds`, `ShutdownEnds`,
  `RestartDuringSessionIsTold`, `CancelEnds`, `PrimaryComesUpAgain`,
  `AcceptedAreHandled`, `PublishersGoOn`) and ENABLED, which the prover does not do.
* The violated property of `Services`.

## 6. What the models leave out

* Texts: objectives, reports, directives' wording, prompts, dates. A start time is
  whether there is one; a report is whether it completed and lists commits.
* Sizes are small numbers: tokens, chunks, budgets. Times are ticks, or the order of
  two moments; back-off lengths are left out, and a usage figure is known, unknown
  or exhausted.
* Owners of the project lock that belong to another user (section 3). Inspector
  and librarian dispatches, which touch none of the modelled state, and
  `task_started` events.
* `StageRun` writes runtime.json at once; the delay is `RuntimeTracker`'s.
  `Runtime` in turn reduces stages to what the tracker says of them. A failing write
  of runtime.json is the unhandled rejection it causes (`Fatal`).
* The file system is assumed to rename atomically and to keep what was renamed;
  SQLite to keep its transactions.
* Of the stash, only that a large result is replaced by a small one; of session
  memories, bodies and audit rows, nothing; of the retrieval index, the cache of
  embeddings, the mark of a corrupted store and collections with several sources.
* Of the tools, `plan_commit` and git (commands one after the other, no state of
  their own), the time limit of a search, and two calls that race for one file.
* A web session's chat log on disk, the splitting of long messages, the bus's pause
  and resume, which have no caller.
* Not modelled at all: the other agents (prompts and tool sets around the same
  loop), the dashboard server (read models over documents other modules write, and
  the routing of requests), the schemas of the configuration and the rules for
  blocked paths (tables of patterns), and the web application (presentation; it
  keeps nothing the server has to agree with).

## 7. Plan

Done: the modules of section 2, the runs and assumptions of section 3, and the
proofs of section 5. Next, as far as it is worth it:

1. Proofs: the fourth part of `ReadersFollowStatus`, if the folds were stated by what they
   choose instead of how.
2. Compositions: bootstrap, where the plan is read before the lock is taken;
   `Orchestrator` over `StageRun`, for the reports of earlier attempts; `AgentLoop`
   over `ModelRouter`, for a cancellation during a failover.
3. An abstract specification of `Retrieval` (the index is a function of the files
   seen) and of `Knowledge` (one map from ids to records), refined by the modules
   there are.
