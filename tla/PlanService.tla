---------------------------- MODULE PlanService ----------------------------
(***************************************************************************)
(* The plan service of one runtime (class PlanService,                     *)
(* src/src/mcp/plan-server.ts): a cached document, a file behind it, and a *)
(* queue through which every writer tool goes one at a time.  A tool call  *)
(* may time out at its caller (mcp/in-process-registry.ts); the call then  *)
(* still runs.  The process may be killed between any two steps, and a     *)
(* restarted one reads the file.                                           *)
(***************************************************************************)
EXTENDS PlanDocument

CONSTANTS
  Job,      \* slots for calls that are queued or running
  NoCall    \* a free slot

ASSUME NoCallAssumption == NoCall \notin Calls

VARIABLES
  disk,      \* plan.json
  cache,     \* this.doc
  up,        \* is a runtime running?
  queue,     \* the calls chained on opQueue, oldest first
  call,      \* call[j]: the call in slot j
  phase,     \* how far the handler of call[j] has come
  next,      \* nextDoc of the handler in slot j
  waiting,   \* the slots whose caller has not timed out
  archived,  \* the stages whose knowledge archiveStage has archived
  completed, \* the stages with a stage_completed event
  acked,     \* the completions a caller has been told of
  last       \* the call that last reached the disk (history variable)

handlers == <<queue, call, phase, next, waiting>>
records == <<archived, completed, acked>>
vars == <<disk, cache, up, handlers, records, last>>

Phases == {"free", "queued", "writing", "renamed", "archiving", "marking"}

TypeOK ==
  /\ disk \in Docs \cup {NoDoc}
  /\ cache \in Docs \cup {NoDoc}
  /\ up \in BOOLEAN
  /\ queue \in Seq(Job)
  /\ call \in [Job -> Calls \cup {NoCall}]
  /\ phase \in [Job -> Phases]
  /\ next \in [Job -> Docs \cup {NoDoc}]
  /\ waiting \in SUBSET Job
  /\ archived \in SUBSET StageId /\ completed \in SUBSET StageId
  /\ acked \in SUBSET StageId
  /\ last \in Calls \cup [tool : {"none", "plan_append_history"}]

\* The handlers that have started and not ended.
Running == {j \in Job : phase[j] \notin {"free", "queued"}}

Completes(j) == call[j].tool = "plan_complete_stage"

Advance(j, step) == phase' = [phase EXCEPT ![j] = step]

\* The handler returns: the slot is free again and the next call may start.
Return(j) ==
  /\ queue' = Tail(queue)
  /\ call' = [call EXCEPT ![j] = NoCall]
  /\ next' = [next EXCEPT ![j] = NoDoc]
  /\ waiting' = waiting \ {j}
  /\ Advance(j, "free")

Init ==
  /\ disk = NoDoc /\ cache = NoDoc
  /\ up = TRUE
  /\ queue = <<>>
  /\ call = [j \in Job |-> NoCall]
  /\ phase = [j \in Job |-> "free"]
  /\ next = [j \in Job |-> NoDoc]
  /\ waiting = {}
  /\ archived = {} /\ completed = {} /\ acked = {}
  /\ last = [tool |-> "none"]

\* handleToolCall of a writer tool: serializeOp chains the handler.
HandleToolCall(j, c) ==
  /\ up /\ phase[j] = "free"
  /\ queue' = Append(queue, j)
  /\ call' = [call EXCEPT ![j] = c]
  /\ waiting' = waiting \cup {j}
  /\ Advance(j, "queued")
  /\ UNCHANGED <<disk, cache, up, next, records, last>>

\* withTimeout gives up on the call, not on its handler.
TimeOut(j) ==
  /\ j \in waiting
  /\ waiting' = waiting \ {j}
  /\ UNCHANGED <<disk, cache, up, queue, call, phase, next, records, last>>

\* Mutation: writer tools are not serialised.
MayStartAnytime(j) == TRUE

\* Only the oldest unfinished handler runs.
MayStart(j) == queue # <<>> /\ Head(queue) = j

\* The handler checks its arguments against the cached document and starts
\* the write, or returns a PlanError.
StartHandler(j) ==
  /\ phase[j] = "queued" /\ MayStart(j)
  /\ \/ /\ Effect(call[j], cache) = Rejected
        /\ Return(j)
     \/ /\ Effect(call[j], cache) # Rejected
        /\ next' = [next EXCEPT ![j] = Effect(call[j], cache)]
        /\ Advance(j, "writing")
        /\ UNCHANGED <<queue, call, waiting>>
  /\ UNCHANGED <<disk, cache, up, records, last>>

\* writeDoc: the temporary file is renamed over plan.json.
Rename(j) ==
  /\ phase[j] = "writing"
  /\ disk' = next[j]
  /\ last' = call[j]
  /\ Advance(j, "renamed")
  /\ UNCHANGED <<cache, up, queue, call, next, waiting, records>>

\* Mutation: a failed write is swallowed.
WriteFailsSilently(j) ==
  /\ phase[j] = "writing"
  /\ Advance(j, "renamed")
  /\ UNCHANGED <<disk, cache, up, queue, call, next, waiting, records, last>>

\* Mutation: the rejection stays on opQueue and blocks the calls behind it.
WriteFailsPoisonsQueue(j) ==
  /\ phase[j] = "writing"
  /\ call' = [call EXCEPT ![j] = NoCall]
  /\ next' = [next EXCEPT ![j] = NoDoc]
  /\ waiting' = waiting \ {j}
  /\ Advance(j, "free")
  /\ UNCHANGED <<disk, cache, up, queue, records, last>>

\* The write fails before the rename; the handler reports it.
WriteFails(j) ==
  /\ phase[j] = "writing"
  /\ Return(j)
  /\ UNCHANGED <<disk, cache, up, records, last>>

\* Mutation: writeDoc does not update this.doc.
PublishNothing(j) ==
  /\ phase[j] = "renamed"
  /\ IF Completes(j)
       THEN Advance(j, "archiving") /\ UNCHANGED <<queue, call, next, waiting>>
       ELSE Return(j)
  /\ UNCHANGED <<disk, cache, up, records, last>>

\* this.doc = nextDoc; every tool but plan_complete_stage returns here.
Publish(j) ==
  /\ phase[j] = "renamed"
  /\ cache' = next[j]
  /\ IF Completes(j)
       THEN Advance(j, "archiving") /\ UNCHANGED <<queue, call, next, waiting>>
       ELSE Return(j)
  /\ UNCHANGED <<disk, up, records, last>>

\* archiveStage, whose failure is recorded and otherwise ignored.
Archive(j) ==
  /\ phase[j] = "archiving"
  /\ archived' \in {archived, archived \cup {call[j].id}}
  /\ Advance(j, "marking")
  /\ UNCHANGED <<disk, cache, up, queue, call, next, waiting, completed, acked, last>>

\* markStageCompleted, whose failure is logged, and the reply.
MarkCompleted(j) ==
  /\ phase[j] = "marking"
  /\ completed' \in {completed, completed \cup {call[j].id}}
  /\ acked' = IF j \in waiting THEN acked \cup {call[j].id} ELSE acked
  /\ Return(j)
  /\ UNCHANGED <<disk, cache, up, archived, last>>

\* The process is killed: the queue and the cache are gone.
Crash ==
  /\ up
  /\ up' = FALSE
  /\ cache' = NoDoc
  /\ queue' = <<>>
  /\ call' = [j \in Job |-> NoCall]
  /\ phase' = [j \in Job |-> "free"]
  /\ next' = [j \in Job |-> NoDoc]
  /\ waiting' = {}
  /\ UNCHANGED <<disk, records, last>>

\* init() of the next runtime.
Restart ==
  /\ ~up
  /\ up' = TRUE
  /\ cache' = disk
  /\ UNCHANGED <<disk, handlers, records, last>>

\* The offline backfill script runs its own service while no runtime does.
AppendToHistory(id) ==
  /\ ~up
  /\ AppendHistory(id, disk) # Rejected
  /\ disk' = AppendHistory(id, disk)
  /\ last' = [tool |-> "plan_append_history"]
  /\ UNCHANGED <<cache, up, handlers, records>>

Step(j) ==
  \/ StartHandler(j) \/ Rename(j) \/ WriteFails(j) \/ Publish(j)
  \/ Archive(j) \/ MarkCompleted(j)

Next ==
  \/ \E j \in Job : Step(j) \/ TimeOut(j) \/ (\E c \in Calls : HandleToolCall(j, c))
  \/ Crash \/ Restart
  \/ \E id \in StageId : AppendToHistory(id)

\* A handler whose turn has come runs on: its file operations end, well or not.
Spec == Init /\ [][Next]_vars /\ \A j \in Job : WF_vars(Step(j))

-----------------------------------------------------------------------------
(* Properties *)

\* The file goes through the documents of the abstract plan, one call at a
\* time: no two writers, timed out or not, lose each other's update.
Abstract == INSTANCE AtomicPlan WITH plan <- disk, last <- last

AbstractSpec == Abstract!Spec

\* What a reader of the cache has seen completed survives a crash: the cache is
\* never ahead of the file.
ReadsAreDurable ==
  IsPrefix(History(cache), History(disk))

\* Knowledge is archived, an event recorded and a caller told only of
\* completions that are already on disk, whatever step a crash interrupts.
EffectsFollowTheWrite ==
  archived \cup completed \cup acked \subseteq Range(History(disk))

\* Between two calls the cache is the file.
CacheIsTheFile == up /\ Running = {} => cache = disk

\* Every call gets its turn and its slot back, even behind calls whose callers
\* have given up and failing writes.
CallsEnd == \A j \in Job : phase[j] # "free" ~> phase[j] = "free"
=============================================================================
