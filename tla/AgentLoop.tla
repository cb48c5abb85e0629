------------------------------- MODULE AgentLoop -------------------------------
(***************************************************************************)
(* The conversation loop of an agent (BaseAgent.runLoop and callLLM,        *)
(* src/src/agents/base.ts) as the planner, a stage-scoped worker and a chat *)
(* run it (agents/planner.ts, worker.ts, chat.ts): retries, compaction with *)
(* the planner's hook before it, repair prompts, tool batches               *)
(* (runtime/dispatcher.ts) and cancellation.  A step runs from one await to *)
(* the next.  The hook calls the model through the same callLLM, which may  *)
(* itself compact: frames is that stack.                                    *)
(***************************************************************************)
EXTENDS Notes

CONSTANTS
  None,
  Roles,           \* the kinds of agent started: "planner", "worker", "chat"
  MaxCompactions, MaxFallbacks, MaxInvalid, MaxInvalidCalls, MaxNudges, MaxHookTurns,
  MaxRounds,       \* bound: model calls that answer with tools, per run of the model
  MaxDepth,        \* bound: hooks begun inside a hook
  MaxSessions      \* bound: planners, tasks or user messages one after the other

\* MAX_INVALID_FINAL_RESPONSES, MAX_CONSECUTIVE_INVALID, MAX_NUDGES and the
\* hook's MAX_TURNS are 3, 3, 15 and 5.
ASSUME LimitsAssumption ==
  {MaxInvalid, MaxInvalidCalls, MaxNudges, MaxSessions} \subseteq Nat \ {0} /\ MaxHookTurns \in Nat

VARIABLES
  role, sessions,
  pc,          \* what the agent waits for, or what it does next
  frames,      \* callers of callLLM, the loop first
  messages, pendingRound, rounds, repair,
  compaction,  \* compactionState
  invalid,     \* invalidFinalResponseCount
  badCalls,    \* the dispatcher's consecutiveInvalidCalls
  evidence, artifact,
  nudges, cancelled, aborted,
  exit,        \* how the last run of the loop ended
  seen,        \* the notes directory as the drain read it
  ack,         \* the notes acknowledgeNotes has left, and the one it has read
  shown,       \* history: notes that were in a request that was answered
  unseen,      \* history: volatile notes the agent deleted before that
  torn         \* history: has a batch thrown since the last compaction?

conv == <<messages, pendingRound, rounds, repair>>
judged == <<invalid, evidence, artifact, nudges>>
signals == <<cancelled, aborted>>
ghosts == <<shown, unseen, torn>>
vars == <<role, sessions, pc, frames, conv, compaction, judged, badCalls, signals, exit, seen,
          ack, ghosts, noteVars>>

Frame == [at : {"loop", "hook"}, turn : 0 .. MaxHookTurns, round : 0 .. rounds, repairing : BOOLEAN]
Exits == {"none", "abort", "cancelled", "max_compactions", "error", "text", "terminal", "threw", "stalled"}

TypeOK ==
  /\ role \in Roles /\ sessions \in 1 .. MaxSessions
  /\ pc \in {"top", "hook", "turn", "summary", "drain", "push", "check", "flight", "backoff",
             "tools", "ack", "done"}
  /\ frames \in Seq(Frame) /\ frames # <<>>
  /\ pendingRound \in 0 .. rounds /\ repair \in BOOLEAN
  /\ compaction \in [count : Nat, fallbacks : Nat, oversized : BOOLEAN]
  /\ invalid \in 0 .. MaxInvalid /\ badCalls \in 0 .. MaxInvalidCalls
  /\ evidence \in BOOLEAN /\ artifact \in BOOLEAN /\ nudges \in 0 .. MaxNudges
  /\ cancelled \in BOOLEAN /\ aborted \in BOOLEAN /\ exit \in Exits
  /\ shown \subseteq Note /\ unseen \subseteq Note /\ torn \in BOOLEAN
  /\ NotesTypeOK

Top == frames[Len(frames)]
NotRead == [n \in Note |-> "none"]
LoopFrame == [at |-> "loop", turn |-> 0, round |-> 0, repairing |-> FALSE]

NoCompactions == [count |-> 0, fallbacks |-> 0, oversized |-> FALSE]

FreshConversation == messages' = <<Text>> /\ pendingRound' = 0 /\ rounds' = 0 /\ repair' = FALSE

\* A new agent: one message, nothing counted.
Fresh ==
  /\ pc' = "top" /\ frames' = <<LoopFrame>>
  /\ FreshConversation
  /\ compaction' = NoCompactions
  /\ invalid' = 0 /\ badCalls' = 0 /\ evidence' = FALSE /\ artifact' = FALSE /\ nudges' = 0
  /\ cancelled' = FALSE /\ aborted' = FALSE /\ exit' = "none"
  /\ seen' = NotRead /\ ack' = [left |-> {}, read |-> None]
  /\ shown' = {} /\ unseen' = {} /\ torn' = FALSE

Init ==
  /\ role \in Roles /\ sessions = 1
  /\ pc = "top" /\ frames = <<LoopFrame>>
  /\ messages = <<Text>> /\ pendingRound = 0 /\ rounds = 0 /\ repair = FALSE
  /\ compaction = NoCompactions
  /\ invalid = 0 /\ badCalls = 0 /\ evidence = FALSE /\ artifact = FALSE /\ nudges = 0
  /\ cancelled = FALSE /\ aborted = FALSE /\ exit = "none"
  /\ seen = NotRead /\ ack = [left |-> {}, read |-> None]
  /\ shown = {} /\ unseen = {} /\ torn = FALSE
  /\ NotesInit

\* isMaxCompactionsReached.
StopReached ==
  \/ compaction.count >= MaxCompactions
  \/ compaction.fallbacks >= MaxFallbacks
  \/ compaction.oversized

\* Mutation: a call in flight looks at the abort signal only.
StoppingOnAbort == aborted

Stopping == cancelled \/ aborted

Goes(where) == pc' = where
WithTop(frame) == frames' = [frames EXCEPT ![Len(frames)] = frame]
Pop == frames' = SubSeq(frames, 1, Len(frames) - 1)

-----------------------------------------------------------------------------
(* Ends of a run *)

\* The planner acknowledges what was delivered, however the loop ended.
EndRun(how) ==
  /\ exit' = how
  /\ IF role = "planner" THEN Goes("ack") /\ ack' = [left |-> delivered, read |-> None]
                         ELSE Goes("done") /\ UNCHANGED ack

\* An exception of callLLM: the loop reports it, the hook gives up its turns.
CallFails ==
  /\ pendingRound' = 0
  /\ IF Top.at = "loop" THEN EndRun("error") /\ UNCHANGED frames
                        ELSE Goes("summary") /\ Pop /\ UNCHANGED <<exit, ack>>
  /\ UNCHANGED <<messages, rounds, repair>>

-----------------------------------------------------------------------------
(* The loop *)

Rest == <<role, sessions, signals, noteVars>>

StopAtTop ==
  /\ pc = "top"
  /\ \/ cancelled /\ EndRun("cancelled")
     \/ ~cancelled /\ aborted /\ EndRun("abort")
     \/ ~Stopping /\ TooLong(messages) /\ StopReached /\ EndRun("max_compactions")
  /\ UNCHANGED <<Rest, frames, conv, compaction, judged, badCalls, seen, ghosts>>

\* Before a call the context is compacted when it has grown too long.
BeginTurn ==
  /\ pc = "top" /\ ~Stopping
  /\ ~(TooLong(messages) /\ StopReached)
  /\ WithTop([Top EXCEPT !.repairing = FALSE])
  /\ Goes(IF TooLong(messages) THEN "hook" ELSE "drain")
  /\ UNCHANGED <<Rest, conv, compaction, judged, badCalls, exit, seen, ack, ghosts>>

\* drainChannels: only the planner has a note channel.
ReadNotes ==
  /\ pc = "drain"
  /\ seen' = note
  /\ Goes("push")
  /\ UNCHANGED <<Rest, frames, conv, compaction, judged, badCalls, exit, ack, ghosts>>

\* restorePendingRound: the call goes on under the round it began.
Restored(round) == round

StartRound ==
  IF Top.repairing
  THEN pendingRound' = Restored(Top.round) /\ UNCHANGED <<rounds, frames>>
  ELSE /\ rounds' = rounds + 1 /\ pendingRound' = rounds + 1
       /\ WithTop([Top EXCEPT !.round = rounds + 1])

PushNotes ==
  /\ pc = "push"
  /\ LET pulled == IF role = "planner" THEN Deliverable(seen) ELSE {}
     IN  /\ delivered' = delivered \cup pulled
         /\ messages' = IF pulled = {} THEN messages ELSE Append(messages, NoteMessage(pulled))
  /\ StartRound
  /\ seen' = NotRead
  /\ Goes("check")
  /\ UNCHANGED <<role, sessions, signals, note, repair, compaction, judged, badCalls,
                 exit, ack, ghosts>>

\* Each attempt looks at the cancellation before it asks the router.
SendRequest ==
  /\ pc = "check" /\ ~Stopping
  /\ Goes("flight")
  /\ UNCHANGED <<Rest, frames, conv, compaction, judged, badCalls, exit, seen, ack, ghosts>>

GiveUpCall ==
  /\ pc \in {"check", "backoff"} /\ Stopping
  /\ CallFails
  /\ UNCHANGED <<Rest, compaction, judged, badCalls, seen, ghosts>>

\* A transient or throttling error: wait, whatever the backoff is.
TransientError ==
  /\ pc = "flight"
  /\ Goes("backoff")
  /\ UNCHANGED <<Rest, frames, conv, compaction, judged, badCalls, exit, seen, ack, ghosts>>

BackoffEnds ==
  /\ pc = "backoff" /\ ~Stopping
  /\ Goes("check")
  /\ UNCHANGED <<Rest, frames, conv, compaction, judged, badCalls, exit, seen, ack, ghosts>>

\* Non-retryable errors, or the cap on transient ones.
FinalError ==
  /\ pc = "flight"
  /\ CallFails
  /\ UNCHANGED <<Rest, compaction, judged, badCalls, seen, ghosts>>

Hooks == Len(frames) - 1

\* The provider finds the request too long, or a tool result without its call.
ContextError ==
  /\ pc = "flight"
  /\ IF ~StopReached
     THEN /\ Hooks < MaxDepth
          /\ WithTop([Top EXCEPT !.repairing = TRUE])
          /\ Goes("hook")
          /\ UNCHANGED <<conv, exit, ack>>
     ELSE CallFails
  /\ UNCHANGED <<Rest, compaction, judged, badCalls, seen, ghosts>>

-----------------------------------------------------------------------------
(* Compaction *)

\* compact: the planner's hook first.
BeginCompaction ==
  /\ pc = "hook"
  /\ IF role = "planner"
     THEN /\ messages' = Append(messages, Text)
          /\ frames' = Append(frames, [LoopFrame EXCEPT !.at = "hook"])
          /\ Goes("turn")
     ELSE Goes("summary") /\ UNCHANGED <<messages, frames>>
  /\ UNCHANGED <<Rest, pendingRound, rounds, repair, compaction, judged, badCalls, exit, seen,
                 ack, ghosts>>

HookTurn ==
  /\ pc = "turn"
  /\ IF Top.turn < MaxHookTurns /\ ~cancelled
     THEN /\ rounds' = rounds + 1 /\ pendingRound' = rounds + 1
          /\ WithTop([Top EXCEPT !.turn = @ + 1, !.round = rounds + 1, !.repairing = FALSE])
          /\ Goes("check")
     ELSE Pop /\ Goes("summary") /\ UNCHANGED <<rounds, pendingRound>>
  /\ UNCHANGED <<Rest, messages, repair, compaction, judged, badCalls, exit, seen, ack, ghosts>>

\* replaceMessages, then the repair prompt again and the channels' reset.
Replace(history) ==
  /\ messages' = IF repair THEN Append(history, Text) ELSE history
  /\ pendingRound' = 0

\* Mutation: the channels are not told of the new context.
ContextResetNothing == UNCHANGED delivered

\* NoteChannel.onContextReset: notes become deliverable again.
ContextReset == delivered' = IF role = "planner" THEN {} ELSE delivered

Summarize ==
  /\ pc = "summary"
  /\ compaction' = [count |-> compaction.count + 1, fallbacks |-> 0, oversized |-> FALSE]
  /\ Replace(<<Text>>)
  /\ ContextReset
  /\ torn' = FALSE
  /\ Goes("drain")
  /\ UNCHANGED <<role, sessions, signals, note, frames, rounds, repair, judged, badCalls,
                 exit, seen, ack, shown, unseen>>

\* The summary failed or timed out: the newest whole rounds are kept.
FallBack ==
  /\ pc = "summary"
  /\ compaction' = [compaction EXCEPT !.fallbacks = @ + 1,
                                      !.oversized = @ \/ Kept(messages).oversized]
  /\ Replace(<<Text>> \o Kept(messages).rounds)
  /\ ContextReset
  /\ torn' = FALSE
  /\ Goes("drain")
  /\ UNCHANGED <<role, sessions, signals, note, frames, rounds, repair, judged, badCalls,
                 exit, seen, ack, shown, unseen>>

-----------------------------------------------------------------------------
(* Answers *)

\* pushMessage gives an assistant message the pending round.
Push(ms) ==
  /\ messages' = messages \o ms
  /\ pendingRound' = 0

Shows == shown' = shown \cup Carried(messages)

TooMany(n) == n >= MaxInvalid

\* recordInvalidFinalResponse.
Refuse(ms) ==
  /\ invalid' = invalid + 1
  /\ IF TooMany(invalid + 1)
     THEN Push(ms) /\ EndRun("error") /\ UNCHANGED repair
     ELSE /\ Push(Append(ms, Text)) /\ repair' = TRUE
          /\ Goes("top") /\ UNCHANGED <<exit, ack>>

\* A response without tool calls.  A worker must have evidence and a report.
TextInLoop ==
  /\ pc = "flight" /\ Top.at = "loop"
  /\ Shows
  /\ IF role = "worker" => evidence /\ artifact
     THEN /\ Push(<<Text>>)
          /\ invalid' = 0 /\ repair' = FALSE
          /\ EndRun("text")
     ELSE Refuse(<<Text>>)
  /\ UNCHANGED <<Rest, frames, rounds, compaction, evidence, artifact, nudges, badCalls, seen,
                 unseen, torn>>

TextInHook ==
  /\ pc = "flight" /\ Top.at = "hook"
  /\ Shows
  /\ Push(<<Text>>)
  /\ Pop /\ Goes("summary")
  /\ UNCHANGED <<Rest, rounds, repair, compaction, judged, badCalls, exit, seen, ack, unseen, torn>>

\* A response with tool calls goes to the dispatcher.
CallTools ==
  /\ pc = "flight"
  /\ rounds <= MaxRounds
  /\ Shows
  /\ Push(<<ToolCall(pendingRound)>>)
  /\ Goes("tools")
  /\ UNCHANGED <<Rest, frames, rounds, repair, compaction, judged, badCalls, exit, seen, ack,
                 unseen, torn>>

\* One batch by its most telling tool: an unknown one, one that failed or
\* only read, one that worked, one that is the evidence the role must have;
\* whether it wrote the artifact; its size; whether it was a lone plan_done.
Batches == [tool : {"unknown", "failed", "worked", "evidence"}, report : BOOLEAN,
            tokens : {1, Big}, ends : BOOLEAN]

RealBatch(b) ==
  /\ b.tool = "unknown" => b.tokens = 1
  /\ b.report => b.tool = "evidence" /\ role = "worker"
  /\ b.ends => b.tool = "worked" /\ role = "planner"
  /\ b.tool = "worked" => role = "planner"

\* The third unknown tool in a row throws: out of the loop, or to compact(),
\* which logs what its hook throws.  Nothing starts after an abort.
ToolsThrow ==
  /\ pc = "tools" /\ ~aborted
  /\ badCalls + 1 >= MaxInvalidCalls
  /\ badCalls' = MaxInvalidCalls
  /\ IF Top.at = "hook"
     THEN Pop /\ Goes("summary") /\ UNCHANGED <<exit, torn>>
     ELSE Goes("done") /\ exit' = "threw" /\ torn' = TRUE /\ UNCHANGED frames
  /\ UNCHANGED <<Rest, conv, compaction, judged, seen, ack, shown, unseen>>

Counted(b) ==
  /\ b.tool # "unknown" \/ badCalls + 1 < MaxInvalidCalls
  /\ badCalls' = IF b.tool = "unknown" THEN badCalls + 1 ELSE 0

\* One result per call, in one message after it.
Results(b) == <<ToolResult(messages[Len(messages)].round, b.tokens)>>

ToolsInHook(b) ==
  /\ pc = "tools" /\ Top.at = "hook" /\ ~aborted
  /\ RealBatch(b) /\ Counted(b)
  /\ messages' = messages \o Results(b)
  /\ Goes("turn")
  /\ UNCHANGED <<Rest, frames, pendingRound, rounds, repair, compaction, judged, exit, seen, ack,
                 ghosts>>

\* plan_done ends the planner when planning evidence exists; any tool that
\* works, a refused plan_done too, restarts the count of invalid endings.
ToolsInLoop(b) ==
  /\ pc = "tools" /\ Top.at = "loop" /\ ~aborted
  /\ RealBatch(b) /\ Counted(b)
  /\ evidence' = (evidence \/ b.tool = "evidence")
  /\ artifact' = (artifact \/ b.report)
  /\ IF b.ends /\ evidence
     THEN /\ messages' = messages \o Results(b)
          /\ invalid' = 0 /\ repair' = FALSE
          /\ EndRun("terminal")
     ELSE /\ messages' = messages \o Results(b) \o (IF b.ends THEN <<Text>> ELSE <<>>)
          /\ invalid' = CASE b.ends -> 1
                          [] ~b.ends /\ b.tool \in {"worked", "evidence"} -> 0
                          [] OTHER -> invalid
          /\ repair' = (repair \/ b.ends)
          /\ Goes("top") /\ UNCHANGED <<exit, ack>>
  /\ UNCHANGED <<Rest, frames, pendingRound, rounds, compaction, nudges, seen, ghosts>>

\* After an abort the remaining tools are answered with an error.
ToolsAborted ==
  /\ pc = "tools" /\ aborted
  /\ messages' = Append(messages, ToolResult(messages[Len(messages)].round, 1))
  /\ IF Top.at = "hook" THEN Pop /\ Goes("summary") /\ UNCHANGED <<exit, ack>>
                        ELSE EndRun("abort") /\ UNCHANGED frames
  /\ UNCHANGED <<Rest, pendingRound, rounds, repair, compaction, judged, badCalls, seen, ghosts>>

-----------------------------------------------------------------------------
(* The planner between two runs of the loop *)

Acking == pc = "ack" /\ ack.read = None

\* acknowledgeNotes: a file that is gone is passed over, a volatile note is
\* deleted, a permanent one is read and then written.
AckVolatile(n) ==
  /\ Acking /\ n \in ack.left /\ (n \in OnDisk => n \notin Permanent)
  /\ ack' = [ack EXCEPT !.left = @ \ {n}]
  /\ IF n \in OnDisk
     THEN /\ note' = [note EXCEPT ![n] = "gone"]
          /\ delivered' = delivered \ {n}
          /\ unseen' = unseen \cup ({n} \ shown)
     ELSE UNCHANGED <<note, delivered, unseen>>
  /\ UNCHANGED <<role, sessions, pc, frames, conv, compaction, judged, badCalls, signals, exit,
                 seen, shown, torn>>

AckRead(n) ==
  /\ Acking /\ n \in ack.left \cap Permanent \cap OnDisk
  /\ ack' = [left |-> ack.left \ {n}, read |-> n]
  /\ UNCHANGED <<Rest, pc, frames, conv, compaction, judged, badCalls, exit, seen, ghosts>>

AckWrite ==
  /\ pc = "ack" /\ ack.read # None
  /\ note' = [note EXCEPT ![ack.read] = "acked"]
  /\ ack' = [ack EXCEPT !.read = None]
  /\ UNCHANGED <<role, sessions, pc, frames, conv, compaction, judged, badCalls, signals, exit,
                 seen, ghosts, delivered>>

\* A text answer of the planner is answered with a nudge.
AfterRun ==
  /\ Acking /\ ack.left = {}
  /\ IF exit = "text"
     THEN /\ nudges' = nudges + 1
          /\ IF nudges + 1 >= MaxNudges
             THEN exit' = "stalled" /\ Goes("done") /\ UNCHANGED messages
             ELSE messages' = Append(messages, Text) /\ Goes("top") /\ UNCHANGED exit
     ELSE Goes("done") /\ UNCHANGED <<nudges, exit, messages>>
  /\ UNCHANGED <<Rest, frames, pendingRound, rounds, repair, compaction, invalid, evidence,
                 artifact, badCalls, seen, ack, ghosts>>

-----------------------------------------------------------------------------
(* The next session *)

\* Others run only where the agent awaits something.
Awaiting == pc \in {"push", "flight", "backoff", "tools", "summary", "ack"}

\* runWithRecovery makes a new planner; the note manager is the runtime's.
NextPlanner ==
  /\ role = "planner" /\ pc = "done" /\ exit # "cancelled"
  /\ sessions < MaxSessions /\ sessions' = sessions + 1
  /\ Fresh
  /\ UNCHANGED <<role, noteVars>>

\* The process starts again, after an exit or a kill at any point.
StartAgain(expired) ==
  /\ role = "planner" /\ (Awaiting \/ pc = "done")
  /\ Fresh
  /\ StartUp(expired)
  /\ sessions' = 1 /\ UNCHANGED role

\* runNext of a stage-scoped worker that succeeded, or the next message of a
\* chat: the same agent goes on with the same conversation.
NextTask ==
  /\ pc = "done" /\ sessions < MaxSessions
  /\ (role = "worker" /\ exit = "text") \/ role = "chat"
  /\ sessions' = sessions + 1
  /\ messages' = Append(messages, Text)
  /\ artifact' = FALSE /\ exit' = "none"
  /\ Goes("top")
  /\ UNCHANGED <<role, frames, pendingRound, rounds, repair, compaction, invalid, evidence, nudges,
                 badCalls, signals, seen, ack, ghosts, noteVars>>

-----------------------------------------------------------------------------
(* Others *)

Cancel ==
  /\ ~cancelled /\ Awaiting
  /\ cancelled' = TRUE
  /\ UNCHANGED <<role, sessions, pc, frames, conv, compaction, judged, badCalls, aborted, exit,
                 seen, ack, ghosts, noteVars>>

Abort ==
  /\ ~aborted /\ Awaiting /\ role # "chat"
  /\ aborted' = TRUE
  /\ UNCHANGED <<role, sessions, pc, frames, conv, compaction, judged, badCalls, cancelled, exit,
                 seen, ack, ghosts, noteVars>>

User(n) ==
  /\ role = "planner" /\ (Awaiting \/ pc = "done")
  /\ CreateUserNote(n) \/ AcknowledgeNote(n) \/ DeleteNote(n)
  /\ UNCHANGED <<role, sessions, pc, frames, conv, compaction, judged, badCalls, signals, exit,
                 seen, ack, ghosts>>

Step ==
  \/ StopAtTop \/ BeginTurn \/ ReadNotes \/ PushNotes
  \/ SendRequest \/ GiveUpCall \/ TransientError \/ BackoffEnds \/ FinalError \/ ContextError
  \/ BeginCompaction \/ HookTurn \/ Summarize \/ FallBack
  \/ TextInLoop \/ TextInHook \/ CallTools \/ ToolsThrow \/ ToolsAborted
  \/ \E b \in Batches : ToolsInHook(b) \/ ToolsInLoop(b)
  \/ \E n \in Note : AckVolatile(n) \/ AckRead(n)
  \/ AckWrite \/ AfterRun

Next ==
  \/ Step
  \/ NextPlanner \/ NextTask
  \/ \E expired \in SUBSET Note : StartAgain(expired)
  \/ Cancel \/ Abort
  \/ \E n \in Note : User(n)

\* The event loop runs what is ready, the router times requests out and
\* tools return.
Spec == Init /\ [][Next]_vars /\ WF_vars(Step)

-----------------------------------------------------------------------------
(* Properties *)

\* Every tool call in a request is followed by the results of all its tools,
\* whatever compactions, hooks and aborts came before, unless the batch that
\* owed them has thrown; and the answer will be filed under the round this call
\* began, also after hooks and repairs made other calls (callLLM, compact,
\* processToolCalls, startRound, restorePendingRound).
RequestsAreWellFormed ==
  pc = "flight" => (torn \/ WellFormed(messages)) /\ pendingRound = Top.round

\* What the note manager takes for delivered is in the request the planner
\* sends (pullDeliverables, onContextReset, acknowledgeNotes).
DeliveredIsInContext ==
  pc = "flight" /\ role = "planner" => delivered \cap OnDisk \subseteq Carried(messages)

\* That holds for the first planner of a process, through compactions, hooks
\* and acknowledgements of both sides.
FirstPlannerHasItsNotes == sessions = 1 => DeliveredIsInContext

\* The first planner deletes a volatile note that was in no answered request
\* only when the call it was drained for failed (run, acknowledgeNotes).
UnseenOnlyAfterFailure == unseen # {} /\ sessions = 1 => exit = "error"

\* A cancelled agent stops, whatever it was doing, unless its process does.
CancelEnds == cancelled ~> (pc = "done" \/ ~cancelled)
=============================================================================
