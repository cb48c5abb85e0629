-------------------------- MODULE PlanServiceProofs --------------------------
(* The plan service implements the atomic plan, for every set of stages,     *)
(* stage lists and call slots.                                               *)
EXTENDS PlanService, SequenceTheorems, TLAPS

(***************************************************************************)
(* What every plan tool does to the history, for any document and call.    *)
(***************************************************************************)

\* A document, as far as its history is concerned.
IsDoc(doc) ==
  /\ doc = [stages |-> doc.stages, current |-> doc.current, history |-> doc.history]
  /\ doc.history \in Seq(StageId)

\* `new` holds the completed stages of `old` in their order, and maybe more.
Extends(new, old) ==
  /\ IsDoc(new)
  /\ IsPrefix(History(old), History(new))

\* A document is neither a missing file nor an error.
LEMMA IsDocHistory ==
  ASSUME NEW doc, IsDoc(doc)
  PROVE  doc # NoDoc /\ doc # Rejected /\ History(doc) = doc.history
<1>1. DOMAIN doc = {"stages", "current", "history"}
  BY DEF IsDoc
<1>2. DOMAIN NoDoc = {"missing"} /\ DOMAIN Rejected = {"rejected"}
  BY DEF NoDoc, Rejected
<1> QED BY <1>1, <1>2 DEF History

\* What passes the schema check is written as it is.
LEMMA CheckedPasses ==
  ASSUME NEW doc, Checked(doc) # Rejected
  PROVE  Checked(doc) = doc /\ Valid(doc)
BY DEF Checked

\* Appending extends a sequence by its last element.
LEMMA PrefixOfAppend ==
  ASSUME NEW S, NEW s \in Seq(S), NEW e \in S
  PROVE  IsPrefix(s, s) /\ IsPrefix(s, Append(s, e)) /\ e \in Range(Append(s, e))
BY DEF IsPrefix, Range

\* A tool that leaves the history alone extends it.
LEMMA SameHistory ==
  ASSUME NEW doc, IsDoc(doc), NEW stages, NEW current,
         NEW new, new = [doc EXCEPT !.stages = stages, !.current = current]
  PROVE  Extends(new, doc)
<1>1. IsDoc(new) /\ new.history = doc.history
  BY DEF IsDoc
<1>2. doc.history \in Seq(StageId)
  BY DEF IsDoc
<1>3. IsPrefix(doc.history, doc.history)
  BY <1>2 DEF IsPrefix
<1> QED BY <1>1, <1>3, IsDocHistory DEF Extends

\* Every writer tool, on any plan, extends the history, and plan_complete_stage
\* puts the stage it completes into it.
LEMMA EffectExtends ==
  ASSUME NEW c \in Calls, NEW doc, doc = NoDoc \/ IsDoc(doc), Effect(c, doc) # Rejected
  PROVE  /\ Extends(Effect(c, doc), doc)
         /\ c.tool = "plan_complete_stage" => c.id \in Range(History(Effect(c, doc)))
<1> DEFINE new == Effect(c, doc)
<1>1. CASE c.tool = "plan_init"
  <2>1. doc = NoDoc /\ new = [stages |-> c.stages, current |-> None, history |-> <<>>]
    BY <1>1, CheckedPasses DEF Effect, InitPlan
  <2>2. IsDoc(new) /\ new.history = <<>>
    BY <2>1 DEF IsDoc
  <2> QED BY <1>1, <2>1, <2>2, IsDocHistory, EmptySeq DEF Extends, History, IsPrefix
<1>2. CASE c.tool = "plan_set_stages"
  <2>1. IsDoc(doc) /\ new = [doc EXCEPT
          !.stages = StampStarted(PreserveStartedAt(c.stages, doc.stages), c.current),
          !.current = c.current]
    BY <1>2, CheckedPasses DEF Effect, SetStages
  <2> QED BY <1>2, <2>1, SameHistory
<1>3. CASE c.tool = "plan_add_stage"
  <2>1. IsDoc(doc) /\ new = [doc EXCEPT !.stages = Append(@, c.stage)]
    BY <1>3, CheckedPasses DEF Effect, AddStage
  <2>2. new = [doc EXCEPT !.stages = Append(doc.stages, c.stage), !.current = doc.current]
    BY <2>1 DEF IsDoc
  <2> QED BY <1>3, <2>1, <2>2, SameHistory
<1>4. CASE c.tool = "plan_remove_stage"
  <2>1. IsDoc(doc) /\ new = [doc EXCEPT !.stages = Without(doc.stages, c.id),
                                        !.current = CurrentWithout(doc, c.id)]
    BY <1>4, CheckedPasses DEF Effect, RemoveStage
  <2> QED BY <1>4, <2>1, SameHistory
<1>5. CASE c.tool = "plan_set_current"
  <2>1. IsDoc(doc) /\ new = [doc EXCEPT !.stages = StampStarted(doc.stages, c.id),
                                        !.current = c.id]
    BY <1>5, CheckedPasses DEF Effect, SetCurrent
  <2> QED BY <1>5, <2>1, SameHistory
<1>6. CASE c.tool = "plan_complete_stage"
  <2>1. IsDoc(doc) /\ new = [stages |-> Without(doc.stages, c.id),
                             current |-> CurrentWithout(doc, c.id),
                             history |-> Append(doc.history, c.id)]
    BY <1>6, CheckedPasses DEF Effect, CompleteStage
  <2>2. c.id \in StageId
    BY <1>6 DEF Calls
  <2>3. IsDoc(new) /\ new.history = Append(doc.history, c.id)
    BY <2>1, <2>2 DEF IsDoc
  <2>4. History(new) = Append(History(doc), c.id)
    BY <2>1, <2>3, IsDocHistory
  <2>5. History(doc) \in Seq(StageId)
    BY <2>1, IsDocHistory DEF IsDoc
  <2>6. IsPrefix(History(doc), History(new)) /\ c.id \in Range(History(new))
    BY <2>2, <2>4, <2>5, PrefixOfAppend
  <2> QED BY <2>3, <2>6 DEF Extends
<1> QED BY <1>1, <1>2, <1>3, <1>4, <1>5, <1>6 DEF Calls

\* So does the backfill of the history.
LEMMA AppendHistoryExtends ==
  ASSUME NEW id \in StageId, NEW doc, doc = NoDoc \/ IsDoc(doc),
         AppendHistory(id, doc) # Rejected
  PROVE  Extends(AppendHistory(id, doc), doc)
<1> DEFINE new == AppendHistory(id, doc)
<1>1. IsDoc(doc) /\ new = [doc EXCEPT !.history = Append(doc.history, id)]
  BY CheckedPasses DEF AppendHistory
<1>2. doc.history \in Seq(StageId) /\ Append(doc.history, id) \in Seq(StageId)
  BY <1>1 DEF IsDoc
<1>3. new = [stages |-> doc.stages, current |-> doc.current,
             history |-> Append(doc.history, id)]
  BY <1>1 DEF IsDoc
<1>4. IsDoc(new)
  BY <1>2, <1>3 DEF IsDoc
<1>5. History(doc) = doc.history /\ History(new) = Append(doc.history, id)
  BY <1>1, <1>3, <1>4, IsDocHistory
<1>6. IsPrefix(doc.history, Append(doc.history, id))
  BY <1>2, PrefixOfAppend
<1> QED BY <1>4, <1>5, <1>6 DEF Extends

(***************************************************************************)
(* The tools of the abstract plan are the service's own.                   *)
(***************************************************************************)

\* The schema check is the same on both sides.
LEMMA SameChecked ==
  ASSUME NEW doc
  PROVE  Abstract!Checked(doc) = Checked(doc)
<1>1. Abstract!Valid(doc) = Valid(doc)
  BY DEF Valid, Abstract!Valid, Ids, Abstract!Ids, Range, Abstract!Range,
         IsInjective, Abstract!IsInjective
<1> QED BY <1>1 DEF Checked, Abstract!Checked, Rejected, Abstract!Rejected

\* So are the helpers of the tools.
LEMMA SameHelpers ==
  /\ Abstract!NoDoc = NoDoc /\ Abstract!Rejected = Rejected
  /\ \A stages : Abstract!Ids(stages) = Ids(stages)
  /\ \A f : Abstract!Range(f) = Range(f)
  /\ \A stages, id : Abstract!StampStarted(stages, id) = StampStarted(stages, id)
  /\ \A stages, id : Abstract!Without(stages, id) = Without(stages, id)
  /\ \A doc, id : Abstract!CurrentWithout(doc, id) = CurrentWithout(doc, id)
<1>1. Abstract!NoDoc = NoDoc /\ Abstract!Rejected = Rejected
  BY DEF NoDoc, Abstract!NoDoc, Rejected, Abstract!Rejected
<1>2. \A stages : Abstract!Ids(stages) = Ids(stages)
  BY DEF Ids, Abstract!Ids
<1>3. \A f : Abstract!Range(f) = Range(f)
  BY DEF Range, Abstract!Range
<1>4. \A stages, id : Abstract!StampStarted(stages, id) = StampStarted(stages, id)
  BY DEF StampStarted, Abstract!StampStarted
<1>5. \A stages, id : Abstract!Without(stages, id) = Without(stages, id)
  BY DEF Without, Abstract!Without, RemoveAt, Abstract!RemoveAt
<1>6. \A doc, id : Abstract!CurrentWithout(doc, id) = CurrentWithout(doc, id)
  BY DEF CurrentWithout, Abstract!CurrentWithout
<1> QED BY <1>1, <1>2, <1>3, <1>4, <1>5, <1>6

\* A stage keeps its start time on both sides alike.
LEMMA SamePreserve ==
  ASSUME NEW incoming, NEW existing
  PROVE  Abstract!PreserveStartedAt(incoming, existing) = PreserveStartedAt(incoming, existing)
BY SameHelpers DEF PreserveStartedAt, Abstract!PreserveStartedAt

\* Every writer tool has the same effect on both sides.
LEMMA SameEffect ==
  ASSUME NEW c, NEW doc
  PROVE  Abstract!Effect(c, doc) = Effect(c, doc)
<1>1. Abstract!InitPlan(c.stages, doc) = InitPlan(c.stages, doc)
  BY SameChecked, SameHelpers DEF InitPlan, Abstract!InitPlan
<1>2. Abstract!SetStages(c.stages, c.current, doc) = SetStages(c.stages, c.current, doc)
  BY SameChecked, SameHelpers, SamePreserve DEF SetStages, Abstract!SetStages
<1>3. Abstract!AddStage(c.stage, doc) = AddStage(c.stage, doc)
  BY SameChecked, SameHelpers DEF AddStage, Abstract!AddStage
<1>4. Abstract!RemoveStage(c.id, doc) = RemoveStage(c.id, doc)
  BY SameChecked, SameHelpers DEF RemoveStage, Abstract!RemoveStage
<1>5. Abstract!SetCurrent(c.id, doc) = SetCurrent(c.id, doc)
  BY SameChecked, SameHelpers DEF SetCurrent, Abstract!SetCurrent
<1>6. Abstract!CompleteStage(c.id, doc) = CompleteStage(c.id, doc)
  BY SameChecked, SameHelpers DEF CompleteStage, Abstract!CompleteStage
<1> QED
  BY <1>1, <1>2, <1>3, <1>4, <1>5, <1>6 DEF Effect, Abstract!Effect

\* So has the backfill of the history.
LEMMA SameAppendHistory ==
  ASSUME NEW id, NEW doc
  PROVE  Abstract!AppendHistory(id, doc) = AppendHistory(id, doc)
BY SameChecked, SameHelpers DEF AppendHistory, Abstract!AppendHistory

\* Both sides read the same histories.
LEMMA SameHistories ==
  ASSUME NEW new, NEW old
  PROVE  Abstract!IsPrefix(Abstract!History(old), Abstract!History(new))
           = IsPrefix(History(old), History(new))
BY DEF IsPrefix, Abstract!IsPrefix, History, Abstract!History, NoDoc, Abstract!NoDoc

\* Both sides know the same calls.
LEMMA SameCalls == Abstract!Calls = Calls
BY DEF Calls, Abstract!Calls, Stages, Abstract!Stages

(***************************************************************************)
(* The invariant: one handler runs at a time, it is the one whose turn it  *)
(* is, it computes its document from the cache, and the cache is the file  *)
(* but between the rename and the end of writeDoc.                         *)
(***************************************************************************)

Typed ==
  /\ queue \in Seq(Job)
  /\ phase \in [Job -> Phases]
  /\ call \in [Job -> Calls \cup {NoCall}]
  /\ next = [j \in Job |-> next[j]]
  /\ up \in BOOLEAN

DownIsIdle == ~up => cache = NoDoc /\ \A j \in Job : phase[j] = "free"

Serial == \A j \in Running : queue # <<>> /\ Head(queue) = j

Called == \A j \in Job : phase[j] # "free" => call[j] \in Calls

Computed ==
  \A j \in Job : phase[j] \in {"writing", "renamed"} =>
    next[j] = Effect(call[j], cache) /\ next[j] # Rejected

InStep ==
  /\ \A j \in Job : phase[j] = "renamed" => disk = next[j]
  /\ up /\ (\A j \in Job : phase[j] # "renamed") => cache = disk

IInv == Typed /\ DownIsIdle /\ Serial /\ Called /\ Computed /\ InStep

\* A runtime starts idle, its cache the file.
LEMMA InitIInv == Init => IInv
BY NoCallAssumption DEF Init, IInv, Typed, DownIsIdle, Serial, Called, Computed, InStep, Running, Phases

\* A job that runs leaves every other one free or queued.
LEMMA Alone ==
  ASSUME Serial, NEW j \in Running, NEW k \in Job, k # j
  PROVE  phase[k] \in {"free", "queued"}
BY DEF Serial, Running

\* A handler that returns leaves the queue to the next one.
LEMMA Returned ==
  ASSUME IInv, NEW j \in Job, Return(j), up, queue # <<>>, up' = up, disk' = disk,
         cache' = disk,
         \A k \in Job \ {j} : phase[k] \in {"free", "queued"}
  PROVE  IInv'
<1> USE DEF IInv, Typed, Advance, Phases, Return
<1>1. Typed'
  BY HeadTailProperties
<1> QED BY <1>1 DEF DownIsIdle, Serial, Called, Computed, InStep, Running

\* A step of a handler, a caller, the process or the backfill keeps the invariant.
LEMMA StepIInv == IInv /\ [Next]_vars => IInv'
<1> SUFFICES ASSUME IInv, [Next]_vars PROVE IInv'
  OBVIOUS
<1> USE DEF IInv, Typed, Advance, Phases
<1>1. ASSUME NEW j \in Job, NEW c \in Calls, HandleToolCall(j, c) PROVE IInv'
  <2>1. Typed'
    BY <1>1 DEF HandleToolCall
  <2>2. Serial'
    <3> SUFFICES ASSUME NEW k \in Job, k \in Running'
                 PROVE  queue' # <<>> /\ Head(queue') = k
      BY DEF Serial, Running
    <3>1. k \in Running
      BY <1>1 DEF HandleToolCall, Running
    <3>2. queue # <<>> /\ Head(queue) = k
      BY <3>1 DEF Serial
    <3> QED BY <1>1, <3>2, HeadTailAppend DEF HandleToolCall
  <2>3. (DownIsIdle /\ Called /\ Computed /\ InStep)'
    BY <1>1 DEF HandleToolCall, DownIsIdle, Called, Computed, InStep
  <2> QED BY <2>1, <2>2, <2>3
<1>2. ASSUME NEW j \in Job, TimeOut(j) PROVE IInv'
  BY <1>2 DEF TimeOut, DownIsIdle, Serial, Called, Computed, InStep, Running
<1>3. ASSUME NEW j \in Job, StartHandler(j) PROVE IInv'
  <2>1. queue # <<>> /\ Head(queue) = j /\ up /\ call[j] \in Calls /\ j \notin Running
    BY <1>3 DEF StartHandler, MayStart, DownIsIdle, Called, Running
  <2>2. \A k \in Job \ {j} : phase[k] \in {"free", "queued"}
    BY <2>1 DEF Serial, Running
  <2>3. CASE Effect(call[j], cache) = Rejected
    <3>1. Return(j)
      BY <1>3, <2>3 DEF StartHandler
    <3>2. cache = disk
      BY <1>3, <2>1, <2>2 DEF StartHandler, InStep
    <3> QED BY <1>3, <3>1, <3>2, <2>1, <2>2, Returned DEF StartHandler
  <2>4. CASE Effect(call[j], cache) # Rejected
    BY <1>3, <2>1, <2>2, <2>4
    DEF StartHandler, DownIsIdle, Serial, Called, Computed, InStep, Running
  <2> QED BY <2>3, <2>4
<1>4. ASSUME NEW j \in Job, Rename(j) PROVE IInv'
  <2>1. j \in Running
    BY <1>4 DEF Rename, Running
  <2>2. \A k \in Job \ {j} : phase[k] \in {"free", "queued"}
    BY <2>1, Alone
  <2> QED
    BY <1>4, <2>1, <2>2 DEF Rename, DownIsIdle, Serial, Called, Computed, InStep, Running
<1>5. ASSUME NEW j \in Job, WriteFails(j) PROVE IInv'
  <2>1. j \in Running /\ up
    BY <1>5 DEF WriteFails, Running, DownIsIdle
  <2>2. queue # <<>> /\ \A k \in Job \ {j} : phase[k] \in {"free", "queued"}
    BY <2>1, Alone DEF Serial
  <2>3. cache = disk
    BY <1>5, <2>1, <2>2 DEF WriteFails, InStep
  <2> QED BY <1>5, <2>1, <2>2, <2>3, Returned DEF WriteFails
<1>6. ASSUME NEW j \in Job, Publish(j) PROVE IInv'
  <2>1. j \in Running /\ up /\ disk = next[j]
    BY <1>6 DEF Publish, Running, DownIsIdle, InStep
  <2>2. queue # <<>> /\ \A k \in Job \ {j} : phase[k] \in {"free", "queued"}
    BY <2>1, Alone DEF Serial
  <2>3. CASE Completes(j)
    BY <1>6, <2>1, <2>2, <2>3
    DEF Publish, DownIsIdle, Serial, Called, Computed, InStep, Running
  <2>4. CASE ~Completes(j)
    BY <1>6, <2>1, <2>2, <2>4, Returned DEF Publish
  <2> QED BY <2>3, <2>4
<1>7. ASSUME NEW j \in Job, Archive(j) PROVE IInv'
  <2>1. j \in Running
    BY <1>7 DEF Archive, Running
  <2>2. \A k \in Job \ {j} : phase[k] \in {"free", "queued"}
    BY <2>1, Alone
  <2> QED
    BY <1>7, <2>1, <2>2 DEF Archive, DownIsIdle, Serial, Called, Computed, InStep, Running
<1>8. ASSUME NEW j \in Job, MarkCompleted(j) PROVE IInv'
  <2>1. j \in Running /\ up
    BY <1>8 DEF MarkCompleted, Running, DownIsIdle
  <2>2. queue # <<>> /\ \A k \in Job \ {j} : phase[k] \in {"free", "queued"}
    BY <2>1, Alone DEF Serial
  <2>3. cache = disk
    BY <1>8, <2>1, <2>2 DEF MarkCompleted, InStep
  <2> QED BY <1>8, <2>1, <2>2, <2>3, Returned DEF MarkCompleted
<1>9. ASSUME Crash PROVE IInv'
  <2>1. Typed'
    <3>1. up' \in BOOLEAN
      BY <1>9 DEF Crash
    <3>2. queue' = <<>> /\ <<>> \in Seq(Job)
      BY <1>9 DEF Crash
    <3>3. phase' \in [Job -> Phases] /\ call' \in [Job -> Calls \cup {NoCall}]
      BY <1>9 DEF Crash
    <3>4. next' = [j \in Job |-> next'[j]]
      BY <1>9 DEF Crash
    <3> QED BY <3>1, <3>2, <3>3, <3>4
  <2> QED BY <1>9, <2>1 DEF Crash, DownIsIdle, Serial, Called, Computed, InStep, Running
<1>10. ASSUME Restart PROVE IInv'
  BY <1>10 DEF Restart, handlers, DownIsIdle, Serial, Called, Computed, InStep, Running
<1>11. ASSUME NEW id \in StageId, AppendToHistory(id) PROVE IInv'
  BY <1>11 DEF AppendToHistory, handlers, DownIsIdle, Serial, Called, Computed, InStep, Running
<1>12. CASE UNCHANGED vars
  BY <1>12 DEF vars, handlers, DownIsIdle, Serial, Called, Computed, InStep, Running
<1> QED
  BY <1>1, <1>2, <1>3, <1>4, <1>5, <1>6, <1>7, <1>8, <1>9, <1>10, <1>11, <1>12
  DEF Next, Step

\* One handler runs at a time, on a cache that is the file, in every state of the
\* service.
THEOREM Invariance == Spec => []IInv
<1>1. Init => IInv
  BY InitIInv
<1>2. IInv /\ [Next]_vars => IInv'
  BY StepIInv
<1> QED BY <1>1, <1>2, PTL DEF Spec

\* Between two calls the cache of a running service is plan.json.
THEOREM CacheIsCurrent == Spec => []CacheIsTheFile
<1>1. IInv => CacheIsTheFile
  BY DEF IInv, InStep, CacheIsTheFile, Running
<1> QED BY <1>1, Invariance, PTL

\* The rename and the backfill are writes of the atomic plan, all else stutters.
LEMMA StepRefines == IInv /\ [Next]_vars => [Abstract!Next]_<<disk, last>>
<1> SUFFICES ASSUME IInv, [Next]_vars PROVE [Abstract!Next]_<<disk, last>>
  OBVIOUS
<1>1. ASSUME NEW j \in Job, Rename(j) PROVE Abstract!Next
  <2>1. /\ call[j] \in Calls
        /\ next[j] = Effect(call[j], cache) /\ next[j] # Rejected
    BY <1>1 DEF IInv, Called, Computed, Rename
  <2>2. j \in Running /\ up
    BY <1>1 DEF Rename, Running, IInv, DownIsIdle
  <2>3. cache = disk
    BY <1>1, <2>2, Alone DEF IInv, InStep, Rename
  <2>4. Abstract!Write(call[j])
    BY <1>1, <2>1, <2>3, SameEffect, SameHelpers DEF Rename, Abstract!Write
  <2> QED BY <2>1, <2>4, SameCalls DEF Abstract!Next
<1>2. ASSUME NEW id \in StageId, AppendToHistory(id) PROVE Abstract!Next
  BY <1>2, SameAppendHistory, SameHelpers DEF AppendToHistory, Abstract!Backfill, Abstract!Next
<1>3. ASSUME NEW j \in Job, NEW c \in Calls, HandleToolCall(j, c) PROVE UNCHANGED <<disk, last>>
  BY <1>3 DEF HandleToolCall
<1>4. ASSUME NEW j \in Job,
             TimeOut(j) \/ StartHandler(j) \/ WriteFails(j) \/ Publish(j)
               \/ Archive(j) \/ MarkCompleted(j)
      PROVE  UNCHANGED <<disk, last>>
  BY <1>4 DEF TimeOut, StartHandler, WriteFails, Publish, Archive, MarkCompleted
<1>5. ASSUME Crash \/ Restart PROVE UNCHANGED <<disk, last>>
  BY <1>5 DEF Crash, Restart
<1>6. CASE UNCHANGED vars
  BY <1>6 DEF vars
<1> QED BY <1>1, <1>2, <1>3, <1>4, <1>5, <1>6 DEF Next, Step

\* Every behaviour of the service, timeouts, failing writes, kills, restarts and
\* backfills included, is one of the atomic plan: no update is lost.
THEOREM ImplementsAtomicPlan == Spec => AbstractSpec
<1>1. Init => Abstract!Init
  BY SameHelpers DEF Init, Abstract!Init
<1>2. IInv /\ [Next]_vars => [Abstract!Next]_<<disk, last>>
  BY StepRefines
<1> QED BY <1>1, <1>2, Invariance, PTL DEF Spec, AbstractSpec, Abstract!Spec

(***************************************************************************)
(* What the atomic plan keeps, and with it plan.json.                      *)
(***************************************************************************)

\* Every document written has gone through the schema.
Accepted == disk = NoDoc \/ (IsDoc(disk) /\ Valid(disk))

\* What a tool writes satisfies the schema.
LEMMA Written ==
  ASSUME NEW doc
  PROVE  /\ \A c \in Calls : Effect(c, doc) # Rejected => Valid(Effect(c, doc))
         /\ \A id : AppendHistory(id, doc) # Rejected => Valid(AppendHistory(id, doc))
<1>1. ASSUME NEW c \in Calls, Effect(c, doc) # Rejected PROVE Valid(Effect(c, doc))
  BY <1>1, CheckedPasses
  DEF Effect, Calls, InitPlan, SetStages, AddStage, RemoveStage, SetCurrent, CompleteStage
<1>2. ASSUME NEW id, AppendHistory(id, doc) # Rejected PROVE Valid(AppendHistory(id, doc))
  BY <1>2, CheckedPasses DEF AppendHistory
<1> QED BY <1>1, <1>2

\* A write of the atomic plan extends the history and passes the schema.
LEMMA WriteExtends ==
  ASSUME Accepted, Abstract!Next
  PROVE  Extends(disk', disk) /\ Valid(disk')
<1>1. ASSUME NEW c \in Calls, Abstract!Write(c) PROVE Extends(disk', disk) /\ Valid(disk')
  <2>1. Effect(c, disk) # Rejected /\ disk' = Effect(c, disk)
    BY <1>1, SameEffect, SameHelpers DEF Abstract!Write
  <2> QED BY <2>1, EffectExtends, Written DEF Accepted
<1>2. ASSUME NEW id \in StageId, Abstract!Backfill(id) PROVE Extends(disk', disk) /\ Valid(disk')
  <2>1. AppendHistory(id, disk) # Rejected /\ disk' = AppendHistory(id, disk)
    BY <1>2, SameAppendHistory, SameHelpers DEF Abstract!Backfill
  <2> QED BY <2>1, AppendHistoryExtends, Written DEF Accepted
<1> QED BY <1>1, <1>2, SameCalls DEF Abstract!Next

\* Every write keeps the plan a document the schema accepts.
LEMMA StepAccepted == Accepted /\ [Abstract!Next]_<<disk, last>> => Accepted'
BY WriteExtends DEF Accepted, Extends

\* plan.json, once there, is always a document the schema accepts.
THEOREM AlwaysAccepted == AbstractSpec => []Accepted
<1>1. Abstract!Init => Accepted
  BY SameHelpers DEF Abstract!Init, Accepted
<1> QED BY <1>1, StepAccepted, PTL DEF AbstractSpec, Abstract!Spec

\* A completed stage is in no active list again, so no gate admits it again:
\* neither in the atomic plan nor in the service that implements it.
THEOREM CompletedStaysCompleted ==
  (AbstractSpec => []Abstract!NeverReplanned) /\ (Spec => []Abstract!NeverReplanned)
<1>1. Accepted => Abstract!NeverReplanned
  BY SameHelpers DEF Accepted, Valid, Abstract!NeverReplanned
<1> QED BY <1>1, AlwaysAccepted, ImplementsAtomicPlan, PTL

\* No tool, and no timeout, failing write, kill or restart of the service, loses,
\* reorders or repeats a completed stage.
THEOREM HistoryIsAppendOnly ==
  (AbstractSpec => Abstract!HistoryAppendOnly) /\ (Spec => Abstract!HistoryAppendOnly)
<1>1. Accepted /\ [Abstract!Next]_<<disk, last>> =>
        [Abstract!IsPrefix(Abstract!History(disk), Abstract!History(disk'))]_<<disk, last>>
  BY WriteExtends, SameHistories DEF Extends
<1> QED
  BY <1>1, AlwaysAccepted, ImplementsAtomicPlan, PTL
  DEF AbstractSpec, Abstract!Spec, Abstract!HistoryAppendOnly

(***************************************************************************)
(* Histories: the file's only grows, the cache's is never ahead of it, and *)
(* the effects of a completion come after its write.                       *)
(***************************************************************************)

IsPlan(doc) == doc = NoDoc \/ IsDoc(doc)

\* A completion that archives or marks is on disk.
Finishing ==
  \A j \in Job :
    /\ phase[j] \in {"archiving", "marking"} =>
         Completes(j) /\ call[j].id \in Range(History(disk))
    /\ phase[j] = "renamed" /\ Completes(j) => call[j].id \in Range(History(disk))

HInv ==
  /\ IsPlan(disk) /\ IsPlan(cache)
  /\ ReadsAreDurable
  /\ Finishing
  /\ EffectsFollowTheWrite

\* The history of a plan is a sequence of ids.
LEMMA HistoryIsSeq ==
  ASSUME NEW doc, IsPlan(doc)
  PROVE  History(doc) \in Seq(StageId)
BY IsDocHistory DEF IsPlan, IsDoc, History

\* What a prefix holds the longer sequence holds.
LEMMA PrefixRange ==
  ASSUME NEW S, NEW s \in Seq(S), NEW t \in Seq(S), IsPrefix(s, t)
  PROVE  Range(s) \subseteq Range(t)
<1>1. \A i \in 1 .. Len(s) : s[i] = t[i] /\ i \in 1 .. Len(t)
  BY DEF IsPrefix
<1> QED BY <1>1 DEF Range

\* A history is a prefix of itself.
LEMMA PrefixReflexive ==
  ASSUME NEW doc, IsPlan(doc)
  PROVE  IsPrefix(History(doc), History(doc))
BY HistoryIsSeq DEF IsPrefix

\* When the file gets a document that extends it, what was in its history stays.
LEMMA Grows ==
  ASSUME HInv, Extends(disk', disk)
  PROVE  /\ IsPlan(disk')
         /\ Range(History(disk)) \subseteq Range(History(disk'))
         /\ IsPrefix(History(NoDoc), History(disk'))
<1>1. IsPlan(disk') /\ IsPlan(disk)
  BY DEF HInv, Extends, IsPlan
<1>2. History(disk') \in Seq(StageId) /\ History(disk) \in Seq(StageId)
  BY <1>1, HistoryIsSeq
<1>3. IsPrefix(<<>>, History(disk'))
  BY <1>2 DEF IsPrefix
<1> QED BY <1>1, <1>2, <1>3, PrefixRange DEF Extends, History

\* A project without a plan has no completion and no effect of one.
LEMMA InitHInv == Init => HInv
BY EmptySeq DEF Init, HInv, IsPlan, ReadsAreDurable, Finishing, EffectsFollowTheWrite, History, IsPrefix, Range

\* Every step keeps the cache behind the file and the effects behind both.
LEMMA StepHInv == IInv /\ HInv /\ [Next]_vars => HInv'
<1> SUFFICES ASSUME IInv, HInv, [Next]_vars PROVE HInv'
  OBVIOUS
<1> USE DEF IInv, Typed, Phases, Advance, Completes
<1>1. ASSUME NEW j \in Job, NEW c \in Calls, HandleToolCall(j, c) PROVE HInv'
  BY <1>1 DEF HandleToolCall, HInv, records, ReadsAreDurable, Finishing, EffectsFollowTheWrite
<1>2. ASSUME NEW j \in Job, TimeOut(j) PROVE HInv'
  BY <1>2 DEF TimeOut, HInv, records, ReadsAreDurable, Finishing, EffectsFollowTheWrite
<1>3. ASSUME NEW j \in Job, StartHandler(j) PROVE HInv'
  BY <1>3 DEF StartHandler, Return, HInv, records, ReadsAreDurable, Finishing, EffectsFollowTheWrite
<1>4. ASSUME NEW j \in Job, Rename(j) PROVE HInv'
  <2>1. /\ call[j] \in Calls
        /\ disk' = Effect(call[j], cache) /\ disk' # Rejected
    BY <1>4 DEF Rename, Called, Computed
  <2>2. j \in Running /\ up
    BY <1>4 DEF Rename, Running, DownIsIdle
  <2>3. cache = disk
    BY <1>4, <2>2, Alone DEF InStep, Rename
  <2>4. /\ Extends(disk', disk)
        /\ Completes(j) => call[j].id \in Range(History(disk'))
    BY <2>1, <2>3, EffectExtends DEF HInv, IsPlan
  <2>5. ReadsAreDurable' /\ EffectsFollowTheWrite'
    BY <1>4, <2>3, <2>4, Grows DEF Rename, HInv, records, ReadsAreDurable, EffectsFollowTheWrite, Extends
  <2>6. Finishing'
    BY <1>4, <2>4, Grows DEF Rename, HInv, Finishing
  <2> QED BY <1>4, <2>4, <2>5, <2>6, Grows DEF Rename, HInv
<1>5. ASSUME NEW j \in Job, WriteFails(j) PROVE HInv'
  BY <1>5 DEF WriteFails, Return, HInv, records, ReadsAreDurable, Finishing, EffectsFollowTheWrite
<1>6. ASSUME NEW j \in Job, Publish(j) PROVE HInv'
  <2>1. cache' = disk /\ disk' = disk
    BY <1>6 DEF Publish, InStep
  <2>2. ReadsAreDurable'
    BY <2>1, PrefixReflexive DEF HInv, ReadsAreDurable
  <2> QED
    BY <1>6, <2>1, <2>2 DEF Publish, Return, HInv, records, Finishing, EffectsFollowTheWrite
<1>7. ASSUME NEW j \in Job, Archive(j) PROVE HInv'
  BY <1>7 DEF Archive, HInv, ReadsAreDurable, Finishing, EffectsFollowTheWrite
<1>8. ASSUME NEW j \in Job, MarkCompleted(j) PROVE HInv'
  BY <1>8 DEF MarkCompleted, Return, HInv, ReadsAreDurable, Finishing, EffectsFollowTheWrite
<1>9. ASSUME Crash PROVE HInv'
  <2>1. History(disk) \in Seq(StageId)
    BY HistoryIsSeq DEF HInv
  <2>2. ReadsAreDurable'
    BY <1>9, <2>1 DEF Crash, ReadsAreDurable, History, IsPrefix
  <2> QED BY <1>9, <2>2 DEF Crash, HInv, IsPlan, records, Finishing, EffectsFollowTheWrite
<1>10. ASSUME Restart PROVE HInv'
  BY <1>10, PrefixReflexive
  DEF Restart, handlers, HInv, records, ReadsAreDurable, Finishing, EffectsFollowTheWrite
<1>11. ASSUME NEW id \in StageId, AppendToHistory(id) PROVE HInv'
  <2>1. Extends(disk', disk) /\ cache = NoDoc
    BY <1>11, AppendHistoryExtends DEF AppendToHistory, HInv, IsPlan, DownIsIdle
  <2> QED
    BY <1>11, <2>1, Grows
    DEF AppendToHistory, handlers, HInv, IsPlan, records, ReadsAreDurable, Finishing,
        EffectsFollowTheWrite
<1>12. CASE UNCHANGED vars
  BY <1>12 DEF vars, handlers, HInv, records, ReadsAreDurable, Finishing, EffectsFollowTheWrite
<1> QED
  BY <1>1, <1>2, <1>3, <1>4, <1>5, <1>6, <1>7, <1>8, <1>9, <1>10, <1>11, <1>12
  DEF Next, Step

\* A completion that a reader has seen, or that knowledge, the event log or a
\* caller was told of, is in plan.json whatever step a kill interrupts.
THEOREM CompletionsAreDurable == Spec => [](ReadsAreDurable /\ EffectsFollowTheWrite)
<1>1. Init => HInv
  BY InitHInv
<1>2. IInv /\ IInv' /\ HInv /\ [Next]_vars => HInv'
  BY StepHInv
<1>3. HInv => ReadsAreDurable /\ EffectsFollowTheWrite
  BY DEF HInv
<1> QED BY <1>1, <1>2, <1>3, Invariance, PTL DEF Spec

(***************************************************************************)
(* Types: every tool makes a document of a document.                       *)
(***************************************************************************)

\* The helpers of the tools make stage lists of stage lists.
LEMMA StageListsStay ==
  ASSUME NEW stages \in Seq(Stages)
  PROVE  /\ \A id : StampStarted(stages, id) \in Seq(Stages)
         /\ \A existing : PreserveStartedAt(stages, existing) \in Seq(Stages)
         /\ \A id \in Ids(stages) : id \in StageId /\ Without(stages, id) \in Seq(Stages)
<1>1. ASSUME NEW i \in DOMAIN stages
      PROVE  /\ stages[i] \in Stages /\ stages[i].id \in StageId
             /\ [id |-> stages[i].id, started |-> TRUE] \in Stages
  <2>1. stages[i] \in Stages
    OBVIOUS
  <2> QED BY <2>1 DEF Stages
<1>2. ASSUME NEW f, DOMAIN f = DOMAIN stages, f = [i \in DOMAIN stages |-> f[i]],
             \A i \in DOMAIN stages : f[i] \in Stages
      PROVE  f \in Seq(Stages)
  <2>1. Len(stages) \in Nat /\ DOMAIN stages = 1 .. Len(stages)
    OBVIOUS
  <2>2. f \in [1 .. Len(stages) -> Stages]
    BY <1>2, <2>1
  <2> QED BY <2>1, <2>2
<1>3. ASSUME NEW id PROVE StampStarted(stages, id) \in Seq(Stages)
  BY <1>1, <1>2 DEF StampStarted
<1>4. ASSUME NEW existing PROVE PreserveStartedAt(stages, existing) \in Seq(Stages)
  BY <1>1, <1>2 DEF PreserveStartedAt
<1>5. ASSUME NEW id \in Ids(stages) PROVE id \in StageId /\ Without(stages, id) \in Seq(Stages)
  <2> DEFINE i == CHOOSE i \in DOMAIN stages : stages[i].id = id
  <2>1. i \in DOMAIN stages /\ id \in StageId
    BY <1>1, <1>5 DEF Ids
  <2>2. i \in 1 .. Len(stages) /\ Len(stages) \in Nat
    BY <2>1
  <2> HIDE DEF i
  <2>3. SubSeq(stages, 1, i - 1) \in Seq(Stages)
    BY <2>2
  <2>4. SubSeq(stages, i + 1, Len(stages)) \in Seq(Stages)
    BY <2>2
  <2>5. RemoveAt(stages, i) \in Seq(Stages)
    BY <2>3, <2>4 DEF RemoveAt
  <2> QED BY <2>1, <2>5 DEF Without, i
<1> QED BY <1>3, <1>4, <1>5

\* A document keeps its type when a tool replaces its active stages.
LEMMA StagesReplaced ==
  ASSUME NEW doc \in Docs, NEW stages \in Seq(Stages), NEW current \in StageId \cup {None}
  PROVE  [doc EXCEPT !.stages = stages, !.current = current] \in Docs
BY DEF Docs

\* Every writer tool makes a document of the plan, or is rejected.
LEMMA EffectTypes ==
  ASSUME NEW c \in Calls, NEW doc \in Docs \cup {NoDoc}, Effect(c, doc) # Rejected
  PROVE  Effect(c, doc) \in Docs
<1>1. CASE c.tool = "plan_init"
  <2>1. c.stages \in Seq(Stages)
    BY <1>1, StageListsAssumption DEF Calls
  <2>2. Effect(c, doc) = [stages |-> c.stages, current |-> None, history |-> <<>>]
    BY <1>1, CheckedPasses DEF Effect, InitPlan
  <2>3. <<>> \in Seq(StageId)
    OBVIOUS
  <2> QED BY <2>1, <2>2, <2>3 DEF Docs
<1>2. CASE c.tool = "plan_set_stages"
  <2>1. c.stages \in Seq(Stages) /\ c.current \in StageId \cup {None}
    BY <1>2, StageListsAssumption DEF Calls
  <2>2. doc \in Docs /\ Effect(c, doc) = [doc EXCEPT
          !.stages = StampStarted(PreserveStartedAt(c.stages, doc.stages), c.current),
          !.current = c.current]
    BY <1>2, CheckedPasses DEF Effect, SetStages
  <2>3. StampStarted(PreserveStartedAt(c.stages, doc.stages), c.current) \in Seq(Stages)
    BY <2>1, StageListsStay
  <2>4. [doc EXCEPT !.stages = StampStarted(PreserveStartedAt(c.stages, doc.stages), c.current),
                    !.current = c.current] \in Docs
    BY <2>1, <2>2, <2>3, StagesReplaced, Zenon
  <2> QED BY <2>2, <2>4
<1>3. CASE c.tool = "plan_add_stage"
  <2>1. c.stage \in Stages
    BY <1>3 DEF Calls
  <2>2. doc \in Docs /\ Effect(c, doc) = [doc EXCEPT !.stages = Append(doc.stages, c.stage)]
    BY <1>3, CheckedPasses DEF Effect, AddStage
  <2>3. doc.stages \in Seq(Stages) /\ Append(doc.stages, c.stage) \in Seq(Stages)
    BY <2>1, <2>2 DEF Docs
  <2> QED BY <2>2, <2>3 DEF Docs
<1>4. CASE c.tool = "plan_remove_stage"
  <2>1. doc \in Docs /\ c.id \in Ids(doc.stages)
        /\ Effect(c, doc) = [doc EXCEPT !.stages = Without(doc.stages, c.id),
                                        !.current = CurrentWithout(doc, c.id)]
    BY <1>4, CheckedPasses DEF Effect, RemoveStage
  <2>2. doc.stages \in Seq(Stages) /\ doc.current \in StageId \cup {None} /\ doc.history \in Seq(StageId)
    BY <2>1 DEF Docs
  <2>3. Without(doc.stages, c.id) \in Seq(Stages) /\ CurrentWithout(doc, c.id) \in StageId \cup {None}
    BY <2>1, <2>2, StageListsStay DEF CurrentWithout
  <2>4. [doc EXCEPT !.stages = Without(doc.stages, c.id), !.current = CurrentWithout(doc, c.id)] \in Docs
    BY <2>1, <2>3, StagesReplaced, Zenon
  <2> QED BY <2>1, <2>4
<1>5. CASE c.tool = "plan_set_current"
  <2>1. c.id \in StageId \cup {None}
    BY <1>5 DEF Calls
  <2>2. doc \in Docs /\ Effect(c, doc) = [doc EXCEPT !.stages = StampStarted(doc.stages, c.id),
                                                    !.current = c.id]
    BY <1>5, CheckedPasses DEF Effect, SetCurrent
  <2>3. doc.stages \in Seq(Stages)
    BY <2>2 DEF Docs
  <2>4. StampStarted(doc.stages, c.id) \in Seq(Stages)
    BY <2>3, StageListsStay
  <2>5. [doc EXCEPT !.stages = StampStarted(doc.stages, c.id), !.current = c.id] \in Docs
    BY <2>1, <2>2, <2>4, StagesReplaced, Zenon
  <2> QED BY <2>2, <2>5, Zenon
<1>6. CASE c.tool = "plan_complete_stage"
  <2>1. doc \in Docs /\ [id |-> c.id, started |-> TRUE] \in Range(doc.stages)
        /\ Effect(c, doc) = [stages |-> Without(doc.stages, c.id),
                             current |-> CurrentWithout(doc, c.id),
                             history |-> Append(doc.history, c.id)]
    BY <1>6, CheckedPasses DEF Effect, CompleteStage
  <2>2. doc.stages \in Seq(Stages) /\ doc.current \in StageId \cup {None} /\ doc.history \in Seq(StageId)
    BY <2>1 DEF Docs
  <2>3. c.id \in Ids(doc.stages) /\ c.id \in StageId
    BY <1>6, <2>1 DEF Range, Ids, Calls
  <2>4. Without(doc.stages, c.id) \in Seq(Stages) /\ CurrentWithout(doc, c.id) \in StageId \cup {None}
        /\ Append(doc.history, c.id) \in Seq(StageId)
    BY <2>2, <2>3, StageListsStay DEF CurrentWithout
  <2> QED BY <2>1, <2>4 DEF Docs
<1> QED BY <1>1, <1>2, <1>3, <1>4, <1>5, <1>6 DEF Calls

\* So does the backfill.
LEMMA AppendHistoryTypes ==
  ASSUME NEW id \in StageId, NEW doc \in Docs \cup {NoDoc}, AppendHistory(id, doc) # Rejected
  PROVE  AppendHistory(id, doc) \in Docs
<1>1. doc \in Docs /\ AppendHistory(id, doc) = [doc EXCEPT !.history = Append(doc.history, id)]
  BY CheckedPasses DEF AppendHistory
<1>2. doc.history \in Seq(StageId) /\ Append(doc.history, id) \in Seq(StageId)
  BY <1>1 DEF Docs
<1> QED BY <1>1, <1>2 DEF Docs

DocTypes ==
  /\ disk \in Docs \cup {NoDoc} /\ cache \in Docs \cup {NoDoc}
  /\ \A j \in Job : next[j] \in Docs \cup {NoDoc}
  /\ waiting \in SUBSET Job
  /\ last \in Calls \cup [tool : {"none", "plan_append_history"}]

\* Every step keeps the documents documents.
LEMMA StepDocTypes == IInv /\ DocTypes /\ [Next]_vars => DocTypes'
<1> SUFFICES ASSUME IInv, DocTypes, [Next]_vars PROVE DocTypes'
  OBVIOUS
<1> USE DEF DocTypes, IInv, Typed, Advance
<1>1. ASSUME NEW j \in Job, Return(j), UNCHANGED <<disk, last>>, cache' \in {cache, next[j]}
      PROVE  DocTypes'
  BY <1>1 DEF Return
<1>2. ASSUME NEW j \in Job, NEW c \in Calls, HandleToolCall(j, c) PROVE DocTypes'
  BY <1>2 DEF HandleToolCall
<1>3. ASSUME NEW j \in Job, TimeOut(j) PROVE DocTypes'
  BY <1>3 DEF TimeOut
<1>4. ASSUME NEW j \in Job, StartHandler(j) PROVE DocTypes'
  <2>1. CASE Return(j)
    BY <1>1, <1>4, <2>1 DEF StartHandler
  <2>2. CASE Effect(call[j], cache) # Rejected /\ next' = [next EXCEPT ![j] = Effect(call[j], cache)]
    <3>1. call[j] \in Calls
      BY <1>4 DEF StartHandler, Called
    <3>2. Effect(call[j], cache) \in Docs
      BY <2>2, <3>1, EffectTypes
    <3> QED BY <1>4, <2>2, <3>2 DEF StartHandler, Return
  <2> QED BY <1>4, <2>1, <2>2 DEF StartHandler
<1>5. ASSUME NEW j \in Job, Rename(j) PROVE DocTypes'
  BY <1>5 DEF Rename, Called
<1>6. ASSUME NEW j \in Job, WriteFails(j) PROVE DocTypes'
  BY <1>1, <1>6 DEF WriteFails
<1>7. ASSUME NEW j \in Job, Publish(j) PROVE DocTypes'
  BY <1>1, <1>7 DEF Publish
<1>8. ASSUME NEW j \in Job, Archive(j) \/ MarkCompleted(j) PROVE DocTypes'
  BY <1>1, <1>8 DEF Archive, MarkCompleted
<1>9. CASE Crash
  BY <1>9 DEF Crash
<1>10. CASE Restart
  BY <1>10 DEF Restart, handlers
<1>11. ASSUME NEW id \in StageId, AppendToHistory(id) PROVE DocTypes'
  BY <1>11, AppendHistoryTypes DEF AppendToHistory, handlers
<1>12. CASE UNCHANGED vars
  BY <1>12 DEF vars, handlers
<1> QED
  BY <1>2, <1>3, <1>4, <1>5, <1>6, <1>7, <1>8, <1>9, <1>10, <1>11, <1>12 DEF Next, Step

\* The file, the cache and what is on its way are plans of the schema's shape,
\* and the rest of the service keeps its types, through any calls and kills.
THEOREM TypeCorrect == Spec => []TypeOK
<1>1. Init => DocTypes
  BY DEF Init, DocTypes
<1>2. IInv /\ DocTypes /\ EffectsFollowTheWrite => TypeOK
  <2> SUFFICES ASSUME IInv, DocTypes, EffectsFollowTheWrite PROVE TypeOK
    OBVIOUS
  <2>1. Range(History(disk)) \subseteq StageId
    <3>1. History(disk) \in Seq(StageId)
      BY DEF DocTypes, Docs, History
    <3> QED BY <3>1 DEF Range
  <2>2. archived \in SUBSET StageId /\ completed \in SUBSET StageId /\ acked \in SUBSET StageId
    BY <2>1 DEF EffectsFollowTheWrite
  <2>3. next \in [Job -> Docs \cup {NoDoc}]
    BY DEF IInv, Typed, DocTypes
  <2> QED BY <2>2, <2>3 DEF IInv, Typed, DocTypes, TypeOK
<1>3. Spec => [](ReadsAreDurable /\ EffectsFollowTheWrite)
  BY CompletionsAreDurable
<1> QED BY <1>1, <1>2, <1>3, StepDocTypes, Invariance, PTL DEF Spec
=============================================================================
