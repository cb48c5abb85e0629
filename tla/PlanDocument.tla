---------------------------- MODULE PlanDocument ----------------------------
(***************************************************************************)
(* plan.json and what each plan tool makes of it                           *)
(* (src/src/mcp/plan-server.ts, PlanDocumentSchema in src/src/types.ts).   *)
(* A stage is its id and whether it has a started_at; a history entry is   *)
(* the id of the stage it completes.                                       *)
(***************************************************************************)
EXTENDS SequencesExt

CONSTANTS
  StageId,     \* the ids a planner gives its stages
  None,        \* no current stage
  StageLists   \* the stage arrays a caller passes to plan_init, plan_set_stages

Stages == [id : StageId, started : BOOLEAN]

ASSUME StageListsAssumption == StageLists \subseteq Seq(Stages)
ASSUME NoneAssumption == None \notin StageId

Docs == [stages : Seq(Stages), current : StageId \cup {None}, history : Seq(StageId)]

NoDoc == [missing |-> "plan.json does not exist"]
Rejected == [rejected |-> "PlanError"]

\* The ids of the stages completed so far, oldest first.
History(doc) == IF doc = NoDoc THEN <<>> ELSE doc.history

Ids(stages) == {stages[i].id : i \in DOMAIN stages}

\* PlanDocumentSchema.superRefine, which every write goes through.
Valid(doc) ==
  /\ \A i, j \in DOMAIN doc.stages : doc.stages[i].id = doc.stages[j].id => i = j
  /\ IsInjective(doc.history)
  /\ Ids(doc.stages) \cap Range(doc.history) = {}
  /\ doc.current # None => doc.current \in Ids(doc.stages)

\* stampStarted, on the stage with this id
StampStarted(stages, id) ==
  [i \in DOMAIN stages |->
     IF stages[i].id = id THEN [id |-> id, started |-> TRUE] ELSE stages[i]]

\* preserveStartedAt
PreserveStartedAt(incoming, existing) ==
  [i \in DOMAIN incoming |->
     IF [id |-> incoming[i].id, started |-> TRUE] \in Range(existing)
       THEN [id |-> incoming[i].id, started |-> TRUE] ELSE incoming[i]]

\* findIndex and splice: the ids of a plan's stages are unique.
Without(stages, id) == RemoveAt(stages, CHOOSE i \in DOMAIN stages : stages[i].id = id)

\* The current stage once `id` has left the active list.
CurrentWithout(doc, id) == IF doc.current = id THEN None ELSE doc.current

Checked(doc) == IF Valid(doc) THEN doc ELSE Rejected

-----------------------------------------------------------------------------
(* One operator per writer tool: the document it writes, or Rejected. *)

InitPlan(stages, doc) ==
  IF doc # NoDoc THEN Rejected
  ELSE Checked([stages |-> stages, current |-> None, history |-> <<>>])

SetStages(stages, current, doc) ==
  IF doc = NoDoc \/ (current # None /\ current \notin Ids(stages)) THEN Rejected
  ELSE Checked([doc EXCEPT
         !.stages = StampStarted(PreserveStartedAt(stages, doc.stages), current),
         !.current = current])

AddStage(stage, doc) ==
  IF doc = NoDoc \/ stage.id \in Ids(doc.stages) \cup Range(doc.history) THEN Rejected
  ELSE Checked([doc EXCEPT !.stages = Append(@, stage)])

RemoveStage(id, doc) ==
  IF doc = NoDoc \/ id \notin Ids(doc.stages) THEN Rejected
  ELSE Checked([doc EXCEPT !.stages = Without(@, id),
                           !.current = CurrentWithout(doc, id)])

SetCurrent(id, doc) ==
  IF doc = NoDoc \/ (id # None /\ id \notin Ids(doc.stages)) THEN Rejected
  ELSE Checked([doc EXCEPT !.stages = StampStarted(@, id), !.current = id])

CompleteStage(id, doc) ==
  IF doc = NoDoc \/ [id |-> id, started |-> TRUE] \notin Range(doc.stages) THEN Rejected
  ELSE Checked([stages |-> Without(doc.stages, id),
                current |-> CurrentWithout(doc, id),
                history |-> Append(doc.history, id)])

AppendHistory(id, doc) ==
  IF doc = NoDoc \/ id \in Ids(doc.stages) \cup Range(doc.history) THEN Rejected
  ELSE Checked([doc EXCEPT !.history = Append(@, id)])

-----------------------------------------------------------------------------
(* The calls a client of the plan service can make. *)

Calls ==
  [tool : {"plan_init"}, stages : StageLists]
    \cup [tool : {"plan_set_stages"}, stages : StageLists, current : StageId \cup {None}]
    \cup [tool : {"plan_add_stage"}, stage : Stages]
    \cup [tool : {"plan_set_current"}, id : StageId \cup {None}]
    \cup [tool : {"plan_remove_stage", "plan_complete_stage"}, id : StageId]

\* dispatchPlanToolCall: the handler of each writer tool
Effect(c, doc) ==
  CASE c.tool = "plan_init"           -> InitPlan(c.stages, doc)
    [] c.tool = "plan_set_stages"     -> SetStages(c.stages, c.current, doc)
    [] c.tool = "plan_add_stage"      -> AddStage(c.stage, doc)
    [] c.tool = "plan_remove_stage"   -> RemoveStage(c.id, doc)
    [] c.tool = "plan_set_current"    -> SetCurrent(c.id, doc)
    [] c.tool = "plan_complete_stage" -> CompleteStage(c.id, doc)
=============================================================================
