------------------------------- MODULE Roster -------------------------------
(***************************************************************************)
(* The agent roster (src/src/agents/roster.ts): who may dispatch whom, with *)
(* which tools, which configured model a role runs on, and in which order   *)
(* the supervisor aborts; and by which name a role reaches a tool           *)
(* (src/src/mcp/runtime.ts, src/src/runtime/dispatcher.ts).  Prompts and    *)
(* summaries are left out; FileTools has the write territories.             *)
(***************************************************************************)
EXTENDS Integers, FiniteSets, SequencesExt

Entry(scoped, by, filter, priority, key) ==
  [stageScoped |-> scoped, dispatchableBy |-> by, toolFilter |-> filter,
   abortPriority |-> priority, modelKey |-> key]

NotAborted == 0

\* Who leads: the planner, the managers of its stages, the coders that only
\* write code.
Leads ==
  [planner |-> Entry(FALSE, {}, "planner", NotAborted, "orchestrator"),
   manager |-> Entry(FALSE, {"planner"}, "worker", 7, "orchestrator"),
   coder |-> Entry(FALSE, {"manager"}, "worker", 4, "coder")]

\* The other workers; those that review keep their conversation in a stage.
Specialists ==
  [researcher |-> Entry(FALSE, {"manager"}, "worker", 5, "researcher"),
   data_agent |-> Entry(FALSE, {"manager"}, "worker", 3, "data_agent"),
   reviewer |-> Entry(TRUE, {"manager"}, "reviewer", 1, "reviewer"),
   designer |-> Entry(TRUE, {"manager"}, "worker", 6, "designer"),
   critic |-> Entry(TRUE, {"manager"}, "reviewer", 2, "critic")]

Advisors ==
  [inspector |-> Entry(FALSE, {"planner"}, "inspector", NotAborted, "orchestrator"),
   chat |-> Entry(FALSE, {}, "chat", NotAborted, "chat"),
   librarian |-> Entry(FALSE, {"planner", "manager"}, "librarian", 8, "orchestrator")]

ROSTER == Leads @@ Specialists @@ Advisors

Workers == {"coder"} \cup DOMAIN Specialists

\* The roles a dispatch tool exists for.
Dispatchable == {r \in DOMAIN ROSTER : ROSTER[r].dispatchableBy # {}}

\* getDispatchToolsFor: the schemas a parent is offered.
DispatchToolsFor(parent) == {r \in Dispatchable : parent \in ROSTER[r].dispatchableBy}

\* What the schema of a dispatch tool requires.
DispatchRequires(role) ==
  CASE role = "manager" -> {"stage"}
    [] role = "inspector" -> {"request"}
    [] role = "librarian" -> {"objective"}
    [] OTHER -> {"task", "stageId"}

ReadTools == {"read", "glob", "grep", "git_status", "git_log", "git_diff", "skill"}
WebTools == {"websearch", "webfetch"}
PlanTools == {"plan_get", "plan_get_stage", "plan_get_current_stage", "plan_set_stages",
              "plan_add_stage", "plan_remove_stage", "plan_set_current", "plan_complete_stage",
              "plan_get_history", "plan_init", "plan_commit", "plan_done"}
ArtifactTools == {"stage_write_tasks", "task_write_report", "stage_write_summary",
                  "stage_get_run", "stage_list_reports"}
LibrarianTools == {"rag_list", "rag_stats", "rag_query", "rag_register", "rag_ingest", "rag_drop",
                   "rag_admin", "read", "glob", "grep", "skill", "list_memories", "get_memory",
                   "search_memories", "create_memory", "update_memory"}

\* applyToolFilter: a worker has every tool but the plan's, all others have a list.
ToolAllowed(role, tool) ==
  CASE ROSTER[role].toolFilter = "planner" -> tool \in PlanTools \cup ArtifactTools \cup ReadTools
    [] ROSTER[role].toolFilter = "worker" -> tool \notin PlanTools
    [] ROSTER[role].toolFilter = "reviewer" -> tool \in ReadTools \cup ArtifactTools \cup {"run_command"}
    [] ROSTER[role].toolFilter = "inspector" -> tool \in ReadTools \cup WebTools \cup {"run_command"}
    [] ROSTER[role].toolFilter = "chat" -> tool \in ReadTools \cup WebTools \cup {"create_note"}
    [] ROSTER[role].toolFilter = "librarian" -> tool \in LibrarianTools

---------------------------------------------------------------------------
(* A service is [name, external, tools, connected], its tools a sequence of   *)
(* names; a name is a sequence of the words that an underscore joins.         *)

\* aliasToolName
Alias(service, tool, taken) ==
  LET base == <<service>> \o tool
      Numbered(n) == Append(base, <<"2", "3", "4">>[n])
      first == CHOOSE n \in 1..3 : Numbered(n) \notin taken /\ \A m \in 1..(n - 1) : Numbered(m) \in taken
  IN IF base \notin taken THEN base ELSE Numbered(first)

\* getAllTools: in-process services have their names as they are, an external
\* tool gives way to all before it.
GetAllTools(services) ==
  LET List(entries, service) ==
        FoldLeft(LAMBDA acc, tool :
                   LET taken == {e.name : e \in Range(acc)}
                       name == IF service.external /\ tool \in taken THEN Alias(service.name, tool, taken) ELSE tool
                   IN Append(acc, [name |-> name, service |-> service.name, tool |-> tool]),
                 entries, service.tools)
  IN FoldLeft(List, <<>>, SelectSeq(services, LAMBDA s : ~s.external) \o SelectSeq(services, LAMBDA s : s.external))

\* The filters know single names only.
PassesFilter(role, tool) == ToolAllowed(role, IF Len(tool) = 1 THEN tool[1] ELSE "none of the built-in tools")

\* getToolSchemas: a tool passes by its own name and is offered by its visible one.
ToolSchemas(role, services) == {e.name : e \in {t \in Range(GetAllTools(services)) : PassesFilter(role, t.tool)}}

\* callTool: the service of that name, an in-process one before an external one.
\* An agent's call is authorised by the tool's own name.
ServiceFor(name, services) ==
  LET named == {s \in Range(services) : s.name = name}
      inProcess == {s \in named : ~s.external}
  IN CHOOSE s \in named : inProcess # {} => s \in inProcess

CallTool(role, name, tool, services) ==
  LET service == ServiceFor(name, services) IN
  CASE ~service.connected -> [outcome |-> "not running"]
    [] service.connected /\ tool \notin Range(service.tools) -> [outcome |-> "unknown tool"]
    [] service.connected /\ tool \in Range(service.tools) ->
         IF PassesFilter(role, tool) THEN [outcome |-> "called", external |-> service.external, service |-> name, tool |-> tool]
         ELSE [outcome |-> "unauthorized"]

\* executeLocalTool: the third name in a row that no tool has ends the agent.
MaxConsecutiveInvalid == 3

ExecuteLocalTool(role, name, invalid, services) ==
  LET entries == GetAllTools(services)
      found == {e \in Range(entries) : e.name = name}
      entry == CHOOSE e \in found : TRUE
  IN IF Cardinality({e.name : e \in Range(entries)}) # Len(entries) THEN [outcome |-> "duplicate names", invalid |-> invalid]
     ELSE IF found = {}
     THEN [outcome |-> IF invalid + 1 >= MaxConsecutiveInvalid THEN "agent ends" ELSE "unknown name", invalid |-> invalid + 1]
     ELSE [invalid |-> 0] @@ CallTool(role, entry.service, entry.tool, services)
=============================================================================
