-------------------------- MODULE KnowledgeAccess --------------------------
(***************************************************************************)
(* Who may do what with a memory: the access matrix and the scope rule of  *)
(* src/src/knowledge/permissions.ts, and the topic rule the memory service *)
(* (src/src/mcp/knowledgeMemory.ts) adds for the librarian.                *)
(***************************************************************************)

CONSTANTS RagTopics,       \* the topics rag/policy, rag/secret-incidents, ...
          CallerStage      \* the stage a worker's tool context names

Project == [level |-> "project"]
StageScope(s) == [level |-> "stage", stage |-> s]

Owners  == {"planner", "manager", "inspector"}
Workers == {"coder", "researcher"}
Readers == {"reviewer", "designer", "critic", "chat"}

\* MATRIX for memories, by the operation the cell is filed under: an update
\* is gated as a create and a delete as an archive.
CellFor(role, op) ==
    LET filed == CASE op = "update" -> "create"
                   [] op = "delete" -> "archive"
                   [] op = "list"   -> "read"
                   [] OTHER         -> op
    IN  CASE role \in Owners -> "yes"
          [] role = "data_agent" -> "no"
          [] filed \in {"read", "search"} -> "yes"
          [] role \in Workers \cup {"librarian"} /\ filed = "create" -> "scoped"
          [] OTHER -> "no"

CanCall(role, op) == CellFor(role, op) # "no"

\* Mutation: an update is not held to the scope rule.
CheckScopeOfCreations(role, op, scope) ==
    op = "create" /\ CellFor(role, op) = "scoped" =>
        IF role = "librarian" THEN scope = Project
                              ELSE scope = StageScope(CallerStage)

\* checkScope: a scoped cell lets the librarian write project memory only, and
\* a worker memory of its own stage only.
CheckScope(role, op, scope) ==
    CellFor(role, op) = "scoped" =>
        IF role = "librarian" THEN scope = Project
                              ELSE scope = StageScope(CallerStage)

\* enforceLibrarianTopic
TopicAllowed(role, topic) == role = "librarian" => topic \in RagTopics

\* A memory may replace one of its own level, or promote it to the project.
IsAllowedSupersedeScopePair(old, new) ==
    new = Project \/ (old # Project /\ new # Project)
=============================================================================
