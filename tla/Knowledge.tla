----------------------------- MODULE Knowledge -----------------------------
(***************************************************************************)
(* The memories of the knowledge store: the rows of the SQLite sidecar,    *)
(* the MCP memory tools that change them (src/src/mcp/knowledgeMemory.ts   *)
(* over src/src/knowledge/lifecycle.ts), the archive hook that runs when a *)
(* stage completes, the retrieval dataset every mutation republishes, the  *)
(* tools that only read, and what a new agent is told of memories and of   *)
(* the skills that come with the program (loader.ts, eagerLoader.ts).      *)
(*                                                                         *)
(* A tool call runs its checks, its transaction and the reading of the     *)
(* items to publish in one synchronous run: that is one action.  Then it   *)
(* awaits the ingest lock, the embeddings and the store, and other calls   *)
(* run in between.  The failure of the ingest does not fail the call.      *)
(* A crash loses the calls and leaves the lock file behind.                *)
(*                                                                         *)
(* Bounds: MaxWrites mutations; the n-th mutation uses n as the id of the  *)
(* record it creates and as the body it writes, so no body comes back.     *)
(***************************************************************************)
EXTENDS IngestPipeline, KnowledgeAccess, Sequences, SequencesExt

CONSTANTS Callers,         \* agents with a memory tool call of their own
          Roles,           \* the roles those agents may have
          Topics, Stages,
          MaxWrites,
          TargetsOf,       \* per topic: the roles its memories are loaded for
          CostOf,          \* per topic: the tokens of its memories' bodies
          SurvivingTopics, \* whose memories survive a compaction
          Bundle,          \* the skill files of the running version
          Tasks,           \* what an agent is started for: words and tags
          Budget,          \* DEFAULT_ORDINARY_BUDGET_TOKENS
          Nobody, Dead     \* the lock is free; its holder has crashed

ASSUME BoundAssumption == MaxWrites \in Nat
ASSUME HoldersAssumption == Nobody \notin Callers /\ Dead \notin Callers

VARIABLES records,   \* the sidecar: a row per record, or NoRow
          writes,    \* mutations so far (the bound, and the source of ids)
          ds,        \* the dataset knowledge.memory
          calls,     \* the mutation each caller is in
          search     \* one search_memories call, and its last answer

vars == <<records, writes, ds, calls, search>>

Ids    == 1..MaxWrites
NoRow  == [status |-> "none"]
Scopes == {Project} \cup {StageScope(s) : s \in Stages}

\* A row.  shown is the copy of the status inside record_json, heir the
\* superseded_by column, replaces the supersedes column, pending the
\* pending_reingest flag.
Row == [topic : Topics, scope : Scopes, body : Ids, pending : BOOLEAN,
        status : {"active", "superseded", "archived"},
        shown  : {"active", "archived"},
        replaces : {Absent} \cup Ids, heir : {Absent} \cup Ids]

IsRow(i)  == records[i] # NoRow
Active(i) == IsRow(i) /\ records[i].status = "active"

\* The items of a reingest: every active row with its body.
ListActiveItems(rows) ==
    [i \in Ids |-> IF rows[i].status = "active" THEN rows[i].body ELSE Absent]

\* Mutation: only the project's memories are looked up.
FindActiveByTopicInProject(topic, scope) ==
    {i \in Ids : Active(i) /\ records[i].topic = topic /\ records[i].scope = Project}

FindActiveByTopic(topic, scope) ==
    {i \in Ids : Active(i) /\ records[i].topic = topic /\ records[i].scope = scope}

PutRecord(rows, id, topic, scope, old) ==
    [rows EXCEPT ![id] = [topic |-> topic, scope |-> scope, body |-> id,
                          status |-> "active", shown |-> "active",
                          replaces |-> old, heir |-> Absent, pending |-> TRUE]]

\* markSuperseded rewrites the columns and leaves record_json as it was.
MarkSuperseded(rows, old, new) ==
    [rows EXCEPT ![old].status = "superseded", ![old].heir = new,
                 ![old].pending = TRUE]

ArchiveRow(rows, i) ==
    [rows EXCEPT ![i].status = "archived", ![i].shown = "archived",
                 ![i].pending = TRUE]

DeleteRecord(rows, i) == [rows EXCEPT ![i] = NoRow]

\* Mutation: the status inside record_json is left as it was.
ArchiveScopeColumnOnly(rows, scope) ==
    [i \in Ids |-> IF rows[i].status = "active" /\ rows[i].scope = scope
                   THEN [rows[i] EXCEPT !.status = "archived", !.pending = TRUE]
                   ELSE rows[i]]

\* archiveScope, then the copy of the new status into record_json.
ArchiveScope(rows, scope) ==
    [i \in Ids |-> IF rows[i].status = "active" /\ rows[i].scope = scope
                   THEN ArchiveRow(rows, i)[i] ELSE rows[i]]

ClearPendingReingest(rows) ==
    [i \in Ids |-> IF rows[i] = NoRow THEN NoRow
                   ELSE [rows[i] EXCEPT !.pending = FALSE]]

---------------------------------------------------------------------------
CallAt(pc) == [pc |-> pc, role |-> "none", items |-> [i \in Ids |-> Absent]]
IdleCall == CallAt("idle")
NoSearch == [pc |-> "idle", stage |-> Nobody, found |-> {}, answer |-> {}]

Init ==
    /\ records = [i \in Ids |-> NoRow]
    /\ writes = 0
    /\ ds = EmptyDataset(Ids, Nobody)
    /\ calls = [c \in Callers |-> IdleCall]
    /\ search = NoSearch

R == INSTANCE Roster

ToolOf == [create |-> "create_memory", update |-> "update_memory", supersede |-> "supersede_memory",
           archive |-> "archive_memory", delete |-> "delete_memory", search |-> "search_memories"]

\* The caller is free, and its role has the operation and its tool.
HasTool(role, op) == CanCall(role, op) /\ R!ToolAllowed(role, ToolOf[op])
Ready(c) == calls[c].pc = "idle" /\ writes < MaxWrites

\* What the memory service asks of a role before it lets a tool go on: of a
\* creation its scope and topic, of an update those of the record, of a
\* replacement the scope of the new record only.
MayCreate(role, topic, scope) ==
    HasTool(role, "create") /\ CheckScope(role, "create", scope) /\ TopicAllowed(role, topic)

MayUpdate(role, i) ==
    /\ HasTool(role, "update")
    /\ IsRow(i)
    /\ CheckScope(role, "update", records[i].scope)
    /\ TopicAllowed(role, records[i].topic)

MaySupersede(role, scope) == HasTool(role, "supersede") /\ CheckScope(role, "supersede", scope)
MaySearch(role) == HasTool(role, "search")

\* A committed mutation, and the snapshot reingestKind takes right after it.
Mutate(c, role, rows) ==
    /\ records' = rows
    /\ writes' = writes + 1
    /\ calls' = [calls EXCEPT ![c] = [pc |-> "lock", role |-> role,
                                      items |-> ListActiveItems(rows)]]
    /\ UNCHANGED <<ds, search>>

\* TOPIC_COLLISION refuses a topic that is active in the same scope.
CreateMemory(c, role, topic, scope) ==
    /\ Ready(c) /\ MayCreate(role, topic, scope)
    /\ FindActiveByTopic(topic, scope) = {}
    /\ Mutate(c, role, PutRecord(records, writes + 1, topic, scope, Absent))

\* Any status may be updated; the status columns stay.
UpdateMemory(c, role, i) ==
    /\ Ready(c) /\ MayUpdate(role, i)
    /\ Mutate(c, role, [records EXCEPT ![i].body = writes + 1,
                                       ![i].pending = TRUE])

\* Only an active memory is replaced.  The topic of the new record is not
\* looked up: it may be one that a third record already has.
SupersedeMemory(c, role, i, topic, scope) ==
    /\ Ready(c) /\ MaySupersede(role, scope)
    /\ Active(i)
    /\ IsAllowedSupersedeScopePair(records[i].scope, scope)
    /\ LET new == writes + 1
       IN  Mutate(c, role,
                  MarkSuperseded(PutRecord(records, new, topic, scope, i), i, new))

ArchiveMemory(c, role, i) ==
    /\ Ready(c) /\ HasTool(role, "archive")
    /\ IsRow(i)
    /\ Mutate(c, role, ArchiveRow(records, i))

DeleteMemory(c, role, i) ==
    /\ Ready(c) /\ HasTool(role, "delete")
    /\ IsRow(i)
    /\ Mutate(c, role, DeleteRecord(records, i))

\* plan_complete_stage archives the stage's memories through a sidecar handle
\* of its own and leaves the reingest to a later mutation.
ArchiveStage(s) ==
    /\ \E i \in Ids : Active(i) /\ records[i].scope = StageScope(s)
    /\ records' = ArchiveScope(records, StageScope(s))
    /\ UNCHANGED <<writes, ds, calls, search>>

---------------------------------------------------------------------------
Changed(c) == ChangedItems(ds.state, calls[c].items)
At(c, pc)  == calls[c].pc = pc

\* A lock whose holder is gone is taken over once it is stale.
AcquireIngestLock(c) ==
    /\ At(c, "lock")
    /\ ds.lock \in {Nobody, Dead}
    /\ ds' = [ds EXCEPT !.lock = c]
    /\ calls' = [calls EXCEPT ![c].pc = "embed", ![c].role = "none"]
    /\ UNCHANGED <<records, writes, search>>

\* Held on both attempts: the ingest throws, which reingestBestEffort logs.
IngestLocked(c) ==
    /\ At(c, "lock")
    /\ ds.lock # Nobody
    /\ calls' = [calls EXCEPT ![c] = IdleCall]
    /\ UNCHANGED <<records, writes, ds, search>>

\* Mutation: the lock is not released when the provider fails.
EmbedFailsLocked(c) ==
    /\ At(c, "embed")
    /\ Changed(c) # {}
    /\ calls' = [calls EXCEPT ![c] = IdleCall]
    /\ UNCHANGED <<records, writes, ds, search>>

EmbedFails(c) ==
    /\ At(c, "embed")
    /\ Changed(c) # {}
    /\ ds' = [ds EXCEPT !.lock = Nobody]
    /\ calls' = [calls EXCEPT ![c] = IdleCall]
    /\ UNCHANGED <<records, writes, search>>

\* The few records of a project fit one batch.
Publish(c) ==
    /\ At(c, "embed")
    /\ ds' = UpsertBatch(ds, calls[c].items, Changed(c))
    /\ calls' = [calls EXCEPT ![c].pc = "finish"]
    /\ UNCHANGED <<records, writes, search>>

FinishIngest(c) ==
    /\ At(c, "finish")
    /\ LET put == PutFileState(ds, calls[c].items, Changed(c))
       IN  ds' = [chunks |-> put.chunks, state |-> put.state, lock |-> Nobody]
    /\ calls' = [calls EXCEPT ![c] = CallAt("clear")]
    /\ UNCHANGED <<records, writes, search>>

\* The flag goes from every row of the kind, whatever was in the snapshot.
ClearPending(c) ==
    /\ At(c, "clear")
    /\ records' = ClearPendingReingest(records)
    /\ calls' = [calls EXCEPT ![c] = IdleCall]
    /\ UNCHANGED <<writes, ds, search>>

Crash ==
    /\ \E c \in Callers : ~At(c, "idle")
    /\ calls' = [c \in Callers |-> IdleCall]
    /\ ds' = [ds EXCEPT !.lock = IF @ \in Callers THEN Dead ELSE @]
    /\ search' = NoSearch
    /\ UNCHANGED <<records, writes>>

---------------------------------------------------------------------------
\* visibleScopeIds: active in the project, or in the stage of the caller.
VisibleScopeIds(stage) ==
    {i \in Ids : Active(i) /\ records[i].scope \in {Project, StageScope(stage)}}

\* The visible ids are read first, then the query text is embedded.
\* Bound: one search between two crashes.
SearchMemories(stage) ==
    /\ search.pc = "idle" /\ \E role \in Roles : MaySearch(role)
    /\ VisibleScopeIds(stage) # {}
    /\ search' = [pc |-> "embed", stage |-> stage,
                  found |-> VisibleScopeIds(stage), answer |-> {}]
    /\ UNCHANGED <<records, writes, ds, calls>>

\* Mutation: the hits are not looked up again.
SearchReturnsEveryHit ==
    /\ search.pc = "embed"
    /\ search' = [search EXCEPT !.pc = "done", !.found = {},
                     !.answer = {i \in search.found : ds.chunks[i] # Absent}]
    /\ UNCHANGED <<records, writes, ds, calls>>

\* The hits are the visible ids with chunks in the index; each is looked up
\* in the sidecar again before it is returned.
SearchReturns ==
    /\ search.pc = "embed"
    /\ LET hits == {i \in search.found : ds.chunks[i] # Absent}
       IN  search' = [search EXCEPT !.pc = "done", !.found = {},
                                    !.answer = {i \in hits : Active(i)}]
    /\ UNCHANGED <<records, writes, ds, calls>>

---------------------------------------------------------------------------
(* The readers that answer at once: each is a function of the rows.         *)

\* listMemories: what record_json says is neither archived nor replaced, and
\* it never says that a record was replaced.
ListMemories == {i \in Ids : IsRow(i) /\ records[i].shown \notin {"archived", "superseded"}}

\* walkSupersedeChainRow: to the last record of the line that is still there.
\* An heir is written later than what it replaces.
Present == {i \in Ids : IsRow(i)}
ChainHead(i) ==
    LET Walk[j \in Present] == IF records[j].heir \in Present THEN Walk[records[j].heir] ELSE j
    IN  Walk[i]

\* getMemory by id: the head of the line if it is active.
GetMemory(i) == {j \in {ChainHead(k) : k \in {i} \cap Present} : Active(j)}

\* getMemory by topic, one of these: a memory of any stage comes before the
\* project's, and no order is asked for among several.
GetMemoryByTopic(topic) ==
    LET named == {i \in Ids : Active(i) /\ records[i].topic = topic}
        local == {i \in named : records[i].scope # Project}
    IN  IF local # {} THEN local ELSE named

---------------------------------------------------------------------------
(* What a new agent of a role is told (eagerLoader.ts, loader.ts): memories  *)
(* and the skills of the bundle, which every boot writes to the sidecar.     *)

\* upsertBuiltinSkills: one row per file of the bundle; the start fails where
\* two files have one name.
BuiltinSkills == {f \in Bundle : \A g \in Bundle : g.name = f.name => g = f}

\* The skill tool, which every role may call: by its name.
ReadSkill(role, name) == {f \in BuiltinSkills : f.name = name /\ R!ToolAllowed(role, "skill")}

\* scoreSkillTriggers: for a word of the task, one of its tags, its role.
ScoreSkillTriggers(skill, role, task) ==
    Cardinality(skill.keywords \cap task.words) + 2 * Cardinality(skill.tags \cap task.tags)
        + (IF role \in skill.agents THEN 3 ELSE 0)

\* assembleRecord: the candidate a row becomes.
MemoryCandidate(i) ==
    [id |-> <<"memory", i>>, builtin |-> FALSE, targets |-> TargetsOf[records[i].topic], optIn |-> TRUE, score |-> 1,
     survives |-> records[i].topic \in SurvivingTopics /\ records[i].scope = Project,
     cost |-> CostOf[records[i].topic], age |-> MaxWrites - records[i].body]

SkillCandidate(skill, role, task) ==
    [id |-> <<"skill", skill.name>>, builtin |-> TRUE, targets |-> skill.targets, optIn |-> FALSE,
     score |-> ScoreSkillTriggers(skill, role, task), survives |-> skill.survives, cost |-> skill.cost, age |-> 0]

\* loadAllCandidates: memories of other stages are candidates too.
LoadAllCandidates(role, task) ==
    {MemoryCandidate(i) : i \in {n \in Ids : Active(n) /\ records[n].shown = "active"}}
        \cup {SkillCandidate(skill, role, task) : skill \in BuiltinSkills}

\* A memory is told only to the roles it names, a skill that names none to all,
\* when one of its triggers or its survival asks for it.
Eligible(c, role) ==
    /\ role \in c.targets \/ (c.targets = {} /\ ~c.optIn)
    /\ c.score > 0 \/ c.survives

\* The project's own first, then by score, then the youngest.
Before(c, d) ==
    \/ ~c.builtin /\ d.builtin
    \/ c.builtin = d.builtin /\ c.score > d.score
    \/ c.builtin = d.builtin /\ c.score = d.score /\ c.age < d.age

\* splitByBudget: a record that does not fit is passed over, a smaller one
\* after it may still be taken.
SplitByBudget(ranked, budget) ==
    LET Taken(split, c) ==
          CASE c.survives -> [split EXCEPT !.survivors = Append(@, c)]
            [] ~c.survives /\ split.used + c.cost > budget -> [split EXCEPT !.omitted = Append(@, c)]
            [] OTHER -> [split EXCEPT !.ordinary = Append(@, c), !.used = @ + c.cost]
    IN  FoldLeft(Taken, [survivors |-> <<>>, ordinary |-> <<>>, omitted |-> <<>>, used |-> 0], ranked)

ResolveEagerRecords(role, from, budget) ==
    SplitByBudget(SetToSortSeq({c \in from : Eligible(c, role)}, Before), budget)

\* buildEagerBlock, for a new agent.
EagerRecords(role, task) == ResolveEagerRecords(role, LoadAllCandidates(role, task), Budget)

\* buildSurvivorBlock, after a compaction, which knows nothing of the task.
NoTask == [words |-> {}, tags |-> {}]
ReinjectSurvivors(role) ==
    LET from == {c \in LoadAllCandidates(role, NoTask) : c.survives}
    IN  ResolveEagerRecords(role, from, Budget).survivors

Next ==
    \/ \E c \in Callers, role \in Roles :
        \/ \E topic \in Topics, scope \in Scopes :
              \/ CreateMemory(c, role, topic, scope)
              \/ \E i \in Ids : SupersedeMemory(c, role, i, topic, scope)
        \/ \E i \in Ids : \/ UpdateMemory(c, role, i)
                          \/ ArchiveMemory(c, role, i)
                          \/ DeleteMemory(c, role, i)
    \/ \E c \in Callers : \/ AcquireIngestLock(c) \/ IngestLocked(c)
                          \/ EmbedFails(c) \/ Publish(c)
                          \/ FinishIngest(c) \/ ClearPending(c)
    \/ \E s \in Stages : ArchiveStage(s) \/ SearchMemories(s)
    \/ SearchReturns
    \/ Crash

Spec == Init /\ [][Next]_vars

---------------------------------------------------------------------------
Holding == [Ids -> {Absent} \cup Ids]
Dataset == [chunks : Holding, state : Holding, lock : Callers \cup {Nobody, Dead}]
Call == [pc : {"idle", "lock", "embed", "finish", "clear"}, role : Roles \cup {"none"},
         items : Holding]
Search == [pc : {"idle", "embed", "done"}, stage : Stages \cup {Nobody},
           found : SUBSET Ids, answer : SUBSET Ids]

TypeOK ==
    /\ records \in [Ids -> Row \cup {NoRow}]
    /\ writes \in 0..MaxWrites
    /\ ds \in Dataset
    /\ calls \in [Callers -> Call]
    /\ search \in Search

\* The row keeps its status twice, in a column the collision check, the search
\* and the reingest read, and inside record_json, which the list tool and the
\* loader read.  Whatever sequence of updates, replacements and archivings a
\* record went through, the two agree on whether it is archived.  That it was
\* replaced only the column says.
CopiesAgree ==
    \A i \in Ids : IsRow(i) => (records[i].shown = "archived" <=> records[i].status = "archived")

\* The list leaves out the archived memories alone: against
\* docs/internals/knowledge/skills-and-memory.md:131-134 it shows the replaced
\* ones too, which the other readers hide.
ListShowsTheUnarchived ==
    ListMemories = {i \in Ids : IsRow(i) /\ records[i].status # "archived"}

\* Live memory i hides j, of the same topic: i is of another stage, or one of
\* the two came as a replacement, which is not asked whether its topic is taken.
Hides(i, j) ==
    IF records[i].scope # records[j].scope
      THEN records[i].scope # Project
      ELSE records[i].replaces # Absent \/ records[j].replaces # Absent

\* An id leads to a live memory of its line or to none, a live memory's own id
\* to itself; and its topic leads to it unless another live one hides it.
LiveMemoriesAreFound ==
    /\ \A i \in Ids : Active(i) => GetMemory(i) = {i}
    /\ \A i \in Ids : \A j \in GetMemory(i) : i <= j /\ Active(j)
    /\ \A j \in Ids : Active(j) =>
          /\ GetMemoryByTopic(records[j].topic) # {}
          /\ \A i \in GetMemoryByTopic(records[j].topic) : Active(i) /\ (i = j \/ Hides(i, j))

\* An agent is told only of live memories, and of skills it can read in full,
\* within its budget, and none that would still fit is left out; after a
\* compaction it hears of each survivor it was told of at its start.
ToldWhatIsLive ==
    \A role \in Roles, task \in Tasks :
      LET told == EagerRecords(role, task)
      IN  /\ \A c \in ToSet(told.survivors \o told.ordinary) :
               IF c.builtin THEN Cardinality(ReadSkill(role, c.id[2])) = 1 ELSE GetMemory(c.id[2]) = {c.id[2]}
          /\ told.used <= Budget
          /\ \A c \in ToSet(told.omitted) : told.used + c.cost > Budget
          /\ {c.id : c \in ToSet(ReinjectSurvivors(role))} = {c.id : c \in ToSet(told.survivors)}

\* What each reader makes of a memory's status.  The loader reads rows alone:
\* the states without a call have all of them.
ReadersFollowStatus ==
    /\ CopiesAgree
    /\ ListShowsTheUnarchived
    /\ LiveMemoriesAreFound
    /\ (\A c \in Callers : calls[c].pc = "idle") => ToldWhatIsLive

\* Two memories are active under one topic of one scope only when the younger
\* was written as the replacement of some record: create refuses the topic,
\* and nothing brings a retired record back.
DuplicatesComeFromSupersession ==
    \A i, j \in Ids :
        /\ i < j /\ Active(i) /\ Active(j)
        /\ records[i].topic = records[j].topic
        /\ records[i].scope = records[j].scope
        => records[j].replaces # Absent

\* A search answers with memories that are active, and visible to the stage
\* that asked, at the moment it answers, whatever was archived, replaced or
\* deleted while it waited for its embedding.
AnswersAreLive ==
    [][search.pc = "embed" /\ search'.pc = "done" =>
         \A i \in search'.answer :
             /\ records[i] # NoRow /\ records[i].status = "active"
             /\ records[i].scope # Project =>
                    records[i].scope.stage = search.stage]_vars

\* A mutation made in the name of a worker touches only memories of the stage
\* it works on, and one of the librarian only project memories of its topics:
\* the rows a call changes, before and after, are all inside.
WritesStayInScope ==
    [][\A c \in Callers : calls[c].pc = "idle" /\ calls'[c].pc = "lock" =>
         \A i \in Ids : \A row \in {records[i], records'[i]} :
             records'[i] # records[i] /\ row # NoRow =>
                /\ calls'[c].role \in Workers => row.scope = StageScope(CallerStage)
                /\ calls'[c].role = "librarian" =>
                       row.scope = Project /\ row.topic \in RagTopics]_vars

\* The lock of the dataset belongs to the one call that is between taking it
\* and its last write to the store, on every way out, or to a process that
\* crashed: no failure leaves it behind in a process that runs.
LockIsOfTheIngest ==
    \A c \in Callers : calls[c].pc \in {"embed", "finish"} <=> ds.lock = c

\* What the pending_reingest flag is for: an active memory the index does not
\* hold in its present form is marked, or the call that wrote it is still on
\* its way to publish it.  The code breaks it, when a mutation is refused the
\* lock of another's ingest: no run claims it.
PendingMarksTheMissing ==
    (\A c \in Callers : calls[c].pc = "idle") =>
        \A i \in Ids : Active(i) /\ ds.chunks[i] # records[i].body =>
            records[i].pending
=============================================================================
