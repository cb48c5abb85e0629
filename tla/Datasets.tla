------------------------------- MODULE Datasets -------------------------------
(****************************************************************************)
(* The datasets of the retrieval index: the store of one (src/src/rag/      *)
(* store), the embeddings it is asked for (rag/provider/openai.ts), the     *)
(* manager that opens, registers and drops them (rag/manager.ts), and the   *)
(* gate of the rag_* tools (server/rag/handler.ts).  Each operation is a    *)
(* function from what it reads to what it answers and leaves behind.        *)
(****************************************************************************)
EXTENDS Integers, FiniteSets, SequencesExt

\* SQL's NULL, and an entry that is not there; <<x>> is one that is x.
None == <<>>

---------------------------------------------------------------------------
(* Opening a store. *)

\* A provider's stamp names its model and the width of its vectors; the
\* fingerprint follows from both.  file: the database (healthy or not), its
\* meta row, the width of its vector table (0 before there is one), and the
\* sentinel beside it.
Stamp(model, dim) == [model |-> model, dim |-> dim]
NoFile == [healthy |-> TRUE, meta |-> None, width |-> 0, sentinel |-> FALSE]

\* A database that cannot be opened or fails its integrity check is marked
\* for good; a stamp that is not the store's own is refused.
OpenStore(file, stamp) ==
  IF file.sentinel THEN [outcome |-> "corrupted_store", file |-> file]
  ELSE IF ~file.healthy THEN [outcome |-> "corrupted_store", file |-> [file EXCEPT !.sentinel = TRUE]]
  ELSE IF file.meta # None /\ file.meta # <<stamp>> THEN [outcome |-> "embedding_drift", file |-> file]
  ELSE [outcome |-> "open",
        file |-> [file EXCEPT !.meta = <<stamp>>, !.width = IF @ = 0 THEN stamp.dim ELSE @]]

\* The tables are created by statements of their own before the row of meta:
\* a process that dies between leaves tables and no stamp.
OpenDies(file, stamp) ==
  IF file.sentinel \/ ~file.healthy \/ file.meta # None THEN file
  ELSE [file EXCEPT !.width = IF @ = 0 THEN stamp.dim ELSE @]

DropStore(file) == NoFile

---------------------------------------------------------------------------
(* Filters and queries. *)

\* A filter is eq, in or gt with its columns, and or or with its parts, or a
\* glob over paths.
IndexedColumns == {"path", "source", "contentHash", "language", "scope", "scopeRef", "role", "createdAt"}
OtherColumns == {"id", "chunkIndex", "startLine", "endLine", "sourceHash", "mtimeMs", "headingPath",
                 "symbolName", "symbolKind", "lifecycleStatus", "supersedes"}
AllowedColumns == IndexedColumns \cup OtherColumns

\* What compileFilter makes of it: SQL, an error of its own, or ("in" with no
\* column) SQL the database will refuse.
RECURSIVE CompileFilter(_)
CompileFilter(filter) ==
  CASE filter.kind = "glob" -> "sql"
    [] filter.kind \in {"and", "or"} ->
         LET parts == {CompileFilter(part) : part \in Range(filter.parts)}
         IN IF filter.parts = <<>> THEN IF filter.kind = "and" THEN "sql" ELSE "invalid_query_filter"
            ELSE IF "invalid_query_filter" \in parts THEN "invalid_query_filter"
            ELSE IF "refused" \in parts THEN "refused" ELSE "sql"
    [] OTHER ->
         IF ~(DOMAIN filter.cols \subseteq AllowedColumns) THEN "invalid_query_filter"
         ELSE IF filter.kind = "in" /\ \E col \in DOMAIN filter.cols : filter.cols[col] = {} THEN "invalid_query_filter"
         ELSE IF DOMAIN filter.cols # {} \/ filter.kind = "eq" THEN "sql"
         ELSE IF filter.kind = "in" THEN "refused" ELSE "invalid_query_filter"

\* What that SQL says of a row; nothing but IS NULL is true of a NULL.
RECURSIVE Satisfies(_, _)
Satisfies(row, filter) ==
  CASE filter.kind = "eq" -> \A col \in DOMAIN filter.cols : row[col] = filter.cols[col]
    [] filter.kind = "in" -> \A col \in DOMAIN filter.cols : row[col] # None /\ row[col] \in filter.cols[col]
    [] filter.kind = "gt" -> \A col \in DOMAIN filter.cols : row[col] # None /\ row[col][1] > filter.cols[col]
    [] filter.kind = "and" -> \A part \in Range(filter.parts) : Satisfies(row, part)
    [] filter.kind = "or" -> \E part \in Range(filter.parts) : Satisfies(row, part)
    [] filter.kind = "glob" -> row.path \in filter.paths

RECURSIVE IsPreFilterEligible(_)
IsPreFilterEligible(filter) ==
  CASE filter.kind \in {"eq", "in"} -> DOMAIN filter.cols \subseteq IndexedColumns
    [] filter.kind = "and" -> \A part \in Range(filter.parts) : IsPreFilterEligible(part)
    [] OTHER -> FALSE

FirstOf(seq, n) == SubSeq(seq, 1, IF Len(seq) < n THEN Len(seq) ELSE n)
Overshoot == 4

\* rows: the chunks, nearest to the question first.  A filter over indexed
\* columns narrows the search; any other is applied to the nearest
\* Overshoot * topK and what is left of them is the answer.
QueryStore(rows, topK, filter) ==
  LET matching(candidates) == SelectSeq(candidates, LAMBDA row : Satisfies(row, filter))
  IN CASE CompileFilter(filter) # "sql" -> [outcome |-> CompileFilter(filter), hits |-> <<>>]
       [] IsPreFilterEligible(filter) -> [outcome |-> "hits", hits |-> FirstOf(matching(rows), topK)]
       [] OTHER -> [outcome |-> "hits", hits |-> FirstOf(matching(FirstOf(rows, topK * Overshoot)), topK)]

\* One transaction: a vector of the wrong width leaves the table as it was.
Upsert(rows, batch, width) ==
  IF \E id \in DOMAIN batch : batch[id].width # width THEN [outcome |-> "embedding_drift", rows |-> rows]
  ELSE [outcome |-> "stored", rows |-> [id \in DOMAIN rows \cup DOMAIN batch |->
                                           IF id \in DOMAIN batch THEN batch[id] ELSE rows[id]]]

---------------------------------------------------------------------------
(* Embeddings. *)

\* What one call to the provider answers: vectors (count and width), or an
\* error with its status (0 for none).  A wrong answer is an error without
\* one, so it is asked again.
Good(answer, batch, dim) == "vectors" \in DOMAIN answer /\ answer.vectors = batch /\ answer.dim = dim
Retriable(answer) ==
  "vectors" \in DOMAIN answer \/ answer.status \in {0, 429} \/ (answer.status >= 500 /\ answer.status < 600)

\* The attempts of embedOnce over the answers it would get, in order.
EmbedOnce(answers, batch, dim, maxAttempts) ==
  LET ends == {n \in 1..maxAttempts : Good(answers[n], batch, dim) \/ ~Retriable(answers[n]) \/ n = maxAttempts}
      n == CHOOSE k \in ends : \A j \in ends : k <= j
  IN [embedded |-> Good(answers[n], batch, dim), asked |-> n]

\* Texts are sent batchSize at a time; the first batch that fails ends it.
Batches(texts, batchSize) ==
  [k \in 1..((Len(texts) + batchSize - 1) \div batchSize) |->
     SubSeq(texts, (k - 1) * batchSize + 1, IF k * batchSize < Len(texts) THEN k * batchSize ELSE Len(texts))]

---------------------------------------------------------------------------
(* The manager: configurations, open datasets, the registry, the stores. *)

\* A configuration is [model, dim, chunker]; the manager's maps give one, or
\* None, for each identifier.
ConfigStamp(config) == Stamp(config.model, config.dim)

OpenDataset(manager, id, config) ==
  IF manager.open[id] # None THEN [outcome |-> "ok", manager |-> manager]
  ELSE LET opened == OpenStore(manager.files[id], ConfigStamp(config))
       IN [outcome |-> IF opened.outcome = "open" THEN "ok" ELSE opened.outcome,
           manager |-> [manager EXCEPT !.files[id] = opened.file,
                                       !.open[id] = IF opened.outcome = "open" THEN <<config>> ELSE None]]

GetDataset(manager, id) ==
  IF manager.configs[id] = None THEN [outcome |-> "dataset_not_found", manager |-> manager]
  ELSE OpenDataset(manager, id, manager.configs[id][1])

\* An open dataset stays the one it was opened as, whatever is registered.
Register(manager, id, config) ==
  LET prior == manager.registry[id]
      opened == OpenDataset(manager, id, config)
  IN IF prior # None /\ prior[1].dim # config.dim THEN [outcome |-> "config_drift", manager |-> manager]
     ELSE IF opened.outcome # "ok" THEN opened
     ELSE [outcome |-> "ok",
           manager |-> [opened.manager EXCEPT !.registry[id] = <<ConfigStamp(opened.manager.open[id][1])>>,
                                              !.configs[id] = <<config>>]]

Drop(manager, id) ==
  LET got == GetDataset(manager, id)
  IN IF got.outcome # "ok" THEN got
     ELSE [outcome |-> "ok",
           manager |-> [got.manager EXCEPT !.files[id] = DropStore(@), !.open[id] = None,
                                           !.configs[id] = None, !.registry[id] = None]]

\* A new process knows the configurations of saivage.json and opens nothing.
Restart(manager, saved) ==
  [manager EXCEPT !.configs = saved, !.open = [id \in DOMAIN @ |-> None]]

---------------------------------------------------------------------------
(* The tools. *)

AdminTools == {"rag_register", "rag_ingest", "rag_drop", "rag_admin"}
ControlTools == {"rag_register", "rag_drop", "rag_admin"}
Tools == AdminTools \cup {"rag_list", "rag_stats", "rag_query"}
Protected == {"knowledge.skills", "knowledge.memory"}

\* caller: its role, or None when the call has no context, and whether it acts
\* for the operator.  "run" is the tool's own work.
Gate(service, caller, tool, validArgs, collection) ==
  CASE ~service.enabled -> "RAG_DISABLED"
    [] service.enabled /\ caller.role = None -> "RAG_UNAUTHORIZED_ROLE"
    [] OTHER ->
       IF tool \in AdminTools /\ ~caller.operator /\ caller.role \notin service.adminRoles THEN "RAG_UNAUTHORIZED_ROLE"
       ELSE IF tool \notin Tools THEN "RAG_INTERNAL"
       ELSE IF ~validArgs THEN "RAG_INVALID_ARGS"
       ELSE IF tool \in ControlTools /\ service.busy THEN "RAG_CONTROL_BUSY"
       ELSE IF tool \in AdminTools /\ collection \in Protected THEN "RAG_PROTECTED_DATASET"
       ELSE "run"

\* rag_register's one root, resolved through links, must lie in the project
\* and not be a secret-bearing path; from is its way from the project.
RegisterSource(sources, blocked) ==
  IF Len(sources) # 1 THEN "RAG_INVALID_ARGS"
  ELSE IF ~sources[1].exists \/ FirstOf(sources[1].from, 1) = <<"..">> \/ sources[1].from \in blocked
  THEN "RAG_BLOCKED_PATH" ELSE "run"

\* The envelope's code for an error that was thrown.
ErrorCode(kind) ==
  LET codes == [dataset_not_found |-> "RAG_DATASET_NOT_FOUND", provider_unavailable |-> "RAG_PROVIDER_UNAVAILABLE",
                embedding_drift |-> "RAG_EMBEDDING_DRIFT", config_drift |-> "RAG_CONFIG_DRIFT",
                corrupted_store |-> "RAG_CORRUPTED_STORE", ingest_locked |-> "RAG_INGEST_LOCKED",
                watcher_unavailable |-> "RAG_WATCHER_UNAVAILABLE", invalid_query_filter |-> "RAG_INVALID_QUERY_FILTER",
                persist |-> "RAG_PERSIST_FAILED"]
  IN IF kind \in DOMAIN codes THEN codes[kind] ELSE "RAG_INTERNAL"
===============================================================================
