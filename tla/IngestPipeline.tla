--------------------------- MODULE IngestPipeline ---------------------------
(***************************************************************************)
(* One ingest of a retrieval dataset (src/src/rag/pipeline.ts) over the    *)
(* vector store it writes (rag/store/sqlite-vec.ts).                       *)
(*                                                                         *)
(* A dataset keeps two tables that are written in different transactions:  *)
(* the chunks of each path and file_state, the hash of the source each     *)
(* path was last ingested from.  A content is a number; equal numbers are  *)
(* equal hashes, and Absent is a path with no row.  The operators here are *)
(* the steps of runIngest between two of its awaits; the modules that use  *)
(* them say when each runs, and what may happen in between.                *)
(***************************************************************************)
EXTENDS Naturals, FiniteSets

Absent == 0

\* A fresh store: no chunk, no file_state row, and nobody ingesting.
EmptyDataset(Paths, nobody) ==
    [chunks |-> [p \in Paths |-> Absent],
     state  |-> [p \in Paths |-> Absent],
     lock   |-> nobody]

\* The items runIngest embeds: new paths and paths whose hash differs from
\* the one file_state remembers.  A path in file_state with the same hash is
\* skipped without a look at its chunks.
ChangedItems(state, items) ==
    {p \in DOMAIN items : items[p] # Absent /\ state[p] # items[p]}

\* Paths file_state knows and this input does not name.
RemovedPaths(state, items) ==
    {p \in DOMAIN items : state[p] # Absent /\ items[p] = Absent}

\* One batch: the old chunks of its paths are deleted and the new ones
\* inserted.  file_state is not touched yet.
UpsertBatch(ds, items, batch) ==
    [ds EXCEPT !.chunks = [p \in DOMAIN @ |->
                              IF p \in batch THEN items[p] ELSE @[p]]]

\* The end of an ingest, after its last batch: the chunks and the file_state
\* rows of the removed paths go, and the rows of the changed paths are put.
PutFileState(ds, items, changed) ==
    LET gone == RemovedPaths(ds.state, items)
    IN  [ds EXCEPT
           !.chunks = [p \in DOMAIN @ |-> IF p \in gone THEN Absent ELSE @[p]],
           !.state  = [p \in DOMAIN @ |-> IF p \in gone THEN Absent
                                          ELSE IF p \in changed THEN items[p] ELSE @[p]]]
=============================================================================
