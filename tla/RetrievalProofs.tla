--------------------------- MODULE RetrievalProofs ---------------------------
(* What the ingests of a collection keep of its dataset, for any files, any   *)
(* number of edits and any batch size.                                        *)
EXTENDS Retrieval, TLAPS

\* Until two ingests are in one store, one of them at most writes to it.
Exclusive == ~shared => \A j, k \in Jobs : Writing(j) /\ Writing(k) => j = k

\* An ingest past its walk has the chunks of the files it is done with in the
\* store, and file_state does not name the present content of any it embeds.
Progress ==
    ~shared => \A j \in Jobs : Writing(j) =>
        /\ jobs[j].todo \subseteq jobs[j].changed
        /\ \A p \in jobs[j].changed :
             /\ jobs[j].items[p] # Absent
             /\ p \notin torn /\ disk[p] # Absent => ds.state[p] # disk[p]
             /\ p \notin jobs[j].todo => ds.chunks[p] = jobs[j].items[p]

\* Whoever is writing has read p as it is now, and p is stored or j will.
Underway(j, p) == Writing(j) /\ p \in jobs[j].todo
Served(j, p) ==
    /\ \A k \in Jobs : Writing(k) => jobs[k].items[p] = disk[p]
    /\ ds.chunks[p] = disk[p] \/ Underway(j, p)

\* A sweep that has read the source serves every file.
Arming ==
    /\ (watch = "arming") = (control.op = "arm")
    /\ watch = "arming" /\ ~missed /\ ~shared /\ jobs["control"].pc \in {"embed", "done"} =>
         \A p \in Paths \ torn : disk[p] # Absent => Served("control", p)

\* A file the debouncer does not hold is served, or the next batch will read it.
Watching ==
    watch = "armed" /\ ~missed /\ ~shared /\ jobs["batch"].pc # "lock" =>
        \A p \in Paths \ (pending \cup torn) : disk[p] # Absent => Served("batch", p)

IndexInv == Exclusive /\ Progress /\ SkippedFilesAreIndexed
WatchInv == Arming /\ Watching

(***************************************************************************)
(* Types.                                                                  *)
(***************************************************************************)

\* An ingest that begins or ends has nothing in its hands.
LEMMA JobTypes ==
  /\ NoItems \in [Paths -> Versions] /\ Absent \in Versions
  /\ IdleJob \in JobType /\ Started \in JobType
  /\ JobAt("done") \in JobType /\ JobAt("failed") \in JobType
BY BoundsAssumption DEF JobType, JobAt, IdleJob, NoItems, Started, Versions, Absent

\* The slot of the control tools is free or has one that saved nothing yet.
LEMMA SlotTypes ==
  /\ FreeSlot \in SlotType /\ SlotOf("first ingest") \in SlotType
  /\ SlotOf("arm") \in SlotType /\ SlotOf("reconcile") \in SlotType
  /\ \A persist \in BOOLEAN, saved \in 0..MaxEntries :
       /\ [op |-> "register", persist |-> persist, saved |-> saved] \in SlotType
       /\ [op |-> "drop", persist |-> persist, saved |-> saved] \in SlotType
BY BoundsAssumption DEF FreeSlot, SlotOf, SlotType

\* A roll-back leaves a number of entries there has been.
LEMMA RollBackTypes ==
  ASSUME control \in SlotType, config \in 0..MaxEntries,
         RollBack(control.persist, 0) \/ RollBack(control.persist, control.saved)
  PROVE  config' \in 0..MaxEntries
<1>1. control.saved \in 0..MaxEntries
  BY DEF SlotType
<1>2. 0 \in 0..MaxEntries
  BY BoundsAssumption
<1> QED BY <1>1, <1>2 DEF RollBack

\* A file is embedded if it is there and file_state does not name its content.
LEMMA Changes ==
  ASSUME NEW state, NEW items \in [Paths -> Versions]
  PROVE  ChangedItems(state, items) = {p \in Paths : items[p] # Absent /\ state[p] # items[p]}
BY DEF ChangedItems

\* A batch replaces the chunks of its files, and nothing else.
LEMMA Upserts ==
  ASSUME ds \in DatasetType, NEW items \in [Paths -> Versions], NEW batch,
         ds' = UpsertBatch(ds, items, batch)
  PROVE  /\ ds' \in DatasetType
         /\ ds'.chunks = [p \in Paths |-> IF p \in batch THEN items[p] ELSE ds.chunks[p]]
         /\ ds'.state = ds.state /\ ds'.lock = ds.lock
<1> USE DEF DatasetType
<1>1. ds' \in DatasetType /\ ds'.state = ds.state /\ ds'.lock = ds.lock
  BY DEF UpsertBatch
<1>2. ds'.chunks = [p \in Paths |-> IF p \in batch THEN items[p] ELSE ds.chunks[p]]
  BY DEF UpsertBatch
<1> QED BY <1>1, <1>2

\* The end of an ingest removes the files that are gone and puts file_state.
LEMMA Puts ==
  ASSUME ds \in DatasetType, NEW items \in [Paths -> Versions], NEW changed
  PROVE  /\ PutFileState(ds, items, changed).chunks
              = [p \in Paths |-> IF ds.state[p] # Absent /\ items[p] = Absent THEN Absent
                                ELSE ds.chunks[p]]
         /\ PutFileState(ds, items, changed).state
              = [p \in Paths |-> IF ds.state[p] # Absent /\ items[p] = Absent THEN Absent
                                ELSE IF p \in changed THEN items[p] ELSE ds.state[p]]
         /\ PutFileState(ds, items, changed).chunks \in [Paths -> Versions]
         /\ PutFileState(ds, items, changed).state \in [Paths -> Versions]
<1> USE DEF DatasetType
<1>1. \A p \in Paths : (p \in RemovedPaths(ds.state, items)) = (ds.state[p] # Absent /\ items[p] = Absent)
  BY DEF RemovedPaths
<1>2. PutFileState(ds, items, changed).chunks
        = [p \in Paths |-> IF p \in RemovedPaths(ds.state, items) THEN Absent ELSE ds.chunks[p]]
  BY DEF PutFileState
<1>3. PutFileState(ds, items, changed).state
        = [p \in Paths |-> IF p \in RemovedPaths(ds.state, items) THEN Absent
                          ELSE IF p \in changed THEN items[p] ELSE ds.state[p]]
  BY DEF PutFileState
<1>4. PutFileState(ds, items, changed).chunks \in [Paths -> Versions]
  BY <1>2, JobTypes
<1>5. PutFileState(ds, items, changed).state \in [Paths -> Versions]
  BY <1>3, JobTypes
<1> QED BY <1>1, <1>2, <1>3, <1>4, <1>5

\* What each step of an ingest leaves alone,
LEMMA IngestFrame ==
  ASSUME NEW j \in Jobs
  PROVE  /\ AcquireAndWalk(j) \/ IngestFails(j) =>
              UNCHANGED <<disk, edits, torn, watch, pending, control, config, known>>
         /\ StoreBatch(j) \/ FinishIngest(j) =>
              UNCHANGED <<disk, edits, torn, watch, pending, missed, control, config, known>>
BY DEF AcquireAndWalk, Walk, IngestFails, StoreBatch, FinishIngest, filesVars, watchVars, manageVars

\* and each of the other ones.
LEMMA ToolFrame ==
  /\ \A p \in Paths : Edit(p) => UNCHANGED <<ds, jobs, dropVars, watch, control, config, known>>
  /\ RagIngest => UNCHANGED <<disk, edits, torn, ds, dropVars, watch, pending, missed, control, config, known>>
  /\ Flush => UNCHANGED <<disk, edits, torn, ds, dropVars, watch, control, config, known>>
  /\ \A persist \in BOOLEAN : RagRegister(persist) \/ RagDrop(persist) =>
       UNCHANGED <<disk, edits, torn, ds, dropVars, jobs, watch, pending, missed, known>>
  /\ RegisterFails \/ DropFails =>
       UNCHANGED <<disk, edits, torn, ds, dropVars, jobs, watch, pending, missed, known>>
  /\ RegisterIngests => UNCHANGED <<disk, edits, torn, ds, dropVars, watch, pending, missed, config>>
  /\ RagReconcile \/ ReconcileEnds =>
       UNCHANGED <<disk, edits, torn, ds, dropVars, watch, pending, missed, config, known>>
  /\ ArmFrom("arm") \/ RegisterEnds \/ WatchArm \/ Armed =>
       UNCHANGED <<disk, edits, torn, ds, dropVars, pending, config, known>>
  /\ WatchDisarm => UNCHANGED <<disk, edits, torn, ds, dropVars, jobs, control, config, known>>
  /\ Drops => UNCHANGED <<disk, edits, config>>
  /\ Crash => UNCHANGED <<disk, edits, torn, shared, config>>
BY DEF Edit, RagIngest, Flush, RagRegister, RagDrop, RegisterFails, DropFails, RegisterIngests,
       RagReconcile, ReconcileEnds, ArmFrom, RegisterEnds, WatchArm, Armed, WatchDisarm, Drops, Crash,
       filesVars, storeVars, watchVars, manageVars

\* A new collection has its types.
LEMMA InitTypes == Init => TypeOK
<1> SUFFICES ASSUME Init PROVE TypeOK
  OBVIOUS
<1>1. EmptyDataset(Paths, Nobody) \in DatasetType
  BY JobTypes DEF EmptyDataset, DatasetType
<1>2. FreeSlot \in SlotType
  BY BoundsAssumption DEF FreeSlot, SlotOf, SlotType
<1>3. disk \in [Paths -> Versions]
  <2>1. {Absent, 1} \subseteq Versions
    BY BoundsAssumption DEF Versions, Absent
  <2> QED BY <2>1 DEF Init
<1>4. edits \in 0..MaxEdits /\ config \in 0..MaxEntries
  BY BoundsAssumption DEF Init
<1>5. jobs \in [Jobs -> JobType]
  BY JobTypes DEF Init
<1>6. missed \in BOOLEAN /\ known \in BOOLEAN
  BY DEF Init
<1>7. revived \in BOOLEAN /\ shared \in BOOLEAN /\ overtaken \in BOOLEAN
  BY DEF Init
<1>8. watch \in {"off", "arming", "armed"} /\ pending \subseteq Paths /\ torn \subseteq Paths
  BY DEF Init
<1> QED BY <1>1, <1>2, <1>3, <1>4, <1>5, <1>6, <1>7, <1>8 DEF Init, TypeOK

\* All types but those of the flags.
DataOK ==
    /\ disk \in [Paths -> Versions] /\ edits \in 0..MaxEdits
    /\ ds \in DatasetType /\ jobs \in [Jobs -> JobType]
    /\ watch \in {"off", "arming", "armed"} /\ pending \subseteq Paths
    /\ config \in 0..MaxEntries /\ control \in SlotType
    /\ torn \subseteq Paths

\* Every step keeps the types of the data,
LEMMA StepData == TypeOK /\ [Next]_vars => DataOK'
<1> SUFFICES ASSUME DataOK, [Next]_vars PROVE DataOK'
  BY DEF TypeOK, DataOK
<1> USE DEF DataOK
<1>1. ASSUME NEW p \in Paths, Edit(p) PROVE DataOK'
  <2>1. disk' \in [Paths -> Versions] /\ edits' \in 0..MaxEdits
    BY <1>1, BoundsAssumption DEF Edit, Versions
  <2>2. pending' \subseteq Paths /\ torn' \subseteq Paths
    BY <1>1 DEF Edit, Collected
  <2> QED BY <1>1, <2>1, <2>2, ToolFrame
<1>2. ASSUME NEW j \in Jobs, AcquireAndWalk(j) PROVE DataOK'
  <2>1. PICK unread : jobs' = [jobs EXCEPT ![j] =
          [pc |-> "embed", items |-> LoadFsItems(unread),
           todo |-> ChangedItems(ds.state, LoadFsItems(unread)),
           changed |-> ChangedItems(ds.state, LoadFsItems(unread))]]
    BY <1>2 DEF AcquireAndWalk, Walk
  <2>2. LoadFsItems(unread) \in [Paths -> Versions]
    BY JobTypes DEF LoadFsItems
  <2>3. ChangedItems(ds.state, LoadFsItems(unread)) \in SUBSET Paths
    BY <2>2, Changes
  <2>4. jobs' \in [Jobs -> JobType]
    BY <2>1, <2>2, <2>3 DEF JobType
  <2>5. ds' \in DatasetType
    BY <1>2 DEF AcquireAndWalk, Walk, DatasetType
  <2> QED BY <1>2, <2>4, <2>5, IngestFrame
<1>3. ASSUME NEW j \in Jobs, StoreBatch(j) PROVE DataOK'
  <2>1. jobs[j].items \in [Paths -> Versions]
    BY DEF JobType
  <2>2. jobs' \in [Jobs -> JobType]
    <3>1. PICK batch : jobs' = [jobs EXCEPT ![j].todo = @ \ batch]
      BY <1>3, Zenon DEF StoreBatch
    <3>2. [jobs[j] EXCEPT !.todo = @ \ batch] \in JobType
      BY DEF JobType
    <3>3. jobs' = [jobs EXCEPT ![j] = [jobs[j] EXCEPT !.todo = @ \ batch]]
      BY <3>1
    <3> HIDE <3>1
    <3> QED BY <3>2, <3>3
  <2>3. PICK batch : ds' = UpsertBatch(ds, jobs[j].items, batch)
    BY <1>3 DEF StoreBatch
  <2>4. ds' \in DatasetType
    BY <2>1, <2>3, Upserts
  <2> QED BY <1>3, <2>2, <2>4, IngestFrame
<1>4. ASSUME NEW j \in Jobs, FinishIngest(j) PROVE DataOK'
  <2>1. jobs[j].items \in [Paths -> Versions]
    BY DEF JobType
  <2>2. ds' \in DatasetType
    <3> DEFINE put == PutFileState(ds, jobs[j].items, jobs[j].changed)
    <3>1. ds' = [chunks |-> put.chunks, state |-> put.state, lock |-> Released(ds.lock)]
      BY <1>4 DEF FinishIngest
    <3>2. put.chunks \in [Paths -> Versions] /\ put.state \in [Paths -> Versions]
      BY <2>1, Puts
    <3>3. Released(ds.lock) \in Jobs \cup {Nobody, Dead}
      BY DEF Released, DatasetType
    <3> HIDE DEF put
    <3> QED BY <3>1, <3>2, <3>3 DEF DatasetType
  <2>3. jobs' \in [Jobs -> JobType]
    BY <1>4, JobTypes DEF FinishIngest, Left
  <2> QED BY <1>4, <2>2, <2>3, IngestFrame
<1>5. ASSUME NEW j \in Jobs, IngestFails(j) PROVE DataOK'
  <2>1. ds' \in DatasetType
    BY <1>5 DEF IngestFails, Released, DatasetType
  <2>2. jobs' \in [Jobs -> JobType]
    BY <1>5, JobTypes DEF IngestFails, Left
  <2> QED BY <1>5, <2>1, <2>2, IngestFrame
<1>6. ASSUME RagIngest \/ Flush \/ Sweep PROVE jobs' \in [Jobs -> JobType]
  BY <1>6, JobTypes DEF RagIngest, Flush, Sweep, Jobs
<1>7. ASSUME RagIngest \/ Flush PROVE DataOK'
  <2>1. pending' \subseteq Paths
    BY <1>7, ToolFrame DEF Flush
  <2> QED BY <1>6, <1>7, <2>1, ToolFrame
<1>8. ASSUME NEW persist \in BOOLEAN, RagRegister(persist) \/ RagDrop(persist) PROVE DataOK'
  <2>1. config' \in 0..MaxEntries
    BY <1>8, BoundsAssumption DEF RagRegister, RagDrop
  <2>2. control' \in SlotType
    BY <1>8, SlotTypes DEF RagRegister, RagDrop
  <2> QED BY <1>8, <2>1, <2>2, ToolFrame
<1>9. FreeSlot \in SlotType
  BY SlotTypes
<1>10. ASSUME RegisterFails \/ DropFails PROVE DataOK'
  <2>1. config' \in 0..MaxEntries
    BY <1>10, RollBackTypes DEF RegisterFails, DropFails
  <2>2. control' = FreeSlot
    BY <1>10 DEF RegisterFails, DropFails, EndControl
  <2> QED BY <1>9, <1>10, <2>1, <2>2, ToolFrame
<1>11. ASSUME RegisterIngests \/ RagReconcile PROVE DataOK'
  <2>1. control' \in SlotType
    BY <1>11, SlotTypes DEF RegisterIngests, RagReconcile
  <2>2. Sweep
    BY <1>11 DEF RegisterIngests, RagReconcile
  <2> QED BY <1>6, <1>11, <2>1, <2>2, ToolFrame
<1>12. ASSUME ArmFrom("arm") PROVE DataOK'
  <2>1. control' \in SlotType
    BY <1>12, SlotTypes DEF ArmFrom
  <2>2. jobs' \in [Jobs -> JobType] /\ watch' = "arming"
    BY <1>12, JobTypes DEF ArmFrom, Jobs
  <2> QED BY <1>12, <2>1, <2>2, ToolFrame
<1>13. ASSUME RegisterEnds \/ ReconcileEnds \/ WatchArm \/ Armed, ~ArmFrom("arm") PROVE DataOK'
  <2>1. jobs' \in [Jobs -> JobType] /\ control' = FreeSlot
    BY <1>13, JobTypes DEF RegisterEnds, ReconcileEnds, WatchArm, Armed, EndControl, Jobs
  <2>2. watch' \in {watch, "armed", "off"}
    BY <1>13, ToolFrame DEF RegisterEnds, WatchArm, Armed, watchVars
  <2> QED BY <1>9, <1>13, <2>1, <2>2, ToolFrame
<1>14. ASSUME WatchDisarm PROVE DataOK'
  BY <1>14, ToolFrame DEF WatchDisarm
<1>15. ASSUME Drops \/ Crash PROVE DataOK'
  <2>1. ds' \in DatasetType
    <3>1. EmptyDataset(Paths, Nobody) \in DatasetType
      BY JobTypes DEF EmptyDataset, DatasetType
    <3>2. CASE Drops
      BY <3>1, <3>2 DEF Drops
    <3>3. CASE Crash
      BY <3>3 DEF Crash, DatasetType
    <3> QED BY <1>15, <3>2, <3>3
  <2>2. jobs' \in [Jobs -> JobType]
    <3>1. \A j, k \in {"tool", "batch"} : Lingering(j, k) \in JobType
      BY BoundsAssumption DEF Lingering, JobAt, NoItems, JobType, Versions, Absent, Jobs
    <3>2. CASE Drops
      BY <3>1, <3>2, JobTypes DEF Drops
    <3>3. CASE Crash
      BY <3>3, JobTypes DEF Crash
    <3> QED BY <1>15, <3>2, <3>3
  <2>3. watch' = "off" /\ pending' = {} /\ control' = FreeSlot
    BY <1>15 DEF Drops, Crash, EndControl
  <2>4. torn' \subseteq Paths
    BY <1>15 DEF Drops, Crash, filesVars
  <2> QED BY <1>9, <1>15, <2>1, <2>2, <2>3, <2>4, ToolFrame
<1>16. CASE UNCHANGED vars
  BY <1>16 DEF vars
<1> QED
  BY <1>1, <1>2, <1>3, <1>4, <1>5, <1>7, <1>8, <1>10, <1>11, <1>12, <1>13, <1>14, <1>15, <1>16 DEF Next

\* and of the flags.
FlagsOK == missed \in BOOLEAN /\ known \in BOOLEAN /\ revived \in BOOLEAN /\ shared \in BOOLEAN /\ overtaken \in BOOLEAN

LEMMA StepFlags == TypeOK /\ [Next]_vars => FlagsOK'
<1> SUFFICES ASSUME FlagsOK, [Next]_vars PROVE FlagsOK'
  BY DEF TypeOK, FlagsOK
<1> USE DEF FlagsOK, storeVars, filesVars, watchVars, manageVars, dropVars
<1>1. ASSUME NEW p \in Paths, Edit(p) PROVE FlagsOK'
  BY <1>1 DEF Edit
<1>2. ASSUME NEW j \in Jobs, AcquireAndWalk(j) PROVE FlagsOK'
  <2>1. missed' \in BOOLEAN /\ known' = known
    BY <1>2 DEF AcquireAndWalk, Walk
  <2>2. revived' \in BOOLEAN /\ shared' \in BOOLEAN /\ overtaken' = overtaken
    BY <1>2 DEF AcquireAndWalk, Walk
  <2> QED BY <2>1, <2>2
<1>3. ASSUME NEW j \in Jobs, StoreBatch(j) PROVE FlagsOK'
  BY <1>3 DEF StoreBatch
<1>4. ASSUME NEW j \in Jobs, FinishIngest(j) \/ IngestFails(j) PROVE FlagsOK'
  <2>1. missed' \in BOOLEAN /\ known' = known /\ shared' = shared
    BY <1>4 DEF FinishIngest, IngestFails, Lost
  <2>2. revived' \in BOOLEAN /\ overtaken' \in BOOLEAN
    BY <1>4 DEF FinishIngest, IngestFails, StillOvertaken, StillRevived
  <2> QED BY <2>1, <2>2
<1>5. ASSUME RagIngest \/ Flush PROVE FlagsOK'
  BY <1>5 DEF RagIngest, Flush
<1>6. ASSUME NEW persist \in BOOLEAN, RagRegister(persist) \/ RagDrop(persist) PROVE FlagsOK'
  BY <1>6 DEF RagRegister, RagDrop
<1>7. ASSUME RegisterFails \/ RegisterIngests \/ RegisterEnds \/ RagReconcile \/ ReconcileEnds
               \/ WatchArm \/ Armed \/ WatchDisarm \/ DropFails
      PROVE  FlagsOK'
  BY <1>7 DEF RegisterFails, RegisterIngests, RegisterEnds, RagReconcile, ReconcileEnds, WatchArm,
              Armed, WatchDisarm, DropFails, ArmFrom
<1>8. ASSUME Drops PROVE FlagsOK'
  BY <1>8 DEF Drops
<1>9. ASSUME Crash PROVE FlagsOK'
  <2>1. (config > 0) \in BOOLEAN
    OBVIOUS
  <2> QED BY <1>9, <2>1, Zenon DEF Crash
<1>10. CASE UNCHANGED vars
  BY <1>10 DEF vars
<1> QED BY <1>1, <1>2, <1>3, <1>4, <1>5, <1>6, <1>7, <1>8, <1>9, <1>10 DEF Next

\* Every variable keeps its type, for any files, edits and batch size.
THEOREM TypeCorrect == Spec => []TypeOK
<1>1. TypeOK /\ [Next]_vars => TypeOK'
  BY StepData, StepFlags DEF DataOK, FlagsOK, TypeOK
<1> QED BY <1>1, InitTypes, PTL DEF Spec

(***************************************************************************)
(* One ingest at a time.                                                   *)
(***************************************************************************)

\* What the jobs may become in a step that is none of theirs.
Rested(job, was) == job = was \/ (job.pc # "embed" /\ job.items = NoItems)

\* The steps of the tools neither touch the store nor send a job past its walk.
LEMMA ToolSteps ==
  ASSUME TypeOK,
         \/ \E p \in Paths : Edit(p)
         \/ RagIngest \/ Flush
         \/ \E persist \in BOOLEAN : RagRegister(persist) \/ RagDrop(persist)
         \/ RegisterFails \/ RegisterIngests \/ RegisterEnds \/ RagReconcile \/ ReconcileEnds
         \/ WatchArm \/ Armed \/ WatchDisarm \/ DropFails
         \/ UNCHANGED vars
  PROVE  /\ ds' = ds /\ revived' = revived /\ shared' = shared /\ overtaken' = overtaken
         /\ \A j \in Jobs : Rested(jobs'[j], jobs[j])
<1>1. jobs \in [Jobs -> JobType]
  BY DEF TypeOK
<1>2. ASSUME jobs' = jobs PROVE \A j \in Jobs : Rested(jobs'[j], jobs[j])
  BY <1>2 DEF Rested
<1>3. ASSUME \E k \in Jobs, job \in {Started, IdleJob, JobAt("done")} : jobs' = [jobs EXCEPT ![k] = job]
      PROVE  \A j \in Jobs : Rested(jobs'[j], jobs[j])
  BY <1>1, <1>3 DEF Rested, Started, IdleJob, JobAt
<1>4. ASSUME RegisterEnds \/ WatchArm
      PROVE  ds' = ds /\ \E k \in Jobs, job \in {Started, IdleJob, JobAt("done")} :
                         jobs' = [jobs EXCEPT ![k] = job]
  BY <1>4, ToolFrame DEF RegisterEnds, WatchArm, ArmFrom, Jobs
<1>5. ASSUME RagIngest \/ RegisterIngests \/ RagReconcile \/ ReconcileEnds \/ Armed
      PROVE  ds' = ds /\ \E k \in Jobs, job \in {Started, IdleJob, JobAt("done")} :
                         jobs' = [jobs EXCEPT ![k] = job]
  BY <1>5, ToolFrame DEF RagIngest, RegisterIngests, RagReconcile, ReconcileEnds, Armed, Sweep, Jobs
<1>6. ASSUME Flush
      PROVE  ds' = ds /\ (jobs' = jobs \/ \E k \in Jobs, job \in {Started, IdleJob, JobAt("done")} :
                         jobs' = [jobs EXCEPT ![k] = job])
  BY <1>6, ToolFrame DEF Flush, Jobs
<1>7. ds' = ds /\ \A j \in Jobs : Rested(jobs'[j], jobs[j])
  BY <1>2, <1>3, <1>4, <1>5, <1>6, ToolFrame DEF vars
<1>8. UNCHANGED dropVars
  BY ToolFrame DEF vars
<1> QED BY <1>7, <1>8 DEF dropVars

\* Nor do a failing ingest and a crash, which free the lock at most.
LEMMA EndSteps ==
  ASSUME TypeOK, (\E k \in Jobs : IngestFails(k)) \/ Crash
  PROVE  /\ disk' = disk /\ edits' = edits /\ torn' = torn
         /\ ds'.chunks = ds.chunks /\ ds'.state = ds.state
         /\ shared' = shared /\ (revived' => revived)
         /\ \A j \in Jobs : Rested(jobs'[j], jobs[j])
<1>1. jobs \in [Jobs -> JobType] /\ ds \in DatasetType
  BY DEF TypeOK
<1>2. ASSUME NEW k \in Jobs, IngestFails(k)
      PROVE  /\ ds'.chunks = ds.chunks /\ ds'.state = ds.state
             /\ shared' = shared /\ (revived' => revived)
             /\ \A j \in Jobs : Rested(jobs'[j], jobs[j])
  <2>1. ds'.chunks = ds.chunks /\ ds'.state = ds.state
    BY <1>1, <1>2 DEF IngestFails, DatasetType
  <2>2. shared' = shared /\ (revived' => revived)
    BY <1>2 DEF IngestFails, StillRevived
  <2>3. \A j \in Jobs : Rested(jobs'[j], jobs[j])
    BY <1>1, <1>2 DEF IngestFails, Left, Rested, IdleJob, JobAt
  <2> QED BY <2>1, <2>2, <2>3
<1>3. ASSUME Crash
      PROVE  /\ ds'.chunks = ds.chunks /\ ds'.state = ds.state
             /\ shared' = shared /\ (revived' => revived)
             /\ \A j \in Jobs : Rested(jobs'[j], jobs[j])
  BY <1>1, <1>3 DEF Crash, Rested, IdleJob, JobAt, DatasetType
<1> QED BY <1>2, <1>3, IngestFrame, ToolFrame

\* Past its walk goes who was there, or walks.
LEMMA WalkSteps ==
  ASSUME jobs \in [Jobs -> JobType], ds \in DatasetType, NEW j \in Jobs, AcquireAndWalk(j)
  PROVE  /\ jobs[j].pc = "lock" /\ ds.lock \in {Nobody, Dead} /\ ds'.lock = j
         /\ ds'.chunks = ds.chunks /\ ds'.state = ds.state
         /\ \A k \in Jobs \ {j} : jobs'[k] = jobs[k]
         /\ overtaken' = overtaken
BY DEF AcquireAndWalk, Walk, DatasetType

\* Whoever is past its walk holds the lock, unless a drop has passed an ingest.
LEMMA StepLock == TypeOK /\ OneIngestAtATime /\ [Next]_vars => OneIngestAtATime'
<1> SUFFICES ASSUME TypeOK, OneIngestAtATime, [Next]_vars, ~overtaken',
                    NEW j \in Jobs, Embedding(j)'
             PROVE  ds'.lock = j
  BY DEF OneIngestAtATime
<1>1. jobs \in [Jobs -> JobType] /\ ds \in DatasetType
  BY DEF TypeOK
<1>2. ASSUME NEW k \in Jobs, AcquireAndWalk(k) PROVE ds'.lock = j
  <2>1. j # k => Embedding(j) /\ ~overtaken
    BY <1>1, <1>2, WalkSteps DEF Embedding
  <2>2. j # k => ds.lock = j
    BY <2>1 DEF OneIngestAtATime
  <2> QED BY <1>1, <1>2, <2>2, NobodyAssumption, WalkSteps
<1>3. ASSUME NEW k \in Jobs, StoreBatch(k) PROVE ds'.lock = j
  <2>1. ds'.lock = ds.lock /\ ~overtaken
    BY <1>1, <1>3 DEF StoreBatch, UpsertBatch, DatasetType, dropVars
  <2>2. Embedding(j)
    BY <1>1, <1>3 DEF StoreBatch, Embedding, JobType
  <2> QED BY <2>1, <2>2 DEF OneIngestAtATime
<1>4. ASSUME NEW k \in Jobs, FinishIngest(k) \/ IngestFails(k) PROVE ds'.lock = j
  <2>1. j # k /\ Embedding(j)
    BY <1>1, <1>4 DEF FinishIngest, IngestFails, Left, Embedding, IdleJob, JobAt
  <2>2. ~overtaken
    BY <1>4, <2>1 DEF FinishIngest, IngestFails, StillOvertaken
  <2>3. ds.lock = j /\ ~Embedding(k)
    BY <2>1, <2>2 DEF OneIngestAtATime
  <2> QED BY <1>4, <2>3 DEF FinishIngest, IngestFails, Writing, CutOff
<1>5. ASSUME Drops PROVE ds'.lock = j
  <2>1. \A k \in Jobs : ~Embedding(k)
    BY <1>5 DEF Drops
  <2>2. ~Embedding(j)'
    BY <1>5, <2>1 DEF Drops, Lingering, Embedding, IdleJob, JobAt, Jobs
  <2> QED BY <2>2
<1>6. ASSUME Crash PROVE ds'.lock = j
  BY <1>6 DEF Crash, Embedding, IdleJob, JobAt
<1> QED
  <2>1. CASE ds' = ds /\ overtaken' = overtaken /\ \A k \in Jobs : Rested(jobs'[k], jobs[k])
    BY <2>1 DEF OneIngestAtATime, Embedding, Rested
  <2> QED BY <1>2, <1>3, <1>4, <1>5, <1>6, <2>1, ToolSteps DEF Next

\* Two ingests are past their walk at once only if a drop has passed one: tool,
\* watcher and control tools of any collection, with refused locks, failing
\* batches, drops, registrations and crashes.
THEOREM MutualExclusion == Spec => []OneIngestAtATime
<1>1. Init => OneIngestAtATime
  BY DEF Init, OneIngestAtATime, Embedding, IdleJob, JobAt
<1> QED BY <1>1, StepLock, TypeCorrect, PTL DEF Spec

(***************************************************************************)
(* What file_state names is in the index.                                  *)
(***************************************************************************)

\* What a walk leaves: the files it could read, as they are now.
LEMMA Walks ==
  ASSUME TypeOK, NEW j \in Jobs, AcquireAndWalk(j)
  PROVE  /\ \A k \in Jobs \ {j} : jobs'[k] = jobs[k]
         /\ Embedding(j)' /\ Writing(j)' /\ jobs'[j].todo = jobs'[j].changed
         /\ jobs'[j].changed = {p \in Paths : jobs'[j].items[p] # Absent /\ ds.state[p] # jobs'[j].items[p]}
         /\ \A p \in Paths : jobs'[j].items[p] \in {disk[p], Absent}
         /\ watch # "off" /\ ~missed' => ~missed /\ \A p \in Paths : jobs'[j].items[p] = disk[p]
         /\ ds'.chunks = ds.chunks /\ ds'.state = ds.state
<1>1. jobs \in [Jobs -> JobType] /\ ds \in DatasetType /\ disk \in [Paths -> Versions]
  BY DEF TypeOK
<1>2. PICK unread :
        /\ jobs' = [jobs EXCEPT ![j] = [pc |-> "embed", items |-> LoadFsItems(unread),
                                        todo |-> ChangedItems(ds.state, LoadFsItems(unread)),
                                        changed |-> ChangedItems(ds.state, LoadFsItems(unread))]]
        /\ missed' = (watch # "off" /\ (missed \/ \E p \in unread : disk[p] # Absent))
  BY DEF AcquireAndWalk, Walk
<1>3. LoadFsItems(unread) \in [Paths -> Versions]
  BY <1>1, JobTypes DEF LoadFsItems
<1>4. jobs'[j] = [pc |-> "embed", items |-> LoadFsItems(unread),
                  todo |-> ChangedItems(ds.state, LoadFsItems(unread)),
                  changed |-> ChangedItems(ds.state, LoadFsItems(unread))]
  BY <1>1, <1>2
<1>5. \A p \in Paths : LoadFsItems(unread)[p] = IF p \in unread THEN Absent ELSE disk[p]
  BY DEF LoadFsItems
<1>6. watch # "off" /\ ~missed' => ~missed /\ \A p \in Paths : LoadFsItems(unread)[p] = disk[p]
  BY <1>2, <1>5
<1>7. ds'.chunks = ds.chunks /\ ds'.state = ds.state
  BY <1>1, WalkSteps
<1>8. \A k \in Jobs \ {j} : jobs'[k] = jobs[k]
  BY <1>1, <1>2
<1>9. StoreOpen(j)'
  BY DEF AcquireAndWalk, Walk, StoreOpen
<1> QED BY <1>3, <1>4, <1>5, <1>6, <1>7, <1>8, <1>9, Changes DEF Embedding, Writing

\* If two ingests are still not in one store, who walks is the only one there.
LEMMA Alone ==
  ASSUME TypeOK, NEW j \in Jobs, AcquireAndWalk(j), ~shared'
  PROVE  ~shared /\ \A k \in Jobs \ {j} : ~Writing(k) /\ ~Writing(k)'
<1>1. jobs \in [Jobs -> JobType] /\ ds \in DatasetType
  BY DEF TypeOK
<1>2. /\ revived' = (revived \/ j \in OldJobs)
      /\ shared' = (shared \/ \E k \in Jobs \ {j} : Embedding(k) /\ (k \in OldJobs => revived'))
  BY DEF AcquireAndWalk, Walk
<1> QED BY <1>1, <1>2, WalkSteps DEF Writing, StoreOpen, Embedding

\* What a batch leaves.
LEMMA Stores ==
  ASSUME TypeOK, NEW j \in Jobs, StoreBatch(j)
  PROVE  /\ \A k \in Jobs \ {j} : jobs'[k] = jobs[k]
         /\ Writing(j) /\ UNCHANGED dropVars /\ \A k \in Jobs : Writing(k)' => Writing(k)
         /\ jobs'[j].pc = jobs[j].pc
         /\ jobs'[j].items = jobs[j].items /\ jobs'[j].changed = jobs[j].changed
         /\ ds'.state = ds.state
         /\ \E batch \in SUBSET jobs[j].todo :
              /\ jobs'[j].todo = jobs[j].todo \ batch
              /\ \A p \in Paths :
                   ds'.chunks[p] = IF p \in batch THEN jobs[j].items[p] ELSE ds.chunks[p]
<1>1. jobs \in [Jobs -> JobType] /\ ds \in DatasetType
  BY DEF TypeOK
<1>2. PICK batch \in SUBSET jobs[j].todo :
        /\ ds' = UpsertBatch(ds, jobs[j].items, batch)
        /\ jobs' = [jobs EXCEPT ![j].todo = @ \ batch]
  BY DEF StoreBatch
<1>3. /\ \A k \in Jobs \ {j} : jobs'[k] = jobs[k]
      /\ jobs'[j].pc = jobs[j].pc /\ jobs'[j].todo = jobs[j].todo \ batch
      /\ jobs'[j].items = jobs[j].items /\ jobs'[j].changed = jobs[j].changed
  BY <1>1, <1>2 DEF JobType
<1>4. jobs[j].items \in [Paths -> Versions]
  BY <1>1 DEF JobType
<1>5. /\ ds'.state = ds.state
      /\ ds'.chunks = [p \in Paths |-> IF p \in batch THEN jobs[j].items[p] ELSE ds.chunks[p]]
  BY <1>1, <1>2, <1>4, Upserts
<1>6. Writing(j) /\ UNCHANGED dropVars
  BY DEF StoreBatch
<1>7. \A k \in Jobs : jobs'[k].pc = jobs[k].pc
  BY <1>3
<1>8. \A k \in Jobs : Writing(k)' => Writing(k)
  BY <1>6, <1>7 DEF Writing, StoreOpen, Embedding, dropVars
<1> QED BY <1>2, <1>3, <1>5, <1>6, <1>8

\* What the end of an ingest leaves.
LEMMA Finishes ==
  ASSUME TypeOK, NEW j \in Jobs, FinishIngest(j)
  PROVE  /\ \A k \in Jobs \ {j} : jobs'[k] = jobs[k]
         /\ Writing(j) /\ jobs[j].todo = {}
         /\ shared' = shared /\ \A k \in Jobs : Writing(k)' => k # j /\ Writing(k)
         /\ jobs'[j].pc = IF j = "control" THEN "done" ELSE "idle"
         /\ \A p \in Paths :
              LET gone == ds.state[p] # Absent /\ jobs[j].items[p] = Absent
              IN /\ ds'.chunks[p] = IF gone THEN Absent ELSE ds.chunks[p]
                 /\ ds'.state[p] = IF gone THEN Absent
                                   ELSE IF p \in jobs[j].changed THEN jobs[j].items[p] ELSE ds.state[p]
<1>1. jobs \in [Jobs -> JobType] /\ ds \in DatasetType
  BY DEF TypeOK
<1>2. jobs[j].items \in [Paths -> Versions]
  BY <1>1 DEF JobType
<1> DEFINE put == PutFileState(ds, jobs[j].items, jobs[j].changed)
<1>3. ds' = [chunks |-> put.chunks, state |-> put.state, lock |-> Released(ds.lock)]
  BY DEF FinishIngest
<1>4. ds'.chunks = put.chunks /\ ds'.state = put.state
  BY <1>3
<1>5. /\ put.chunks = [p \in Paths |-> IF ds.state[p] # Absent /\ jobs[j].items[p] = Absent THEN Absent
                                      ELSE ds.chunks[p]]
      /\ put.state = [p \in Paths |-> IF ds.state[p] # Absent /\ jobs[j].items[p] = Absent THEN Absent
                                     ELSE IF p \in jobs[j].changed THEN jobs[j].items[p] ELSE ds.state[p]]
  BY <1>1, <1>2, Puts
<1>6. /\ \A k \in Jobs \ {j} : jobs'[k] = jobs[k]
      /\ Writing(j) /\ jobs[j].todo = {} /\ shared' = shared /\ (revived' => revived)
      /\ jobs'[j].pc = IF j = "control" THEN "done" ELSE "idle"
  BY <1>1 DEF FinishIngest, Left, StillRevived, IdleJob, JobAt
<1>7. \A k \in Jobs : Writing(k)' => k # j /\ Writing(k)
  BY <1>6 DEF Writing, StoreOpen, Embedding
<1> HIDE DEF put
<1> QED BY <1>4, <1>5, <1>6, <1>7

\* What an edit leaves.
LEMMA Edits ==
  ASSUME TypeOK, NEW q \in Paths, Edit(q)
  PROVE  /\ \A p \in Paths \ {q} : disk'[p] = disk[p] /\ ((p \in torn') = (p \in torn))
         /\ q \notin torn' /\ disk'[q] # Absent /\ disk'[q] = ds.state[q] => ~HalfDone(q)
<1>1. disk \in [Paths -> Versions]
  BY DEF TypeOK
<1>2. PICK v : /\ disk' = [disk EXCEPT ![q] = v]
               /\ torn' = IF v # Absent /\ v = ds.state[q] /\ HalfDone(q) THEN torn \cup {q} ELSE torn \ {q}
  BY DEF Edit
<1>3. disk'[q] = v /\ \A p \in Paths \ {q} : disk'[p] = disk[p]
  BY <1>1, <1>2
<1> QED BY <1>2, <1>3

\* A step that leaves the files and the store alone, and sends nobody in.
Quiet ==
    /\ disk' = disk /\ torn' = torn /\ shared' = shared
    /\ ds'.chunks = ds.chunks /\ ds'.state = ds.state
    /\ revived' => revived
    /\ \A j \in Jobs : Rested(jobs'[j], jobs[j])

LEMMA QuietSteps ==
  ASSUME TypeOK, [Next]_vars
  PROVE  \/ Quiet \/ Drops
         \/ \E q \in Paths : Edit(q)
         \/ \E j \in Jobs : AcquireAndWalk(j) \/ StoreBatch(j) \/ FinishIngest(j)
<1>1. ASSUME (\E k \in Jobs : IngestFails(k)) \/ Crash PROVE Quiet
  BY <1>1, EndSteps DEF Quiet
<1>2. ASSUME \/ RagIngest \/ Flush
             \/ \E persist \in BOOLEAN : RagRegister(persist) \/ RagDrop(persist)
             \/ RegisterFails \/ RegisterIngests \/ RegisterEnds \/ RagReconcile \/ ReconcileEnds
             \/ WatchArm \/ Armed \/ WatchDisarm \/ DropFails \/ UNCHANGED vars
      PROVE  Quiet
  <2>1. disk' = disk /\ torn' = torn
    BY <1>2, ToolFrame DEF vars
  <2> QED BY <1>2, <2>1, ToolSteps DEF Quiet
<1> QED BY <1>1, <1>2 DEF Next

\* In a quiet step nobody begins to write, and who writes holds what it held.
LEMMA QuietWriters ==
  ASSUME Quiet, NEW j \in Jobs, Writing(j)'
  PROVE  Writing(j) /\ jobs'[j] = jobs[j]
BY DEF Quiet, Rested, Writing, StoreOpen, Embedding

\* Every step keeps the chunks of the embedded files and the named ones.
LEMMA StepIndex == TypeOK /\ IndexInv /\ [Next]_vars => IndexInv'
<1> SUFFICES ASSUME TypeOK, Exclusive, Progress, SkippedFilesAreIndexed, [Next]_vars, ~shared'
             PROVE  IndexInv'
  BY DEF IndexInv, Exclusive, Progress, SkippedFilesAreIndexed
<1> USE DEF IndexInv
<1>1. ASSUME Quiet PROVE IndexInv'
  <2>1. Exclusive'
    BY <1>1, QuietWriters DEF Exclusive, Quiet
  <2>2. Progress'
    BY <1>1, QuietWriters DEF Progress, Quiet
  <2>3. SkippedFilesAreIndexed'
    BY <1>1 DEF SkippedFilesAreIndexed, Quiet
  <2> QED BY <2>1, <2>2, <2>3
<1>2. ASSUME NEW q \in Paths, Edit(q) PROVE IndexInv'
  <2>1. ds' = ds /\ jobs' = jobs /\ shared' = shared /\ revived' = revived
    BY <1>2, ToolFrame DEF dropVars
  <2>2. \A k \in Jobs : Writing(k)' = Writing(k)
    BY <2>1 DEF Writing, StoreOpen, Embedding
  <2>3. \A k \in Jobs : jobs[k].changed \subseteq Paths
    BY DEF TypeOK, JobType
  <2>4. ASSUME ~HalfDone(q)
        PROVE  ds.chunks[q] = ds.state[q] /\ \A k \in Jobs : Writing(k) => q \notin jobs[k].changed
    BY <2>4 DEF HalfDone, Writing
  <2>5. Exclusive'
    BY <2>1, <2>2 DEF Exclusive
  <2>6. SkippedFilesAreIndexed'
    BY <1>2, <2>1, <2>4, Edits DEF SkippedFilesAreIndexed
  <2>7. Progress'
    <3> SUFFICES ASSUME NEW k \in Jobs, Writing(k), NEW p \in jobs[k].changed,
                        p \notin torn', disk'[p] # Absent
                 PROVE  ds.state[p] # disk'[p]
      BY <2>1, <2>2 DEF Progress
    <3>1. CASE p = q
      BY <1>2, <2>4, <3>1, Edits
    <3>2. CASE p # q
      BY <1>2, <2>1, <2>3, <3>2, Edits DEF Progress
    <3> QED BY <3>1, <3>2
  <2> QED BY <2>5, <2>6, <2>7
<1>3. ASSUME NEW j \in Jobs, AcquireAndWalk(j) PROVE IndexInv'
  <2>1. disk' = disk /\ torn' = torn
    BY <1>3, IngestFrame
  <2>2. ~shared /\ \A k \in Jobs : Writing(k)' => k = j
    BY <1>3, Alone
  <2>3. SkippedFilesAreIndexed'
    BY <1>3, <2>1, <2>2, Walks DEF SkippedFilesAreIndexed
  <2>4. Progress'
    <3> SUFFICES ASSUME NEW p \in jobs'[j].changed
                 PROVE  /\ jobs'[j].items[p] # Absent
                        /\ disk'[p] # Absent => ds'.state[p] # disk'[p]
      BY <1>3, <2>2, Walks DEF Progress
    <3> QED BY <1>3, <2>1, Walks
  <2> QED BY <2>2, <2>3, <2>4 DEF Exclusive
<1>4. ASSUME NEW j \in Jobs, StoreBatch(j) PROVE IndexInv'
  <2>1. disk' = disk /\ torn' = torn /\ shared' = shared
    BY <1>4, IngestFrame, Stores DEF dropVars
  <2>2. PICK batch \in SUBSET jobs[j].todo :
          /\ jobs'[j].todo = jobs[j].todo \ batch
          /\ \A p \in Paths : ds'.chunks[p] = IF p \in batch THEN jobs[j].items[p] ELSE ds.chunks[p]
    BY <1>4, Stores
  <2>3. jobs[j].changed \subseteq Paths
    BY DEF TypeOK, JobType
  <2>4. batch \subseteq jobs[j].changed
    BY <1>4, <2>1, Stores DEF Progress
  <2>5. SkippedFilesAreIndexed'
    BY <1>4, <2>1, <2>2, <2>4, Stores DEF Progress, SkippedFilesAreIndexed
  <2>6. \A k \in Jobs : Writing(k)' => k = j
    BY <1>4, <2>1, Stores DEF Exclusive
  <2>7. Progress'
    BY <1>4, <2>1, <2>2, <2>3, <2>6, Stores DEF Progress
  <2> QED BY <2>5, <2>6, <2>7 DEF Exclusive
<1>5. ASSUME NEW j \in Jobs, FinishIngest(j) PROVE IndexInv'
  <2>1. disk' = disk /\ torn' = torn
    BY <1>5, IngestFrame
  <2>2. ~shared /\ \A k \in Jobs : ~Writing(k)'
    BY <1>5, Finishes DEF Exclusive
  <2>3. SkippedFilesAreIndexed'
    BY <1>5, <2>1, <2>2, Finishes DEF Progress, SkippedFilesAreIndexed
  <2> QED BY <2>2, <2>3 DEF Exclusive, Progress
<1>6. ASSUME Drops PROVE IndexInv'
  <2>1. \A p \in Paths : ds'.state[p] = Absent
    BY <1>6 DEF Drops, EmptyDataset
  <2>2. \A j \in Jobs : ~Writing(j)'
    BY <1>6 DEF Drops, Writing, StoreOpen, Embedding, IdleJob, JobAt, OldJobs
  <2> QED BY <2>1, <2>2 DEF Exclusive, Progress, SkippedFilesAreIndexed
<1> QED BY <1>1, <1>2, <1>3, <1>4, <1>5, <1>6, QuietSteps

\* The invariant of the index.
LEMMA IndexIsKept == Spec => []IndexInv
<1>1. Init => IndexInv
  BY DEF Init, IndexInv, Exclusive, Progress, SkippedFilesAreIndexed, Writing, Embedding, EmptyDataset,
         IdleJob, JobAt, NoItems, Absent
<1> QED BY <1>1, StepIndex, TypeCorrect, PTL DEF Spec

\* The short cut of every ingest is sound: through failing batches, refused
\* locks, drops, crashes and files that go back to an earlier content.
THEOREM ShortCutIsSound == Spec => []SkippedFilesAreIndexed
<1>1. IndexInv => SkippedFilesAreIndexed
  BY DEF IndexInv
<1> QED BY <1>1, IndexIsKept, PTL

(***************************************************************************)
(* What an armed watcher keeps.                                            *)
(***************************************************************************)

\* A file stays served while neither it nor the job that serves it moves.
LEMMA StillServed ==
  ASSUME NEW m \in Jobs \ OldJobs, NEW p \in Paths, Served(m, p), disk'[p] = disk[p],
         ds'.chunks[p] = ds.chunks[p], jobs'[m] = jobs[m], revived' => revived,
         \A k \in Jobs : Rested(jobs'[k], jobs[k])
  PROVE  Served(m, p)'
BY DEF Served, Underway, Writing, StoreOpen, Embedding, Rested

\* A walk that could read everything serves everything.
LEMMA WalkServes ==
  ASSUME TypeOK, IndexInv, NEW j \in Jobs, AcquireAndWalk(j), watch # "off", ~missed', ~shared',
         NEW m \in Jobs, NEW p \in Paths \ torn, disk[p] # Absent, m = j \/ Served(m, p)
  PROVE  Served(m, p)'
<1>1. disk' = disk
  BY IngestFrame
<1>2. ~shared /\ \A k \in Jobs : Writing(k)' => k = j
  BY Alone
<1>3. jobs'[j].items[p] = disk[p]
  BY Walks
<1>4. CASE m = j
  BY <1>1, <1>2, <1>3, <1>4, Walks DEF Served, Underway, IndexInv, SkippedFilesAreIndexed
<1>5. CASE m # j
  <2>1. ~Writing(m)
    BY <1>5, Alone
  <2> QED BY <1>1, <1>2, <1>3, <1>5, <2>1, Walks DEF Served, Underway
<1> QED BY <1>4, <1>5

\* A batch serves on.
LEMMA StoreServes ==
  ASSUME TypeOK, IndexInv, ~shared, NEW j \in Jobs, StoreBatch(j),
         NEW m \in Jobs, NEW p \in Paths, Served(m, p)
  PROVE  Served(m, p)'
<1>1. disk' = disk
  BY IngestFrame
<1>2. \A k \in Jobs : (Writing(k)' => k = j) /\ (Writing(k) => k = j)
  BY Stores DEF IndexInv, Exclusive
<1>3. PICK batch \in SUBSET jobs[j].todo :
        /\ jobs'[j].todo = jobs[j].todo \ batch
        /\ \A q \in Paths : ds'.chunks[q] = IF q \in batch THEN jobs[j].items[q] ELSE ds.chunks[q]
  BY Stores
<1>4. Writing(j) /\ Writing(j)' /\ jobs'[j].items = jobs[j].items
  BY Stores DEF Writing, StoreOpen, Embedding, dropVars
<1> QED BY <1>1, <1>2, <1>3, <1>4 DEF Served, Underway

\* So does the end of an ingest.
LEMMA FinishServes ==
  ASSUME TypeOK, IndexInv, ~shared, NEW j \in Jobs, FinishIngest(j),
         NEW m \in Jobs, NEW p \in Paths, disk[p] # Absent, Served(m, p)
  PROVE  Served(m, p)'
<1>1. disk' = disk
  BY IngestFrame
<1>2. \A k \in Jobs : ~Writing(k)' /\ (Writing(k) => k = j)
  BY Finishes DEF IndexInv, Exclusive
<1>3. Writing(j) /\ jobs[j].todo = {}
  BY Finishes
<1>4. jobs[j].items[p] = disk[p] /\ ds.chunks[p] = disk[p]
  BY <1>2, <1>3 DEF Served, Underway
<1>5. ds'.chunks[p] = ds.chunks[p]
  BY <1>4, Finishes
<1> QED BY <1>1, <1>2, <1>4, <1>5 DEF Served

\* Every step keeps what is served, or is one whose loss is remembered.
LEMMA StepWatch ==
  TypeOK /\ IndexInv /\ WatchInv /\ [Next]_vars => WatchInv'
<1> SUFFICES ASSUME TypeOK, IndexInv, Arming, Watching, [Next]_vars
             PROVE  Arming' /\ Watching'
  BY DEF WatchInv
<1>1. jobs \in [Jobs -> JobType]
  BY DEF TypeOK
<1>2. ASSUME NEW q \in Paths, Edit(q) PROVE Arming' /\ Watching'
  <2>1. UNCHANGED <<ds, jobs, watch, control>>
    BY <1>2, ToolFrame
  <2>2. missed' = (missed \/ watch = "arming") /\ pending' = Collected(q)
    BY <1>2 DEF Edit
  <2>3. \A p \in Paths \ {q} : disk'[p] = disk[p] /\ ((p \in torn') = (p \in torn))
    BY <1>2, Edits
  <2>6. shared' = shared /\ revived' = revived
    BY <1>2, ToolFrame DEF dropVars
  <2>4. Arming'
    BY <2>1, <2>2 DEF Arming
  <2>5. Watching'
    BY <2>1, <2>2, <2>3, <2>6 DEF Watching, Collected, Served, Underway, Writing, StoreOpen, Embedding
  <2> QED BY <2>4, <2>5
<1>3. ASSUME NEW j \in Jobs, AcquireAndWalk(j) PROVE Arming' /\ Watching'
  <2>1. UNCHANGED <<disk, torn, watch, pending, control>> /\ (~shared' => ~shared)
    BY <1>3, IngestFrame, Alone
  <2>2. /\ \A k \in Jobs : k # j => jobs'[k] = jobs[k]
        /\ jobs'[j].pc = "embed" /\ (watch # "off" /\ ~missed' => ~missed)
    BY <1>3, Walks DEF Embedding
  <2>3. Arming'
    BY <1>3, <2>1, <2>2, WalkServes DEF Arming, Jobs
  <2>4. Watching'
    BY <1>3, <2>1, <2>2, WalkServes DEF Watching, Jobs
  <2> QED BY <2>3, <2>4
<1>4. ASSUME NEW j \in Jobs, StoreBatch(j) PROVE Arming' /\ Watching'
  <2>1. UNCHANGED <<disk, torn, watch, pending, missed, control>> /\ shared' = shared
    BY <1>4, IngestFrame, Stores DEF dropVars
  <2>2. \A k \in Jobs : jobs'[k].pc = jobs[k].pc
    BY <1>4, Stores
  <2>3. Arming'
    BY <1>4, <2>1, <2>2, StoreServes DEF Arming, Jobs
  <2>4. Watching'
    BY <1>4, <2>1, <2>2, StoreServes DEF Watching, Jobs
  <2> QED BY <2>3, <2>4
<1>5. ASSUME NEW j \in Jobs, FinishIngest(j) PROVE Arming' /\ Watching'
  <2>1. UNCHANGED <<disk, torn, watch, pending, missed, control>> /\ shared' = shared
    BY <1>5, IngestFrame, Finishes DEF dropVars
  <2>2. /\ \A k \in Jobs : k # j => jobs'[k] = jobs[k]
        /\ jobs[j].pc = "embed"
    BY <1>5, Finishes DEF Writing, Embedding
  <2>3. Arming'
    BY <1>5, <2>1, <2>2, FinishServes DEF Arming, Jobs
  <2>4. Watching'
    BY <1>5, <2>1, <2>2, FinishServes DEF Watching, Jobs
  <2> QED BY <2>3, <2>4
<1>6. ASSUME NEW j \in Jobs, IngestFails(j) PROVE Arming' /\ Watching'
  <2>1. UNCHANGED <<disk, torn, watch, pending, control>> /\ shared' = shared
    BY <1>6, IngestFrame, EndSteps
  <2>2. /\ \A k \in Jobs : k # j => jobs'[k] = jobs[k]
        /\ jobs'["control"].pc \in {"embed", "done"} => j # "control"
        /\ watch # "off" /\ ~missed' => ~missed /\ j # "batch"
    BY <1>1, <1>6 DEF IngestFails, Left, Lost, JobAt, Jobs
  <2>3. \A m \in Jobs \ OldJobs, p \in Paths : m # j /\ Served(m, p) => Served(m, p)'
    BY <1>6, <2>1, <2>2, EndSteps, StillServed
  <2>4. Arming'
    BY <2>1, <2>2, <2>3 DEF Arming, Jobs, OldJobs
  <2>5. Watching'
    BY <2>1, <2>2, <2>3 DEF Watching, Jobs, OldJobs
  <2> QED BY <2>4, <2>5
<1>7. ASSUME Drops \/ Crash PROVE Arming' /\ Watching'
  <2>1. watch' = "off" /\ control' = FreeSlot
    BY <1>7 DEF Drops, Crash, EndControl
  <2>2. control'.op = "none"
    BY <2>1 DEF FreeSlot, SlotOf
  <2> QED BY <2>1, <2>2 DEF Arming, Watching
<1>8. ASSUME disk' = disk, ds' = ds, jobs'["batch"] = jobs["batch"], watch' = watch,
             pending' = pending, missed' = missed, torn' = torn, shared' = shared,
             revived' = revived, \A k \in Jobs : Rested(jobs'[k], jobs[k])
      PROVE  Watching'
  <2>1. \A p \in Paths : Served("batch", p) => Served("batch", p)'
    BY <1>8, StillServed DEF Jobs, OldJobs
  <2> QED BY <1>8, <2>1 DEF Watching
<1>9. ASSUME RagIngest PROVE Arming' /\ Watching'
  <2>1. UNCHANGED <<disk, torn, ds, watch, pending, missed, control>>
    BY <1>9, ToolFrame
  <2>2. jobs'["batch"] = jobs["batch"] /\ jobs'["control"] = jobs["control"]
    BY <1>1, <1>9 DEF RagIngest, Jobs
  <2>3. shared' = shared /\ revived' = revived /\ \A k \in Jobs : Rested(jobs'[k], jobs[k])
    BY <1>9, ToolSteps
  <2>4. \A p \in Paths : Served("control", p) => Served("control", p)'
    BY <2>1, <2>2, <2>3, StillServed DEF Jobs, OldJobs
  <2> QED BY <1>8, <2>1, <2>2, <2>3, <2>4 DEF Arming
<1>10. ASSUME Flush PROVE Arming' /\ Watching'
  <2>1. UNCHANGED <<disk, torn, ds, watch, control>>
    BY <1>10, ToolFrame
  <2>2. /\ jobs'["control"] = jobs["control"]
        /\ ~missed' => ~missed /\ jobs'["batch"].pc = "lock"
    BY <1>1, <1>10 DEF Flush, Started, JobAt, Jobs
  <2>3. shared' = shared /\ revived' = revived /\ \A k \in Jobs : Rested(jobs'[k], jobs[k])
    BY <1>10, ToolSteps
  <2>4. \A p \in Paths : Served("control", p) => Served("control", p)'
    BY <2>1, <2>2, <2>3, StillServed DEF Jobs, OldJobs
  <2> QED BY <2>1, <2>2, <2>3, <2>4 DEF Arming, Watching
<1>11. ASSUME \/ \E persist \in BOOLEAN : RagRegister(persist) \/ RagDrop(persist)
              \/ RegisterFails \/ RegisterIngests \/ RagReconcile \/ ReconcileEnds \/ DropFails
       PROVE  Arming' /\ Watching'
  <2>1. UNCHANGED <<disk, torn, ds, watch, pending, missed>>
    BY <1>11, ToolFrame
  <2>4. jobs'["batch"] = jobs["batch"]
    <3>1. ASSUME RegisterIngests \/ RagReconcile PROVE jobs' = [jobs EXCEPT !["control"] = Started]
      BY <3>1 DEF RegisterIngests, RagReconcile, Sweep
    <3>2. ASSUME ReconcileEnds PROVE jobs' = [jobs EXCEPT !["control"] = IdleJob]
      BY <3>2 DEF ReconcileEnds
    <3>4. ASSUME NEW job, jobs' = [jobs EXCEPT !["control"] = job]
          PROVE  jobs'["batch"] = jobs["batch"]
      BY <1>1, <3>4 DEF Jobs
    <3>3. CASE jobs' = jobs
      BY <3>3
    <3> QED BY <1>11, <3>1, <3>2, <3>3, <3>4, ToolFrame
  <2>2. control.op # "arm" /\ control'.op # "arm"
    <3>1. CASE RegisterIngests
      BY <3>1 DEF RegisterIngests, SlotOf
    <3>2. CASE RegisterFails \/ RagReconcile \/ ReconcileEnds \/ DropFails
      BY <3>2 DEF RegisterFails, RagReconcile, ReconcileEnds, DropFails, EndControl, FreeSlot, SlotOf, Free
    <3>3. ASSUME NEW persist \in BOOLEAN, RagRegister(persist) \/ RagDrop(persist)
          PROVE  control.op # "arm" /\ control'.op # "arm"
      BY <3>3 DEF RagRegister, RagDrop, Free
    <3> QED BY <1>11, <3>1, <3>2, <3>3
  <2>3. shared' = shared /\ revived' = revived /\ \A k \in Jobs : Rested(jobs'[k], jobs[k])
    BY <1>11, ToolSteps
  <2> QED BY <1>8, <2>1, <2>2, <2>3, <2>4 DEF Arming
<1>12. ASSUME ArmFrom("arm") PROVE Arming' /\ Watching'
  <2>1. watch' = "arming" /\ control'.op = "arm"
    BY <1>12 DEF ArmFrom, SlotOf
  <2>2. jobs'["control"].pc \in {"embed", "done"} => ~Reconciles
    BY <1>1, <1>12 DEF ArmFrom, Started, JobAt, Jobs
  <2>3. disk' = disk
    BY <1>12, ToolFrame
  <2> QED BY <2>1, <2>2, <2>3 DEF Arming, Watching, Reconciles
<1>13. ASSUME RegisterEnds, ~ArmFrom("arm") PROVE Arming' /\ Watching'
  <2>4. jobs' = [jobs EXCEPT !["control"] = IdleJob] /\ UNCHANGED <<filesVars, ds, watchVars>>
    BY <1>13 DEF RegisterEnds
  <2>5. jobs'["batch"] = jobs["batch"]
    BY <1>1, <2>4 DEF Jobs
  <2>1. UNCHANGED <<disk, torn, ds, watch, pending, missed>>
    BY <2>4 DEF filesVars, watchVars
  <2>2. control.op # "arm" /\ control'.op # "arm"
    <3>1. control.op = "first ingest" /\ EndControl
      BY <1>13 DEF RegisterEnds
    <3> QED BY <3>1 DEF EndControl, FreeSlot, SlotOf
  <2>3. shared' = shared /\ revived' = revived /\ \A k \in Jobs : Rested(jobs'[k], jobs[k])
    BY <1>13, ToolSteps
  <2> QED BY <1>8, <2>1, <2>2, <2>3, <2>5 DEF Arming
<1>14. ASSUME Armed PROVE Arming' /\ Watching'
  <2>1. /\ watch = "arming" /\ control'.op = "none" /\ watch' \in {"armed", "off"}
        /\ watch' = "armed" => jobs["control"].pc = "done"
    BY <1>14 DEF Armed, EndControl, FreeSlot, SlotOf, Arming
  <2>2. UNCHANGED <<disk, torn, ds, pending>> /\ (watch' = "armed" => missed' = missed)
    BY <1>14, ToolFrame DEF Armed, TypeOK
  <2>3. shared' = shared /\ revived' = revived /\ \A k \in Jobs : Rested(jobs'[k], jobs[k])
    BY <1>14, ToolSteps
  <2>4. ASSUME jobs["control"].pc = "done", NEW p \in Paths, Served("control", p)
        PROVE  Served("batch", p)'
    BY <2>2, <2>3, <2>4 DEF Served, Underway, Writing, StoreOpen, Embedding, Rested
  <2> QED BY <2>1, <2>2, <2>3, <2>4 DEF Arming, Watching
<1>15. ASSUME WatchDisarm PROVE Arming' /\ Watching'
  <2>1. watch' = "off" /\ control' = control /\ control.op = "none"
    BY <1>15, ToolFrame DEF WatchDisarm, Free
  <2> QED BY <2>1 DEF Arming, Watching
<1>16. CASE UNCHANGED vars
  BY <1>16 DEF vars, dropVars, Arming, Watching, Served, Underway, Writing, StoreOpen, Embedding
<1> QED
  BY <1>2, <1>3, <1>4, <1>5, <1>6, <1>7, <1>9, <1>10, <1>11, <1>12, <1>13, <1>14, <1>15, <1>16
  DEF Next, WatchArm, RegisterEnds

\* An armed watcher with nothing collected and nothing in flight, and with no
\* loss remembered, has every present file in the index as it is now, but for
\* the files and stores of the two cases of WatchedFilesAreIndexed.
THEOREM WatcherFollowsTheFiles == Spec => []WatchedFilesAreIndexed
<1>1. Init => WatchInv
  BY DEF Init, WatchInv, Arming, Watching, FreeSlot, SlotOf
<1>2. TypeOK /\ IndexInv /\ WatchInv /\ [Next]_vars => WatchInv'
  BY StepWatch
<1>3. WatchInv => WatchedFilesAreIndexed
  BY DEF WatchInv, Watching, WatchedFilesAreIndexed, Served, Underway, Writing, Embedding, Idle
<1> QED BY <1>1, <1>2, <1>3, IndexIsKept, TypeCorrect, PTL DEF Spec
=============================================================================
