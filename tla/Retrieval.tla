----------------------------- MODULE Retrieval -----------------------------
(***************************************************************************)
(* A document collection of the retrieval index: the files of its source,  *)
(* the dataset that indexes them, the watcher that follows them, and the   *)
(* rag_* tools that register, ingest, reconcile, arm, disarm and drop it   *)
(* (src/src/rag and src/src/server/rag).                                   *)
(*                                                                         *)
(* Three parties ingest: a rag_ingest call, the watcher's batch, and the   *)
(* control tool that holds the single-flight slot (its first ingest, or    *)
(* its reconcile sweep).  They meet at the dataset's lock.  rag_ingest     *)
(* does not take the slot, so a drop may pass it: the call and the batch   *)
(* of a dropped dataset go on as "first old" and "second old" beside those   *)
(* of a dataset registered anew in the same directory.                     *)
(*                                                                         *)
(* Bounds: the source files are there or not at first, with the content 1; *)
(* MaxEdits - 1 edits follow, the n-th of which writes the content n + 1   *)
(* or one that was there before.  The ingests of one dropped dataset at a  *)
(* time.  UPSERT_BATCH and the flood threshold are scaled down with the    *)
(* number of files.                                                        *)
(***************************************************************************)
EXTENDS IngestPipeline

CONSTANTS Paths,          \* the files of the source
          Present,        \* those that are there at first
          MaxEdits,
          UPSERT_BATCH,   \* 64 in the code
          FloodThreshold, \* 5000 in the code
          MaxEntries,     \* entries for the collection in saivage.json
          MaxLingering,   \* ingests a drop may pass: 2 in the code
          Nobody, Dead

OldJobs == {"first old", "second old"}
Jobs == {"tool", "batch", "control"} \cup OldJobs

\* The bounds are numbers, and what the lock says when no job has it is no job.
ASSUME BoundsAssumption == MaxEdits \in Nat \ {0} /\ MaxEntries \in Nat
ASSUME PresentAssumption == Present \subseteq Paths
ASSUME NobodyAssumption == Nobody \notin Jobs /\ Dead \notin Jobs

VARIABLES disk,     \* the content of each source file, or Absent
          edits,    \* edits so far
          ds,       \* the dataset's store and lock
          jobs,     \* where each ingest is
          watch,    \* "off", "arming" or "armed"
          pending,  \* paths the debouncer has collected
          missed,   \* a change since the watcher's sweep may have gone unseen
          control,  \* the control tool in the single-flight slot
          config,   \* entries for the collection in saivage.json
          known,    \* the manager has the collection
          revived   \* an ingest of the dropped dataset has opened its store again

\* History, for the invariants alone.
VARIABLES shared,    \* two ingests were past their walk in this store at once
          overtaken, \* a drop has passed an ingest, and one is past its walk yet
          torn       \* files that went back to the content file_state names while
                     \* an ingest of another one was under way or had been cut off

dropVars == <<revived, shared, overtaken>>
vars == <<disk, edits, torn, ds, jobs, dropVars, watch, pending, missed, control, config, known>>
storeVars  == <<ds, jobs, dropVars>>
filesVars  == <<disk, edits, torn>>
watchVars  == <<watch, pending, missed>>
manageVars == <<control, config, known>>

Versions == {Absent} \cup 1..MaxEdits
NoItems  == [p \in Paths |-> Absent]
JobAt(pc) == [pc |-> pc, items |-> NoItems, todo |-> {}, changed |-> {}]
IdleJob  == JobAt("idle")
SlotOf(op) == [op |-> op, persist |-> FALSE, saved |-> 0]
FreeSlot == SlotOf("none")

Init ==
    /\ disk = [p \in Paths |-> IF p \in Present THEN 1 ELSE Absent] /\ edits = 1
    /\ ds = EmptyDataset(Paths, Nobody)
    /\ jobs = [j \in Jobs |-> IdleJob]
    /\ watch = "off" /\ pending = {} /\ missed = FALSE
    /\ control = FreeSlot
    /\ config = 0
    /\ known = FALSE
    /\ revived = FALSE /\ shared = FALSE /\ overtaken = FALSE
    /\ torn = {}

\* The debouncer of an armed watcher.
Collected(p) == IF watch = "armed" THEN pending \cup {p} ELSE pending

Embedding(j) == jobs[j].pc = "embed"

\* The index has, or is being given, another content of p than file_state names.
HalfDone(p) == ds.chunks[p] # ds.state[p] \/ \E j \in Jobs : Embedding(j) /\ p \in jobs[j].changed

\* A file is written or removed.  An armed watcher hears of it; between the
\* sweep of an arming watcher and its first listener nobody does.
Edit(p) ==
    /\ edits < MaxEdits
    /\ edits' = edits + 1
    /\ \E v \in (1..edits \cup {edits + 1, Absent}) \ {disk[p]} :
         /\ disk' = [disk EXCEPT ![p] = v]
         /\ torn' = IF v # Absent /\ v = ds.state[p] /\ HalfDone(p) THEN torn \cup {p} ELSE torn \ {p}
    /\ pending' = Collected(p)
    /\ missed' = (missed \/ watch = "arming")
    /\ UNCHANGED <<storeVars, manageVars, watch>>

---------------------------------------------------------------------------
(* One ingest. *)

Idle(j) == jobs[j].pc = "idle"
Started == JobAt("lock")

\* A dropped dataset has no database; its ingest throws at the next use of it,
\* unless another one of the same dataset has opened the store again.
StoreOpen(j) == j \in OldJobs => revived
Writing(j) == Embedding(j) /\ StoreOpen(j)

\* What a failed ingest of j costs: the watcher's changes of that batch are
\* only logged.
Lost(j) == watch # "off" /\ (missed \/ j = "batch")

\* How an ingest of j leaves: the control tool reads how it went.
Left(j, how) == jobs' = [jobs EXCEPT ![j] = IF j = "control" THEN JobAt(how) ELSE IdleJob]

\* The lock is released by its path: whoever of this process has it loses it.
Released(lock) == IF lock \in Jobs THEN Nobody ELSE lock
StillOvertaken(j) == overtaken /\ \E k \in Jobs \ {j} : Embedding(k)
StillRevived(j) == revived /\ \E k \in OldJobs \ {j} : ~Idle(k)

\* loadFsItems: a file that cannot be read is left out, as one that is gone.
LoadFsItems(unread) == [p \in Paths |-> IF p \in unread THEN Absent ELSE disk[p]]

\* What the walk of j finds, and who else is past it in the same store.
Walk(j) ==
    /\ revived' = (revived \/ j \in OldJobs)
    /\ shared' = (shared \/ \E k \in Jobs \ {j} : Embedding(k) /\ (k \in OldJobs => revived'))
    /\ \E unread \in {{}} \cup {{p} : p \in Paths} :
         LET items == LoadFsItems(unread)
             changed == ChangedItems(ds.state, items)
         IN  /\ jobs' = [jobs EXCEPT ![j] = [pc |-> "embed", items |-> items,
                                             todo |-> changed, changed |-> changed]]
             /\ missed' = (watch # "off" /\ (missed \/ \E p \in unread : disk[p] # Absent))
    /\ ds' = [ds EXCEPT !.lock = j]
    /\ UNCHANGED <<filesVars, overtaken, watch, pending, manageVars>>

\* Mutation: any lock that is held is taken for stale.
AcquireAnyLock(j) == jobs[j].pc = "lock" /\ Walk(j)

\* runIngest: the lock, then the store is opened and the source walked, then
\* file_state is read.
AcquireAndWalk(j) == jobs[j].pc = "lock" /\ ds.lock \in {Nobody, Dead} /\ Walk(j)

\* Embed and store one batch; the batches before it are in the store already.
StoreBatch(j) ==
    /\ Writing(j)
    /\ \E batch \in SUBSET jobs[j].todo :
         /\ batch # {} /\ Cardinality(batch) <= UPSERT_BATCH
         /\ ds' = UpsertBatch(ds, jobs[j].items, batch)
         /\ jobs' = [jobs EXCEPT ![j].todo = @ \ batch]
    /\ UNCHANGED <<filesVars, dropVars, watchVars, manageVars>>

\* The rows of file_state are put once, after the last batch.
FinishIngest(j) ==
    /\ Writing(j)
    /\ jobs[j].todo = {}
    /\ LET put == PutFileState(ds, jobs[j].items, jobs[j].changed)
       IN  ds' = [chunks |-> put.chunks, state |-> put.state, lock |-> Released(ds.lock)]
    /\ Left(j, "done")
    /\ overtaken' = StillOvertaken(j) /\ revived' = StillRevived(j)
    /\ UNCHANGED <<filesVars, shared, watchVars, manageVars>>

\* The lock is held on both attempts, or its directory has gone.
Refused(j) == jobs[j].pc = "lock" /\ (ds.lock # Nobody \/ j \in OldJobs)

\* The provider fails on a batch, or the store has been dropped.
CutOff(j) == Embedding(j) /\ (jobs[j].todo # {} \/ ~StoreOpen(j))

\* Mutation: file_state is put on the way out of a failed ingest too.
IngestFailsPutsState(j) ==
    /\ CutOff(j)
    /\ LET put == PutFileState(ds, jobs[j].items, jobs[j].changed)
       IN  ds' = [chunks |-> put.chunks, state |-> put.state, lock |-> Released(ds.lock)]
    /\ Left(j, "failed")
    /\ missed' = Lost(j)
    /\ overtaken' = StillOvertaken(j) /\ revived' = StillRevived(j)
    /\ UNCHANGED <<filesVars, shared, watch, pending, manageVars>>

IngestFails(j) ==
    /\ \/ Refused(j) /\ ds' = ds
       \/ CutOff(j) /\ ds' = [ds EXCEPT !.lock = Released(@)]
    /\ Left(j, "failed")
    /\ missed' = Lost(j)
    /\ overtaken' = StillOvertaken(j) /\ revived' = StillRevived(j)
    /\ UNCHANGED <<filesVars, shared, watch, pending, manageVars>>

\* rag_ingest reads the first source and asks for nothing but the dataset.
RagIngest ==
    /\ known /\ Idle("tool")
    /\ jobs' = [jobs EXCEPT !["tool"] = Started]
    /\ UNCHANGED <<filesVars, ds, dropVars, watchVars, manageVars>>

\* The debouncer's timer: a flood is dropped, a batch re-walks the source.
\* A batch that meets the one before it still ingesting is refused its lock.
Flush ==
    /\ pending # {}
    /\ pending' = {}
    /\ IF Cardinality(pending) > FloodThreshold \/ ~Idle("batch")
       THEN missed' = TRUE /\ UNCHANGED jobs
       ELSE /\ jobs' = [jobs EXCEPT !["batch"] = Started]
            /\ UNCHANGED missed
    /\ UNCHANGED <<filesVars, ds, dropVars, watch, manageVars>>

---------------------------------------------------------------------------
(* The control tools, one at a time. *)

Free == control.op = "none"
EndControl == control' = FreeSlot

\* saveSaivageConfig, when asked for: a roll-back whose read, validation or
\* write fails is only logged.  A first save that fails ends its tool, which
\* has changed nothing yet.
RollBack(persist, entries) == config' \in IF persist THEN {entries, config} ELSE {config}
Sweep == jobs' = [jobs EXCEPT !["control"] = Started]

\* rag_register: the entry is appended to saivage.json first.
RagRegister(persist) ==
    /\ Free /\ Idle("control")
    /\ persist => config < MaxEntries
    /\ config' = config + (IF persist THEN 1 ELSE 0)
    /\ control' = [op |-> "register", persist |-> persist, saved |-> config]
    /\ UNCHANGED <<filesVars, storeVars, watchVars, known>>

\* The manager refuses (drift, a store that does not open); the rollback
\* filters the configuration by the id of the collection.
RegisterFails ==
    /\ control.op = "register"
    /\ RollBack(control.persist, 0)
    /\ EndControl
    /\ UNCHANGED <<filesVars, storeVars, watchVars, known>>

RegisterIngests ==
    /\ control.op = "register"
    /\ known' = TRUE
    /\ control' = SlotOf("first ingest")
    /\ Sweep
    /\ UNCHANGED <<filesVars, ds, dropVars, watchVars, config>>

\* reconcile compares absolute paths with the relative ones of file_state: it
\* finds every file changed and none removed, and ingests if there is a file.
Reconciles == \E p \in Paths : disk[p] # Absent

\* Mutation: the watcher is armed without a sweep.
ArmFromNow(op) ==
    /\ watch' = "arming"
    /\ missed' = FALSE
    /\ control' = SlotOf(op)
    /\ jobs' = [jobs EXCEPT !["control"] = JobAt("done")]
    /\ UNCHANGED <<filesVars, ds, dropVars, pending, config, known>>

\* watch_arm of rag_admin, or a registration with watch set: a sweep first.
ArmFrom(op) ==
    /\ watch' = "arming"
    /\ missed' = FALSE
    /\ control' = SlotOf(op)
    /\ jobs' = [jobs EXCEPT !["control"] =
                   IF Reconciles THEN Started ELSE JobAt("done")]
    /\ UNCHANGED <<filesVars, ds, dropVars, pending, config, known>>

WatchArm ==
    /\ Free /\ Idle("control") /\ known /\ watch = "off"
    /\ ArmFrom("arm")

RegisterEnds ==
    /\ control.op = "first ingest"
    /\ \/ /\ jobs["control"].pc \in {"done", "failed"}
          /\ EndControl
          /\ jobs' = [jobs EXCEPT !["control"] = IdleJob]
          /\ UNCHANGED <<filesVars, ds, dropVars, watchVars, config, known>>
       \/ /\ jobs["control"].pc = "done" /\ watch = "off"
          /\ ArmFrom("arm")

Armed ==
    /\ control.op = "arm"
    /\ jobs["control"].pc \in {"done", "failed"}
    /\ watch' = IF jobs["control"].pc = "done" THEN "armed" ELSE "off"
    /\ missed' = (watch' = "armed" /\ missed)
    /\ EndControl
    /\ jobs' = [jobs EXCEPT !["control"] = IdleJob]
    /\ UNCHANGED <<filesVars, ds, dropVars, pending, config, known>>

\* rag_admin's reconcile, whether a watcher is armed or not.
RagReconcile ==
    /\ Free /\ Idle("control") /\ known /\ Reconciles
    /\ control' = SlotOf("reconcile")
    /\ Sweep
    /\ UNCHANGED <<filesVars, ds, dropVars, watchVars, config, known>>

ReconcileEnds ==
    /\ control.op = "reconcile"
    /\ jobs["control"].pc \in {"done", "failed"}
    /\ EndControl
    /\ jobs' = [jobs EXCEPT !["control"] = IdleJob]
    /\ UNCHANGED <<filesVars, ds, dropVars, watchVars, config, known>>

\* disarm cancels the batch that is waiting.
WatchDisarm ==
    /\ Free /\ watch = "armed"
    /\ watch' = "off" /\ pending' = {} /\ missed' = FALSE
    /\ UNCHANGED <<filesVars, storeVars, manageVars>>

\* rag_drop: the entries go from saivage.json first, the old list is kept.
RagDrop(persist) ==
    /\ Free /\ Idle("control")
    /\ config' = IF persist THEN 0 ELSE config
    /\ control' = [op |-> "drop", persist |-> persist, saved |-> config]
    /\ UNCHANGED <<filesVars, storeVars, watchVars, known>>

DropFails ==
    /\ control.op = "drop"
    /\ RollBack(control.persist, control.saved)
    /\ EndControl
    /\ UNCHANGED <<filesVars, storeVars, watchVars, known>>

\* An ingest that goes on without its dataset.  Past its walk it throws with
\* what it has read, unless the other one waits to open the store again.
Lingering(j, other) ==
    IF Embedding(j) /\ jobs[other].pc # "lock" THEN JobAt("embed") ELSE jobs[j]

\* The watcher is disarmed, the store closed and its directory removed, the
\* lock of a running ingest with it.  The ingests live on in their awaits.
Drops ==
    /\ control.op = "drop" /\ known
    /\ \A j \in OldJobs : Idle(j)
    /\ Cardinality({j \in Jobs : ~Idle(j)}) <= MaxLingering
    /\ known' = FALSE
    /\ ds' = EmptyDataset(Paths, Nobody)
    /\ LET first  == IF Idle("tool") THEN "batch" ELSE "tool"
           second == IF Idle("tool") THEN "tool" ELSE "batch"
       IN  jobs' = [j \in Jobs |-> CASE j = "first old"  -> Lingering(first, second)
                                     [] j = "second old" -> Lingering(second, first)
                                     [] OTHER            -> IdleJob]
    /\ revived' = FALSE /\ shared' = FALSE /\ torn' = {}
    /\ overtaken' = (\E j \in Jobs : Embedding(j))
    /\ watch' = "off" /\ pending' = {} /\ missed' = FALSE
    /\ EndControl
    /\ UNCHANGED <<disk, edits, config>>

\* A restart has the collections of saivage.json; nothing is armed.
Crash ==
    /\ known \/ ~Free \/ \E j \in Jobs : ~Idle(j)
    /\ jobs' = [j \in Jobs |-> IdleJob]
    /\ ds' = [ds EXCEPT !.lock = IF @ \in Jobs THEN Dead ELSE @]
    /\ revived' = FALSE /\ overtaken' = FALSE
    /\ watch' = "off" /\ pending' = {} /\ missed' = FALSE
    /\ control' = FreeSlot
    /\ known' = (config > 0)
    /\ UNCHANGED <<filesVars, shared, config>>

Next ==
    \/ \E p \in Paths : Edit(p)
    \/ \E j \in Jobs : \/ AcquireAndWalk(j) \/ StoreBatch(j)
                       \/ FinishIngest(j) \/ IngestFails(j)
    \/ RagIngest \/ Flush
    \/ \E persist \in BOOLEAN : RagRegister(persist) \/ RagDrop(persist)
    \/ RegisterFails \/ RegisterIngests \/ RegisterEnds
    \/ RagReconcile \/ ReconcileEnds \/ WatchArm \/ Armed \/ WatchDisarm
    \/ DropFails \/ Drops
    \/ Crash

Spec == Init /\ [][Next]_vars

---------------------------------------------------------------------------
DatasetType == [chunks : [Paths -> Versions], state : [Paths -> Versions],
                lock : Jobs \cup {Nobody, Dead}]
JobType == [pc : {"idle", "lock", "embed", "done", "failed"}, items : [Paths -> Versions],
            todo : SUBSET Paths, changed : SUBSET Paths]
SlotType == [op : {"none", "register", "first ingest", "arm", "reconcile", "drop"},
             persist : BOOLEAN, saved : 0..MaxEntries]

TypeOK ==
    /\ disk \in [Paths -> Versions] /\ edits \in 0..MaxEdits
    /\ ds \in DatasetType /\ jobs \in [Jobs -> JobType]
    /\ watch \in {"off", "arming", "armed"}
    /\ pending \subseteq Paths /\ missed \in BOOLEAN
    /\ config \in 0..MaxEntries /\ known \in BOOLEAN /\ control \in SlotType
    /\ revived \in BOOLEAN /\ shared \in BOOLEAN /\ overtaken \in BOOLEAN
    /\ torn \subseteq Paths

\* The short cut of every ingest is sound: a file whose content is the one
\* file_state remembers has exactly that content in the index, after any
\* number of ingests that failed between two batches, crashes, drops and files
\* that went back to an earlier content.  Two cases are left out, for there the
\* code does not keep it: the content file_state names comes back while a batch
\* with another one is stored and its row is not yet put (torn); two ingests
\* were in one store, after a drop that passed a running one (shared).
SkippedFilesAreIndexed ==
    ~shared => \A p \in Paths \ torn :
        disk[p] # Absent /\ ds.state[p] = disk[p] => ds.chunks[p] = disk[p]

\* Whoever is past its walk holds the lock, and so is alone there, through
\* refused locks, failing batches, crashes and drops.  A drop that passes an
\* ingest takes its lock away with the directory, and the end of that ingest
\* frees the lock of the one that came after it: until the last of them has
\* ended nothing is claimed (overtaken).
OneIngestAtATime == ~overtaken => \A j \in Jobs : Embedding(j) => ds.lock = j

\* An armed watcher that has nothing collected and nothing in flight, and
\* met no flood, no refused or failed batch, no unreadable file and no edit
\* in the gap while it was being armed, has every present file in the index
\* with its present content; but for the two cases above.
WatchedFilesAreIndexed ==
    watch = "armed" /\ pending = {} /\ ~missed /\ Idle("batch") /\ ~shared =>
        \A p \in Paths \ torn : disk[p] # Absent => ds.chunks[p] = disk[p]

\* What the documentation promises of a sweep: when it ends and no file was
\* edited since it began, every path file_state remembers is a present file.
\* The code breaks it, for a source without a present file: no run claims it.
SweepRemoves ==
    [][control.op = "arm" /\ watch' = "armed" /\ ~missed =>
         \A p \in Paths : ds.state[p] # Absent => disk[p] # Absent]_vars
=============================================================================
