--------------------------- MODULE RuntimeTracker ---------------------------
(***************************************************************************)
(* The tracker of the agents at work and its file, tmp/state/runtime.json  *)
(* (class RuntimeTracker, src/src/runtime/recovery.ts).  Every change asks *)
(* for a write; while one is in flight only the latest snapshot waits.     *)
(* The actions leave the variables of other modules open.                  *)
(***************************************************************************)
CONSTANTS
  Stage,   \* the stages a manager may be given
  None     \* no stage, no snapshot

VARIABLES
  live,      \* what the tracker knows: is there a planner, and which stage
  pending,   \* pendingState
  inflight,  \* the snapshot being written
  frozen,    \* has the tracker been frozen?
  file       \* runtime.json

trackerVars == <<live, pending, inflight, frozen, file>>

Snapshots == [planner : BOOLEAN, stage : Stage \cup {None}]

ASSUME NoneAssumption == None \notin Snapshots

Nobody == [planner |-> FALSE, stage |-> None]

\* status "running" with a snapshot, or one of the final statuses
Running(s) == [status |-> "running", snapshot |-> s]
Final(status) == [status |-> status, snapshot |-> Nobody]
Files == [status : {"missing", "running", "idle", "error"}, snapshot : Snapshots]

TrackerTypeOK ==
  /\ live \in Snapshots
  /\ pending \in Snapshots \cup {None} /\ inflight \in Snapshots \cup {None}
  /\ frozen \in BOOLEAN
  /\ file \in Files

TrackerInit ==
  /\ live = Nobody /\ pending = None /\ inflight = None /\ frozen = FALSE
  /\ file = Final("missing")

\* A process starts with a tracker of its own; what has not reached the file
\* is gone with the old one.
NewTracker ==
  live' = Nobody /\ pending' = None /\ inflight' = None /\ frozen' = FALSE

\* flush(): the write starts at once unless one is in flight.
Flush(s) ==
  /\ live' = s
  /\ IF inflight = None THEN inflight' = s /\ UNCHANGED pending
                        ELSE pending' = s /\ UNCHANGED inflight
  /\ UNCHANGED <<frozen, file>>

\* setCurrentStage, agentStarted, agentStopped: a frozen tracker ignores them.
Track(s) == IF frozen THEN UNCHANGED trackerVars ELSE Flush(s)

\* Mutation: drain() writes one snapshot and stops.
WriteLandsOnce ==
  /\ inflight # None
  /\ file' = Running(inflight)
  /\ inflight' = None
  /\ UNCHANGED <<live, pending, frozen>>

\* drain(): the file is renamed into place and the loop goes on.
WriteLands ==
  /\ inflight # None
  /\ file' = Running(inflight)
  /\ IF pending # None /\ ~frozen
       THEN inflight' = pending /\ pending' = None
       ELSE inflight' = None /\ UNCHANGED pending
  /\ UNCHANGED <<live, frozen>>

\* Between two writes the file is what the tracker knows, so a crash leaves
\* the stage of the running manager to recovery.
FileFollowsTracker == ~frozen /\ inflight = None => file = Running(live)
=============================================================================
