---------------------------- MODULE RuntimeLock ----------------------------
(***************************************************************************)
(* The project lock .saivage/tmp/state/runtime.lock that a bootstrap takes *)
(* (src/src/runtime/runtime-lock.ts).  A process is named by its pid, and  *)
(* every system call of acquireRuntimeLock is a step of its own, since the *)
(* contenders are separate operating-system processes.  They are of one    *)
(* user: the probe counts every error as a dead owner, so that a project   *)
(* shared by two users, where it fails with EPERM, has no lock between     *)
(* them (runtime-lock.ts:92-95).                                           *)
(***************************************************************************)
EXTENDS FiniteSets

CONSTANTS
  Proc,      \* the pids the operating system hands out
  NoFile,    \* runtime.lock does not exist
  Overlap,   \* may two processes be inside acquireRuntimeLock at once?
  MayAge     \* may a lock file outlive the 14 day horizon?

ASSUME SwitchesAssumption == {Overlap, MayAge} \subseteq BOOLEAN

\* What open(path, "wx") creates.  `written` is FALSE until the pid has been
\* written into it; `aged` says that its started_at is past the horizon.
LockFile == [creator : Proc, written : BOOLEAN, aged : BOOLEAN]

ASSUME NoFileAssumption == NoFile \notin LockFile

Phases == {"off", "create", "write", "read", "check", "unlink", "retry",
           "held", "refused", "released"}

VARIABLES
  file,   \* the lock file on disk
  pc,     \* where the process with this pid is; "off": no such process
  seen,   \* the lock file as the process last read it
  expired \* has any lock outlived the horizon? (history variable)

vars == <<file, pc, seen, expired>>

TypeOK ==
  /\ file \in LockFile \cup {NoFile}
  /\ pc \in [Proc -> Phases]
  /\ seen \in [Proc -> LockFile \cup {NoFile}]
  /\ expired \in BOOLEAN

-----------------------------------------------------------------------------
\* process.kill(pid, 0) succeeds for a process of the same user.
Alive(p) == pc[p] # "off"

\* The processes that have created the file and not yet given it up.
Owning(p) == pc[p] \in {"write", "held"}
Holders == {p \in Proc : pc[p] = "held"}

\* The processes inside acquireRuntimeLock.
Acquiring(p) == pc[p] \in {"create", "write", "read", "check", "unlink", "retry"}

Fresh(p) == [creator |-> p, written |-> FALSE, aged |-> FALSE]

Goto(p, phase) == pc' = [pc EXCEPT ![p] = phase]

Init ==
  /\ file = NoFile
  /\ pc = [p \in Proc |-> "off"]
  /\ seen = [p \in Proc |-> NoFile]
  /\ expired = FALSE

\* A process (perhaps one that reuses the pid of an earlier one) is launched.
Start(p) ==
  /\ pc[p] = "off"
  /\ Overlap \/ \A q \in Proc : ~Acquiring(q)
  /\ Goto(p, "create")
  /\ UNCHANGED <<file, seen, expired>>

\* Mutation: the file is opened without O_EXCL.
TryCreateShared(p, busy) ==
  /\ file' = Fresh(p)
  /\ Goto(p, "write")
  /\ UNCHANGED <<seen, expired>>

\* tryCreate: the exclusive create; `busy` is where EEXIST leads.
TryCreate(p, busy) ==
  \/ /\ file = NoFile
     /\ file' = Fresh(p)
     /\ Goto(p, "write")
     /\ UNCHANGED <<seen, expired>>
  \/ /\ file # NoFile
     /\ Goto(p, busy)
     /\ UNCHANGED <<file, seen, expired>>

\* Mutation: the first attempt waits until the file is gone.
FirstCreateWaiting(p) == pc[p] = "create" /\ TryCreate(p, "create")

FirstCreate(p) == pc[p] = "create" /\ TryCreate(p, "read")

SecondCreate(p) == pc[p] = "retry" /\ TryCreate(p, "refused")

\* writeFileSync on the descriptor: it reaches the file on disk only while
\* nobody has unlinked it.
WritePid(p) ==
  /\ pc[p] = "write"
  /\ file' = IF file # NoFile /\ file.creator = p
               THEN [file EXCEPT !.written = TRUE]
               ELSE file
  /\ Goto(p, "held")
  /\ UNCHANGED <<seen, expired>>

\* readRuntimeLock after EEXIST: a vanished file counts as stale, an
\* unwritten one is malformed and ends the attempt.
ReadOwner(p) ==
  /\ pc[p] = "read"
  /\ seen' = [seen EXCEPT ![p] = file]
  /\ \/ file = NoFile /\ Goto(p, "unlink")
     \/ file # NoFile /\ ~file.written /\ Goto(p, "refused")
     \/ file # NoFile /\ file.written /\ Goto(p, "check")
  /\ UNCHANGED <<file, expired>>

\* Mutation: only the age is looked at, and the comparison is inverted.
StaleWhenRecent(lock) == ~Alive(lock.creator) \/ ~lock.aged

\* The recorded pid is dead, or the record is past the horizon.
Stale(lock) == ~Alive(lock.creator) \/ lock.aged

CheckOwner(p) ==
  /\ pc[p] = "check"
  /\ Goto(p, IF Stale(seen[p]) THEN "unlink" ELSE "refused")
  /\ UNCHANGED <<file, seen, expired>>

\* unlinkSync(lockPath), errors ignored: whatever is there now is removed.
UnlinkStale(p) ==
  /\ pc[p] = "unlink"
  /\ file' = NoFile
  /\ Goto(p, "retry")
  /\ UNCHANGED <<seen, expired>>

\* The releaser: unlinks the path without looking at the owner.
Release(p) ==
  /\ pc[p] = "held"
  /\ file' = NoFile
  /\ Goto(p, "released")
  /\ UNCHANGED <<seen, expired>>

\* A refused process, or one that has shut down, exits.
Exit(p) ==
  /\ pc[p] \in {"refused", "released"}
  /\ Goto(p, "off")
  /\ UNCHANGED <<file, seen, expired>>

\* A process is killed; what it left on disk stays.
Crash(p) ==
  /\ pc[p] # "off"
  /\ Goto(p, "off")
  /\ UNCHANGED <<file, seen, expired>>

\* Two weeks pass over a written lock file.
AgeOut ==
  /\ MayAge
  /\ file # NoFile /\ file.written /\ ~file.aged
  /\ file' = [file EXCEPT !.aged = TRUE]
  /\ expired' = TRUE
  /\ UNCHANGED <<pc, seen>>

Acquire(p) ==
  \/ FirstCreate(p) \/ WritePid(p) \/ ReadOwner(p)
  \/ CheckOwner(p) \/ UnlinkStale(p) \/ SecondCreate(p)

Next ==
  \/ \E p \in Proc : Start(p) \/ Acquire(p) \/ Release(p) \/ Exit(p) \/ Crash(p)
  \/ AgeOut

\* Code that is running keeps running; nothing obliges a process to start,
\* to release or to crash.
Fairness == \A p \in Proc : WF_vars(Acquire(p)) /\ WF_vars(Exit(p))

Spec == Init /\ [][Next]_vars /\ Fairness

-----------------------------------------------------------------------------
(* Properties *)

\* At most one process believes it holds the project: the claim of the comment
\* on acquireRuntimeLock, "two concurrent bootstraps cannot both succeed".
MutualExclusion == \A p, q \in Holders : p = q

\* A process that holds the lock is the one the file on disk names, so that
\* assertRuntimeLockHeld succeeds for it: nobody unlinked or replaced its file.
HolderIsNamed ==
  \A p \in Holders : file # NoFile /\ file.creator = p /\ file.written

\* Until a first lock is past the horizon one process at most holds the project,
\* and the file names it, whatever was taken over before.
ExclusiveUnlessExpired == expired \/ (MutualExclusion /\ HolderIsNamed)

\* acquireRuntimeLock never takes over from a process that is up and whose lock
\* is recent: an unlink during acquisition that hits the file of a process
\* still owning it hits one past the horizon.
NoLiveTakeover ==
  [][\A p, q \in Proc :
       (UnlinkStale(p) /\ file # NoFile /\ file.creator = q /\ Owning(q))
         => file.aged]_vars

\* Every attempt ends, with the lock or with a refusal; it never waits.
AttemptEnds == \A p \in Proc : Acquiring(p) ~> ~Acquiring(p)
=============================================================================
