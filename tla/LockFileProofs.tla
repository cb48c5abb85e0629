--------------------------- MODULE LockFileProofs ----------------------------
(* The two lock files, for any processes and tasks: that of the runtime, and  *)
(* that of the auth store, whose keys the model calls of the router use.      *)
EXTENDS RuntimeLock, ModelRouter, SequenceTheorems, WellFoundedInduction, TLAPS

(***************************************************************************)
(* The types are inductive on their own.                                   *)
(***************************************************************************)

\* What the exclusive create puts on disk: a file of its creator, not yet
\* written and not past the horizon.
LEMMA FreshFile ==
  ASSUME NEW p \in Proc
  PROVE  /\ Fresh(p) \in LockFile
         /\ Fresh(p).creator = p /\ ~Fresh(p).written /\ ~Fresh(p).aged
BY DEF Fresh, LockFile

\* A step of acquireRuntimeLock, of the releaser or of the environment keeps
\* the types of the lock file and of the processes' control states.
LEMMA TypeStep == TypeOK /\ [Next]_vars => TypeOK'
<1> SUFFICES ASSUME TypeOK, [Next]_vars PROVE TypeOK'
  OBVIOUS
<1> USE NoFileAssumption DEF TypeOK, Goto, LockFile, Phases
<1>1. ASSUME NEW p \in Proc, Start(p) PROVE TypeOK'
  BY <1>1 DEF Start
<1>2. ASSUME NEW p \in Proc, FirstCreate(p) PROVE TypeOK'
  BY <1>2, FreshFile DEF FirstCreate, TryCreate
<1>3. ASSUME NEW p \in Proc, WritePid(p) PROVE TypeOK'
  BY <1>3 DEF WritePid
<1>4. ASSUME NEW p \in Proc, ReadOwner(p) PROVE TypeOK'
  BY <1>4 DEF ReadOwner
<1>5. ASSUME NEW p \in Proc, CheckOwner(p) PROVE TypeOK'
  BY <1>5 DEF CheckOwner
<1>6. ASSUME NEW p \in Proc, UnlinkStale(p) PROVE TypeOK'
  BY <1>6 DEF UnlinkStale
<1>7. ASSUME NEW p \in Proc, SecondCreate(p) PROVE TypeOK'
  BY <1>7, FreshFile DEF SecondCreate, TryCreate
<1>8. ASSUME NEW p \in Proc, Release(p) \/ Exit(p) \/ Crash(p) PROVE TypeOK'
  BY <1>8 DEF Release, Exit, Crash
<1>9. ASSUME AgeOut PROVE TypeOK'
  BY <1>9 DEF AgeOut
<1>10. ASSUME UNCHANGED vars PROVE TypeOK'
  BY <1>10 DEF vars
<1> QED
  BY <1>1, <1>2, <1>3, <1>4, <1>5, <1>6, <1>7, <1>8, <1>9, <1>10 DEF Next, Acquire

\* Every reachable state of the lock protocol is well typed.
THEOREM TypeCorrect == Spec => []TypeOK
<1>1. Init => TypeOK
  BY DEF Init, TypeOK, Phases
<1> QED
  BY <1>1, TypeStep, PTL DEF Spec

(***************************************************************************)
(* Launches that do not overlap.  What makes mutual exclusion inductive is *)
(* that the one process that can be acquiring decides on a file that only  *)
(* its owner can still remove: once it has judged the lock stale nobody    *)
(* owns it, and nobody can come to own it before the process itself does.  *)
(***************************************************************************)

\* At most one process is inside acquireRuntimeLock.
OneAcquirer == \A p, q \in Proc : Acquiring(p) /\ Acquiring(q) => p = q

\* The file of an owner is on disk and names it.
OwnersFile ==
  \A p \in Proc : Owning(p) =>
    /\ file # NoFile /\ file.creator = p /\ ~file.aged
    /\ pc[p] = "held" => file.written

\* A process about to judge has read the owner's file, if there is an owner.
SawTheOwner ==
  \A p, q \in Proc : pc[p] = "check" /\ Owning(q) =>
    seen[p] # NoFile /\ seen[p].creator = q /\ ~seen[p].aged

\* A process that has judged the lock stale has no owner to displace.
NoOwnerToDisplace ==
  \A p, q \in Proc : pc[p] \in {"unlink", "retry"} => ~Owning(q)

SerialInv ==
  /\ TypeOK /\ OneAcquirer
  /\ expired \/ (OwnersFile /\ SawTheOwner /\ NoOwnerToDisplace)

\* A step keeps the strengthened invariant when launches do not overlap.
LEMMA SerialStep ==
  ASSUME Overlap = FALSE
  PROVE  SerialInv /\ [Next]_vars => SerialInv'
<1> SUFFICES ASSUME SerialInv, [Next]_vars PROVE SerialInv'
  OBVIOUS
<1>0. TypeOK'
  BY TypeStep DEF SerialInv
<1> DEFINE Rest == OneAcquirer /\ (expired \/ (OwnersFile /\ SawTheOwner /\ NoOwnerToDisplace))
<1>t. pc \in [Proc -> Phases] /\ seen \in [Proc -> LockFile \cup {NoFile}]
      /\ file \in LockFile \cup {NoFile} /\ expired \in BOOLEAN
  BY DEF SerialInv, TypeOK
<1> USE NoFileAssumption, <1>t DEF SerialInv, OneAcquirer, OwnersFile, SawTheOwner,
      NoOwnerToDisplace, Acquiring, Owning, Goto, LockFile
<1>1. ASSUME NEW p \in Proc, Start(p) PROVE Rest'
  BY <1>1 DEF Start
<1>2. ASSUME NEW p \in Proc, FirstCreate(p) PROVE Rest'
  BY <1>2, FreshFile DEF FirstCreate, TryCreate
<1>3. ASSUME NEW p \in Proc, WritePid(p) PROVE Rest'
  <2>1. OneAcquirer'
    BY <1>3 DEF WritePid
  <2>2. expired \/ OwnersFile'
    BY <1>3 DEF WritePid
  <2>3. expired \/ SawTheOwner'
    BY <1>3 DEF WritePid
  <2>4. expired \/ NoOwnerToDisplace'
    BY <1>3 DEF WritePid
  <2>5. expired' = expired
    BY <1>3 DEF WritePid
  <2> QED BY <2>1, <2>2, <2>3, <2>4, <2>5
<1>4. ASSUME NEW p \in Proc, ReadOwner(p) PROVE Rest'
  BY <1>4 DEF ReadOwner
<1>5. ASSUME NEW p \in Proc, CheckOwner(p) PROVE Rest'
  BY <1>5 DEF CheckOwner, Stale, Alive
<1>6. ASSUME NEW p \in Proc, UnlinkStale(p) PROVE Rest'
  BY <1>6 DEF UnlinkStale
<1>7. ASSUME NEW p \in Proc, SecondCreate(p) PROVE Rest'
  BY <1>7, FreshFile DEF SecondCreate, TryCreate
<1>8. ASSUME NEW p \in Proc, Release(p) PROVE Rest'
  BY <1>8 DEF Release
<1>9. ASSUME NEW p \in Proc, Exit(p) \/ Crash(p) PROVE Rest'
  BY <1>9 DEF Exit, Crash
<1>10. ASSUME AgeOut PROVE Rest'
  BY <1>10 DEF AgeOut
<1>11. ASSUME UNCHANGED vars PROVE Rest'
  BY <1>11 DEF vars
<1> QED
  BY <1>0, <1>1, <1>2, <1>3, <1>4, <1>5, <1>6, <1>7, <1>8, <1>9, <1>10, <1>11
  DEF Next, Acquire

\* With launches that do not overlap, one process at most holds the project until
\* a lock outlives the horizon, through any number of crashes, releases,
\* takeovers of dead owners' locks and reuses of pids.
THEOREM SerialMutualExclusion ==
  ASSUME Overlap = FALSE
  PROVE  Spec => []ExclusiveUnlessExpired
<1>1. Init => SerialInv
  BY DEF Init, SerialInv, TypeOK, Phases, OneAcquirer, OwnersFile, SawTheOwner,
     NoOwnerToDisplace, Acquiring, Owning
<1>2. SerialInv /\ [Next]_vars => SerialInv'
  BY SerialStep
<1>3. SerialInv => ExclusiveUnlessExpired
  BY DEF SerialInv, OwnersFile, Owning, ExclusiveUnlessExpired, MutualExclusion,
     HolderIsNamed, Holders
<1> QED
  BY <1>1, <1>2, <1>3, PTL DEF Spec

(***************************************************************************)
(* Takeovers.  While launches do not overlap, what a process has read is   *)
(* the file still, but for its age, for as long as there is one; so the    *)
(* file it removes is the one it has judged, also after a first lock has   *)
(* outlived the horizon, when SerialInv says nothing.                      *)
(***************************************************************************)

\* What a process is about to judge is the file, if there still is one.
JudgesTheFile ==
  \A p \in Proc : pc[p] = "check" /\ file # NoFile =>
    seen[p] # NoFile /\ seen[p].creator = file.creator /\ (seen[p].aged => file.aged)

\* A file about to be removed has no live owner or is past the horizon.
RemovesTheJudged ==
  \A p \in Proc : pc[p] = "unlink" /\ file # NoFile => ~Owning(file.creator) \/ file.aged

TakeoverInv == TypeOK /\ OneAcquirer /\ JudgesTheFile /\ RemovesTheJudged

\* A step keeps the judgements true when launches do not overlap.
LEMMA TakeoverStep ==
  ASSUME Overlap = FALSE
  PROVE  TakeoverInv /\ [Next]_vars => TakeoverInv'
<1> SUFFICES ASSUME TakeoverInv, [Next]_vars PROVE TakeoverInv'
  OBVIOUS
<1>0. TypeOK'
  BY TypeStep DEF TakeoverInv
<1> DEFINE Rest == OneAcquirer /\ JudgesTheFile /\ RemovesTheJudged
<1>t. pc \in [Proc -> Phases] /\ seen \in [Proc -> LockFile \cup {NoFile}]
      /\ file \in LockFile \cup {NoFile}
  BY DEF TakeoverInv, TypeOK
<1> USE NoFileAssumption, <1>t DEF TakeoverInv, OneAcquirer, JudgesTheFile, RemovesTheJudged,
      Acquiring, Owning, Goto, LockFile
<1>1. ASSUME NEW p \in Proc, Start(p) PROVE Rest'
  BY <1>1 DEF Start
<1>2. ASSUME NEW p \in Proc, FirstCreate(p) PROVE Rest'
  BY <1>2, FreshFile DEF FirstCreate, TryCreate
<1>3. ASSUME NEW p \in Proc, WritePid(p) PROVE Rest'
  BY <1>3 DEF WritePid
<1>4. ASSUME NEW p \in Proc, ReadOwner(p) PROVE Rest'
  BY <1>4 DEF ReadOwner
<1>5. ASSUME NEW p \in Proc, CheckOwner(p) PROVE Rest'
  BY <1>5 DEF CheckOwner, Stale, Alive
<1>6. ASSUME NEW p \in Proc, UnlinkStale(p) PROVE Rest'
  BY <1>6 DEF UnlinkStale
<1>7. ASSUME NEW p \in Proc, SecondCreate(p) PROVE Rest'
  BY <1>7, FreshFile DEF SecondCreate, TryCreate
<1>8. ASSUME NEW p \in Proc, Release(p) PROVE Rest'
  BY <1>8 DEF Release
<1>9. ASSUME NEW p \in Proc, Exit(p) \/ Crash(p) PROVE Rest'
  BY <1>9 DEF Exit, Crash
<1>10. ASSUME AgeOut PROVE Rest'
  BY <1>10 DEF AgeOut
<1>11. ASSUME UNCHANGED vars PROVE Rest'
  BY <1>11 DEF vars
<1> QED
  BY <1>0, <1>1, <1>2, <1>3, <1>4, <1>5, <1>6, <1>7, <1>8, <1>9, <1>10, <1>11
  DEF Next, Acquire

\* With launches that do not overlap, an acquisition only ever removes the file
\* of a process that still owns it when that file is past the horizon.
THEOREM OnlyExpiredLocksAreTakenOver ==
  ASSUME Overlap = FALSE
  PROVE  Spec => NoLiveTakeover
<1>1. Init => TakeoverInv
  BY DEF Init, TakeoverInv, TypeOK, Phases, OneAcquirer, JudgesTheFile, RemovesTheJudged, Acquiring
<1>2. TakeoverInv /\ [Next]_vars => TakeoverInv'
  BY TakeoverStep
<1>3. TakeoverInv =>
        \A p, q \in Proc :
          (UnlinkStale(p) /\ file # NoFile /\ file.creator = q /\ Owning(q)) => file.aged
  BY DEF TakeoverInv, RemovesTheJudged, UnlinkStale
<1> QED
  BY <1>1, <1>2, <1>3, PTL DEF Spec, NoLiveTakeover

(***************************************************************************)
(* The lock of the auth store.  Reclaiming a stale lock goes by path, and  *)
(* so may remove that of a live holder; until that has happened, the actor *)
(* between creating the lock file and removing it is the one it names.     *)
(***************************************************************************)

\* Between creating the lock file and removing it.
Locked(t) == task[t].pc \in {"meta", "reload", "write", "unlock"}

\* The lock file is that of whoever works under it, and what a holder has read
\* is still the file.
HolderNamed ==
  ~stolen => \A t \in Actor : Locked(t) => lock # None /\ lock.by = t
ReadIsCurrent ==
  ~stolen => \A t \in Actor : task[t].pc = "write" => task[t].seen = store

\* A command that has ended, or was killed, does nothing.
DeadIsIdle == ~cliAlive => task[Cli].pc = "idle"

\* Whoever wants the lock has something to write, and tokens where it refreshes.
Prepared(d) ==
  /\ d.pc \in {"load", "refresh"} => d.op = "key"
  /\ d.pc = "refresh" => d.p \in Profile /\ d.seen \in Tokens
  /\ d.pc \in {"lock", "reclaim", "meta", "reload", "write"} =>
       d.p \in Profile /\ d.op # "none" /\ (d.op = "key" => d.new \in Tokens)
  /\ d.pc = "write" => d.seen \in File
AllPrepared == \A t \in Actor : Prepared(task[t])

AuthInv ==
  /\ AuthTypeOK /\ AllPrepared /\ DeadIsIdle
  /\ HolderNamed /\ ReadIsCurrent /\ NoLostUpdate

\* What actors come to do next.
LEMMA Doings ==
  /\ Idle \in Doing /\ Idle.pc = "idle"
  /\ \A want \in Profile \cup {None} : /\ Ask(want) \in Doing /\ Ask(want).pc = "load" /\ Ask(want).op = "key"
                                       /\ [Idle EXCEPT !.pc = "answered", !.p = want] \in Doing
                                       /\ [Idle EXCEPT !.pc = "answered", !.p = want].pc = "answered"
  /\ \A op \in {"login", "logout"}, p \in Profile :
       LET d == [Idle EXCEPT !.pc = "lock", !.op = op, !.p = p]
       IN d \in Doing /\ d.pc = "lock" /\ d.op = op /\ d.p = p
BY DEF Idle, Ask, Doing

\* An actor that moves on: to the next step, to the refresh of a profile's
\* tokens, to the lock with the new ones, to the write with the file it has read.
MovedTo(d, to) == [d EXCEPT !.pc = to]
Refreshing(d, p, tokens) == [d EXCEPT !.pc = "refresh", !.p = p, !.seen = tokens]
Provided(d, tokens) == [d EXCEPT !.pc = "lock", !.seen = None, !.new = tokens]
Writing(d, f) == [d EXCEPT !.pc = "write", !.seen = f]

LEMMA Moving ==
  ASSUME NEW d \in Doing
  PROVE  /\ \A to \in {"lock", "reclaim", "meta", "reload", "unlock"} :
              LET e == MovedTo(d, to)
              IN e \in Doing /\ e.pc = to /\ e.op = d.op /\ e.p = d.p /\ e.new = d.new
         /\ \A p \in Profile, tokens \in Tokens :
              LET e == Refreshing(d, p, tokens)
              IN e \in Doing /\ e.pc = "refresh" /\ e.op = d.op /\ e.p = p /\ e.seen = tokens
         /\ \A tokens \in Tokens :
              LET e == Provided(d, tokens)
              IN e \in Doing /\ e.pc = "lock" /\ e.op = d.op /\ e.p = d.p /\ e.new = tokens
         /\ \A f \in File :
              LET e == Writing(d, f)
              IN e \in Doing /\ e.pc = "write" /\ e.op = d.op /\ e.p = d.p /\ e.new = d.new /\ e.seen = f
<1>1. \A to \in {"lock", "reclaim", "meta", "reload", "unlock"} :
        LET e == MovedTo(d, to)
        IN e \in Doing /\ e.pc = to /\ e.op = d.op /\ e.p = d.p /\ e.new = d.new
  BY DEF Doing, MovedTo
<1>2. \A p \in Profile, tokens \in Tokens :
        LET e == Refreshing(d, p, tokens)
        IN e \in Doing /\ e.pc = "refresh" /\ e.op = d.op /\ e.p = p /\ e.seen = tokens
  BY DEF Doing, Refreshing
<1>3. \A tokens \in Tokens :
        LET e == Provided(d, tokens)
        IN e \in Doing /\ e.pc = "lock" /\ e.op = d.op /\ e.p = d.p /\ e.new = tokens
  BY DEF Doing, Provided
<1>4. \A f \in File :
        LET e == Writing(d, f)
        IN e \in Doing /\ e.pc = "write" /\ e.op = d.op /\ e.p = d.p /\ e.new = d.new /\ e.seen = f
  BY DEF Doing, Writing
<1> QED BY <1>1, <1>2, <1>3, <1>4, Zenon

\* One actor goes on to d.
Goes(t, d) == task' = [task EXCEPT ![t] = d]

\* The others stay where they are.
LEMMA GoesOn ==
  ASSUME AuthTypeOK, AllPrepared, NEW t \in Actor, NEW d \in Doing, Prepared(d), Goes(t, d)
  PROVE  /\ task' \in [Actor -> Doing] /\ AllPrepared'
         /\ task'[t] = d /\ \A u \in Actor \ {t} : task'[u] = task[u]
<1>1. task \in [Actor -> Doing]
  BY DEF AuthTypeOK
<1>2. /\ task' \in [Actor -> Doing]
      /\ task'[t] = d /\ \A u \in Actor \ {t} : task'[u] = task[u]
  BY <1>1 DEF Goes
<1>3. AllPrepared'
  BY <1>2 DEF AllPrepared, Prepared
<1> QED BY <1>2, <1>3

\* A step of one actor that leaves the files alone, and does not come to the
\* lock or to what it writes.
LEMMA QuietStep ==
  ASSUME AuthInv, NEW t \in Actor, NEW d \in Doing, Prepared(d), Goes(t, d),
         UNCHANGED <<store, lock, last, stolen>>, oldest' \in [Profile -> 0 .. MaxGen],
         cliAlive' \in BOOLEAN, cliAlive => cliAlive' \/ (t = Cli /\ d.pc = "idle"), cliAlive' => cliAlive,
         t = Cli => cliAlive \/ d.pc = "idle",
         d.pc \in {"meta", "reload", "write", "unlock"} => Locked(t),
         d.pc = "write" => d.seen = store
  PROVE  AuthInv'
<1>1. /\ task' \in [Actor -> Doing] /\ AllPrepared'
      /\ task'[t] = d /\ \A u \in Actor \ {t} : task'[u] = task[u]
  BY GoesOn DEF AuthInv
<1>2. AuthTypeOK'
  BY <1>1 DEF AuthInv, AuthTypeOK
<1>3. DeadIsIdle'
  BY <1>1 DEF AuthInv, DeadIsIdle, Actor
<1>4. HolderNamed'
  BY <1>1 DEF AuthInv, HolderNamed, Locked
<1>5. ReadIsCurrent'
  BY <1>1 DEF AuthInv, ReadIsCurrent
<1>6. NoLostUpdate'
  BY DEF AuthInv, NoLostUpdate
<1> QED BY <1>1, <1>2, <1>3, <1>4, <1>5, <1>6 DEF AuthInv

\* The same for a step that removes the lock file, whoever made it.
LEMMA RemovingStep ==
  ASSUME AuthInv, NEW t \in Actor, NEW d \in Doing, Prepared(d), Goes(t, d), RemoveLock(t),
         UNCHANGED <<store, oldest, last>>,
         cliAlive' \in BOOLEAN, cliAlive => cliAlive' \/ (t = Cli /\ d.pc = "idle"), cliAlive' => cliAlive,
         t = Cli => cliAlive \/ d.pc = "idle",
         d.pc \notin {"meta", "reload", "write", "unlock"}
  PROVE  AuthInv'
<1>1. /\ task' \in [Actor -> Doing] /\ AllPrepared'
      /\ task'[t] = d /\ \A u \in Actor \ {t} : task'[u] = task[u]
  BY GoesOn DEF AuthInv
<1>2. lock' = None /\ stolen' = (stolen \/ (lock # None /\ lock.by # t /\ IsAlive(lock.by)))
  BY DEF RemoveLock
<1>3. AuthTypeOK'
  BY <1>1, <1>2 DEF AuthInv, AuthTypeOK
<1>4. DeadIsIdle'
  BY <1>1 DEF AuthInv, DeadIsIdle, Actor
<1>5. ASSUME ~stolen', NEW u \in Actor, u # t PROVE ~Locked(u)
  <2>1. Locked(u) => IsAlive(u)
    BY DEF AuthInv, DeadIsIdle, Locked, IsAlive
  <2>2. Locked(u) => lock # None /\ lock.by = u
    BY <1>2, <1>5 DEF AuthInv, HolderNamed
  <2> QED BY <1>2, <1>5, <2>1, <2>2
<1>6. HolderNamed'
  BY <1>1, <1>5 DEF HolderNamed, Locked
<1>7. ReadIsCurrent'
  BY <1>1, <1>5 DEF ReadIsCurrent, Locked
<1>8. NoLostUpdate'
  BY <1>2 DEF AuthInv, NoLostUpdate
<1> QED BY <1>1, <1>3, <1>4, <1>6, <1>7, <1>8 DEF AuthInv

\* The profile a request is about is in the file.
LEMMA EntryIsPresent ==
  ASSUME AuthTypeOK, NEW want \in Profile \cup {None}, Entry(want) # None
  PROVE  Entry(want) \in Profile /\ store[Entry(want)] \in Tokens
<1> DEFINE present == {i \in DOMAIN Order : store[Order[i]] # None}
<1>1. \A p \in Profile : store[p] # None => store[p] \in Tokens
  BY DEF AuthTypeOK, File
<1>2. CASE want # None
  BY <1>1, <1>2 DEF Entry
<1>3. CASE want = None
  <2>1. present # {}
    BY <1>3 DEF Entry
  <2>2. \E i \in present : \A j \in present : i <= j
    <3>1. present \subseteq Nat
      BY OrderAssumption
    <3> HIDE DEF present
    <3>2. PICK i \in present : \A j \in present : <<j, i>> \notin OpToRel(<, Nat)
      BY <2>1, <3>1, WFMin, NatLessThanWellFounded, Zenon
    <3>3. \A j \in present : ~(j < i)
      BY <3>1, <3>2, Zenon DEF OpToRel
    <3> QED BY <3>1, <3>3
  <2>3. Entry(want) = Order[CHOOSE i \in present : \A j \in present : i <= j]
    BY <1>3, <2>1 DEF Entry
  <2>4. PICK i \in present : Entry(want) = Order[i]
    BY <2>2, <2>3
  <2> QED BY <1>1, <2>4, OrderAssumption
<1> QED BY <1>2, <1>3

\* Before the lock: fetching a key, finding it expired, asking for another.
LEMMA KeySteps ==
  ASSUME AuthInv, NEW t \in Actor, IsAlive(t), LoadProfiles(t) \/ RefreshToken(t)
  PROVE  AuthInv'
<1>1. task[t] \in Doing /\ Prepared(task[t]) /\ store \in File /\ oldest \in [Profile -> 0 .. MaxGen]
      /\ cliAlive \in BOOLEAN
  BY DEF AuthInv, AuthTypeOK, AllPrepared
<1>2. t = Cli => cliAlive
  BY DEF IsAlive
<1>3. ASSUME NEW p \in Profile \cup {None}, Answer(t, p), UNCHANGED fileVars PROVE AuthInv'
  <2> DEFINE d == [Idle EXCEPT !.pc = "answered", !.p = p]
  <2>1. d \in Doing /\ d.pc = "answered" /\ Goes(t, d)
    BY <1>3, Doings DEF Answer, Become, Goes
  <2> HIDE DEF d
  <2>2. Prepared(d)
    BY <2>1 DEF Prepared
  <2> QED BY <1>1, <1>2, <1>3, <2>1, <2>2, QuietStep DEF fileVars
<1>4. ASSUME LoadProfiles(t) PROVE AuthInv'
  <2> DEFINE p == Entry(task[t].p)
  <2>1. UNCHANGED fileVars
    BY <1>4 DEF LoadProfiles, fileVars
  <2>2. task[t].pc = "load" /\ task[t].op = "key"
    BY <1>1, <1>4 DEF LoadProfiles, At, Prepared
  <2>6. task[t].p \in Profile \cup {None}
    BY <1>1 DEF Doing
  <2>5. p # None => p \in Profile /\ store[p] \in Tokens
    BY <2>6, EntryIsPresent DEF AuthInv
  <2>3. \/ Answer(t, None)
        \/ p \in Profile /\ Answer(t, p)
        \/ p \in Profile /\ Goes(t, Refreshing(task[t], p, store[p]))
    BY <1>4, <2>5 DEF LoadProfiles, Become, Goes, Refreshing
  <2> HIDE DEF p
  <2>4. ASSUME NEW q \in Profile, NEW tokens \in Tokens,
               Goes(t, Refreshing(task[t], q, tokens))
        PROVE  AuthInv'
    <3> DEFINE d == Refreshing(task[t], q, tokens)
    <3>1. d \in Doing /\ d.pc = "refresh" /\ d.op = task[t].op /\ d.p = q /\ d.seen = tokens
      BY <1>1, Moving
    <3>2. Goes(t, d)
      BY <2>4
    <3> HIDE DEF d
    <3>3. Prepared(d)
      BY <2>2, <2>4, <3>1 DEF Prepared
    <3> QED BY <1>1, <1>2, <2>1, <3>1, <3>2, <3>3, QuietStep DEF fileVars
  <2> QED BY <1>3, <2>1, <2>3, <2>4, <2>5, CliAssumption
<1>5. ASSUME RefreshToken(t) PROVE AuthInv'
  <2>1. UNCHANGED fileVars /\ task[t].pc = "refresh"
    BY <1>5 DEF RefreshToken, At, fileVars
  <2>2. task[t].p \in Profile /\ task[t].seen \in Tokens /\ task[t].op = "key"
    BY <1>1, <2>1 DEF Prepared
  <2> DEFINE tokens == [task[t].seen EXCEPT !.gen = oldest[task[t].p]]
  <2>3. tokens \in Tokens
    BY <1>1, <2>2 DEF Tokens
  <2>4. Answer(t, None) \/ Goes(t, Provided(task[t], tokens))
    BY <1>5 DEF RefreshToken, Become, Goes, Provided
  <2> HIDE DEF tokens
  <2> DEFINE d == Provided(task[t], tokens)
  <2>5. d \in Doing /\ d.pc = "lock" /\ d.op = task[t].op /\ d.p = task[t].p /\ d.new = tokens
    BY <1>1, <2>3, Moving
  <2> HIDE DEF d
  <2>6. Prepared(d)
    BY <2>2, <2>3, <2>5 DEF Prepared
  <2>7. Goes(t, d) => AuthInv'
    BY <1>1, <1>2, <2>1, <2>5, <2>6, QuietStep DEF fileVars
  <2> QED BY <1>3, <2>1, <2>4, <2>7 DEF d
<1> QED BY <1>4, <1>5

\* To the lock, and waiting at it.
LEMMA LockSteps ==
  ASSUME AuthInv, NEW t \in Actor, IsAlive(t),
         CreateLock(t) \/ WriteMetadata(t) \/ FindStale(t) \/ Reclaim(t) \/ LockTimeout(t) \/ Unlock(t)
  PROVE  AuthInv'
<1>1. /\ task[t] \in Doing /\ Prepared(task[t]) /\ oldest \in [Profile -> 0 .. MaxGen]
      /\ cliAlive \in BOOLEAN /\ (t = Cli => cliAlive)
  BY DEF AuthInv, AuthTypeOK, AllPrepared, IsAlive
<1>2. ASSUME NEW to \in {"lock", "reclaim", "meta", "reload", "unlock"}, Move(t, to),
             task[t].pc \in {"lock", "reclaim", "meta", "reload", "write"}
      PROVE  LET d == MovedTo(task[t], to) IN d \in Doing /\ d.pc = to /\ Prepared(d) /\ Goes(t, d)
  <2> DEFINE d == MovedTo(task[t], to)
  <2>1. d \in Doing /\ d.pc = to /\ d.op = task[t].op /\ d.p = task[t].p /\ d.new = task[t].new
    BY <1>1, Moving
  <2>2. Goes(t, d)
    BY <1>2 DEF Move, Goes, MovedTo, AuthInv, AuthTypeOK
  <2> HIDE DEF d
  <2>3. Prepared(d)
    BY <1>1, <1>2, <2>1 DEF Prepared
  <2> QED BY <2>1, <2>2, <2>3 DEF d
<1>3. \A p \in Profile \cup {None} : LET d == [Idle EXCEPT !.pc = "answered", !.p = p]
                                    IN d \in Doing /\ d.pc = "answered" /\ Prepared(d)
  BY Doings DEF Prepared
<1>4. Idle \in Doing /\ Idle.pc = "idle" /\ Prepared(Idle)
  BY Doings DEF Prepared
<1>5. ASSUME CreateLock(t) PROVE AuthInv'
  <2>1. PICK d \in Doing : d.pc = "meta" /\ Prepared(d) /\ Goes(t, d)
    BY <1>2, <1>5 DEF CreateLock, At
  <2>2. lock = None /\ lock' = [by |-> t, meta |-> FALSE] /\ UNCHANGED <<store, oldest, cliAlive, last, stolen>>
    BY <1>5 DEF CreateLock
  <2>3. /\ task' \in [Actor -> Doing] /\ AllPrepared'
        /\ task'[t] = d /\ \A u \in Actor \ {t} : task'[u] = task[u]
    BY <2>1, GoesOn DEF AuthInv
  <2>4. lock' \in LockRecord /\ lock'.by = t /\ lock' # None
    <3>1. [by |-> t, meta |-> FALSE] \in LockRecord
      BY DEF LockRecord
    <3> QED BY <2>2, <3>1, NoneAssumption
  <2>5. AuthTypeOK'
    BY <2>2, <2>3, <2>4 DEF AuthInv, AuthTypeOK
  <2>6. DeadIsIdle'
    BY <1>1, <2>2, <2>3 DEF AuthInv, DeadIsIdle, Actor
  <2>7. HolderNamed'
    BY <2>2, <2>3, <2>4 DEF AuthInv, HolderNamed, Locked
  <2>8. ReadIsCurrent' /\ NoLostUpdate'
    BY <2>1, <2>2, <2>3 DEF AuthInv, ReadIsCurrent, NoLostUpdate
  <2> QED BY <2>3, <2>5, <2>6, <2>7, <2>8 DEF AuthInv
<1>6. ASSUME WriteMetadata(t) PROVE AuthInv'
  <2>1. PICK d \in Doing : d.pc = "reload" /\ Prepared(d) /\ Goes(t, d)
    BY <1>2, <1>6 DEF WriteMetadata, At
  <2>2. /\ lock' = IF lock # None /\ lock.by = t THEN [lock EXCEPT !.meta = TRUE] ELSE lock
        /\ UNCHANGED <<store, oldest, cliAlive, last, stolen>> /\ task[t].pc = "meta"
    BY <1>6 DEF WriteMetadata, At
  <2>3. /\ task' \in [Actor -> Doing] /\ AllPrepared'
        /\ task'[t] = d /\ \A u \in Actor \ {t} : task'[u] = task[u]
    BY <2>1, GoesOn DEF AuthInv
  <2>4. /\ lock' \in LockRecord \cup {None}
        /\ \A u \in Actor : lock # None /\ lock.by = u => lock' # None /\ lock'.by = u
    <3>1. CASE lock = None
      BY <2>2, <3>1
    <3>2. CASE lock \in LockRecord /\ lock # None
      <4>1. [lock EXCEPT !.meta = TRUE] \in LockRecord /\ [lock EXCEPT !.meta = TRUE].by = lock.by
        BY <3>2 DEF LockRecord
      <4> QED BY <2>2, <3>2, <4>1, NoneAssumption
    <3> QED BY <3>1, <3>2 DEF AuthInv, AuthTypeOK
  <2>5. AuthTypeOK'
    BY <2>2, <2>3, <2>4 DEF AuthInv, AuthTypeOK
  <2>6. DeadIsIdle'
    BY <1>1, <2>2, <2>3 DEF AuthInv, DeadIsIdle, Actor
  <2>7. HolderNamed'
    BY <2>2, <2>3, <2>4 DEF AuthInv, HolderNamed, Locked
  <2>8. ReadIsCurrent' /\ NoLostUpdate'
    BY <2>1, <2>2, <2>3 DEF AuthInv, ReadIsCurrent, NoLostUpdate
  <2> QED BY <2>3, <2>5, <2>6, <2>7, <2>8 DEF AuthInv
<1>7. ASSUME FindStale(t) PROVE AuthInv'
  <2>1. PICK d \in Doing : d.pc = "reclaim" /\ Prepared(d) /\ Goes(t, d)
    BY <1>2, <1>7 DEF FindStale, At
  <2> QED BY <1>1, <1>7, <2>1, QuietStep DEF FindStale
<1>8. ASSUME Reclaim(t) PROVE AuthInv'
  <2>1. PICK d \in Doing : d.pc = "lock" /\ Prepared(d) /\ Goes(t, d)
    BY <1>2, <1>8 DEF Reclaim, At
  <2> QED BY <1>1, <1>8, <2>1, RemovingStep DEF Reclaim
<1>9. ASSUME LockTimeout(t) PROVE AuthInv'
  <2>1. PICK d \in Doing : d.pc \in {"idle", "answered"} /\ Prepared(d) /\ Goes(t, d) /\ (d.pc = "idle" <=> t = Cli)
    BY <1>3, <1>4, <1>9 DEF LockTimeout, CliExits, Answer, Become, Goes
  <2>2. UNCHANGED <<store, oldest, lock, last, stolen>> /\ cliAlive' = (t # Cli /\ cliAlive)
    BY <1>1, <1>9 DEF LockTimeout, CliExits
  <2> QED BY <1>1, <2>1, <2>2, QuietStep
<1>10. ASSUME Unlock(t) PROVE AuthInv'
  <2>1. PICK d \in Doing : d.pc \in {"idle", "answered"} /\ Prepared(d) /\ Goes(t, d) /\ (d.pc = "idle" <=> t = Cli)
    <3>1. CASE t = Cli
      <4>1. Goes(t, Idle)
        BY <1>10, <3>1, Zenon DEF Unlock, CliExits, Become, Goes
      <4> QED BY <1>4, <3>1, <4>1, Zenon
    <3>2. CASE t # Cli
      <4>1. Goes(t, [Idle EXCEPT !.pc = "answered", !.p = task[t].p])
        BY <1>10, <3>2, Zenon DEF Unlock, Answer, Become, Goes
      <4>2. task[t].p \in Profile \cup {None}
        BY <1>1 DEF Doing
      <4> QED BY <1>3, <3>2, <4>1, <4>2
    <3> QED BY <3>1, <3>2
  <2>2. UNCHANGED <<store, oldest, last>> /\ cliAlive' = (t # Cli /\ cliAlive) /\ RemoveLock(t)
    BY <1>1, <1>10 DEF Unlock, CliExits
  <2> QED BY <1>1, <2>1, <2>2, RemovingStep
<1> QED BY <1>5, <1>6, <1>7, <1>8, <1>9, <1>10

\* A mutation changes the entry of its profile in the file it was given, and no
\* other: what makes it safe to write the whole file back.
LEMMA MutationIsLocal ==
  ASSUME NEW t \in Actor, task[t] \in Doing, Prepared(task[t]), task[t].pc = "write"
  PROVE  LET f == task[t].seen
         IN /\ Mutated(t, f) \in File
            /\ \A q \in Profile \ {task[t].p} : Mutated(t, f)[q] = f[q]
<1>1. /\ task[t].p \in Profile /\ task[t].seen \in File /\ task[t].op \in {"key", "login", "logout"}
      /\ (task[t].op = "key" => task[t].new \in Tokens)
  BY DEF Prepared, Doing
<1>2. ASSUME NEW f \in File, NEW p \in Profile, NEW e \in Tokens \cup {None}
      PROVE  /\ [f EXCEPT ![p] = e] \in File
             /\ \A q \in Profile \ {p} : [f EXCEPT ![p] = e][q] = f[q]
  BY DEF File
<1>3. [login |-> 1, gen |-> MaxGen] \in Tokens
  BY GenerationsAssumption DEF Tokens
<1> DEFINE f == task[t].seen
<1>4. \/ Mutated(t, f) = f
      \/ \E e \in Tokens \cup {None} : Mutated(t, f) = [f EXCEPT ![task[t].p] = e]
  <2>1. CASE task[t].op = "key"
    BY <1>1, <2>1 DEF Mutated, Refreshed
  <2>2. CASE task[t].op = "login"
    BY <1>3, <2>2 DEF Mutated
  <2>3. CASE task[t].op = "logout"
    BY <2>3 DEF Mutated
  <2> QED BY <1>1, <2>1, <2>2, <2>3
<1>5. CASE Mutated(t, f) = f
  BY <1>1, <1>5
<1>6. ASSUME NEW e \in Tokens \cup {None}, Mutated(t, f) = [f EXCEPT ![task[t].p] = e]
      PROVE  Mutated(t, f) \in File /\ \A q \in Profile \ {task[t].p} : Mutated(t, f)[q] = f[q]
  BY <1>1, <1>2, <1>6
<1> QED BY <1>4, <1>5, <1>6

\* Under the lock: the file is read again and written back.
LEMMA FileSteps ==
  ASSUME AuthInv, NEW t \in Actor, IsAlive(t), Reload(t) \/ WriteProfiles(t)
  PROVE  AuthInv'
<1>1. /\ task[t] \in Doing /\ Prepared(task[t]) /\ store \in File /\ last \in File
      /\ oldest \in [Profile -> 0 .. MaxGen] /\ cliAlive \in BOOLEAN /\ (t = Cli => cliAlive)
  BY DEF AuthInv, AuthTypeOK, AllPrepared, IsAlive
<1>2. ASSUME Reload(t) PROVE AuthInv'
  <2> DEFINE d == Writing(task[t], store)
  <2>1. /\ d \in Doing /\ d.pc = "write" /\ d.op = task[t].op /\ d.p = task[t].p
        /\ d.new = task[t].new /\ d.seen = store
    BY <1>1, Moving
  <2>2. Goes(t, d) /\ task[t].pc = "reload" /\ UNCHANGED fileVars
    BY <1>2 DEF Reload, At, Become, Goes, Writing, fileVars
  <2> HIDE DEF d
  <2>3. Prepared(d)
    BY <1>1, <2>1, <2>2 DEF Prepared
  <2>4. Locked(t)
    BY <2>2 DEF Locked
  <2> QED BY <1>1, <2>1, <2>2, <2>3, <2>4, QuietStep DEF fileVars
<1>3. ASSUME WriteProfiles(t) PROVE AuthInv'
  <2> DEFINE d == MovedTo(task[t], "unlock")  p == task[t].p
  <2>1. d \in Doing /\ d.pc = "unlock"
    BY <1>1, Moving
  <2>2. /\ Goes(t, d) /\ task[t].pc = "write" /\ UNCHANGED <<oldest, lock, cliAlive, stolen>>
        /\ store' = Mutated(t, task[t].seen) /\ last' = [last EXCEPT ![p] = store'[p]]
    BY <1>3 DEF WriteProfiles, At, Move, Goes, MovedTo, AuthInv, AuthTypeOK
  <2> HIDE DEF d
  <2>3. Prepared(d)
    BY <2>1 DEF Prepared
  <2>4. /\ task' \in [Actor -> Doing] /\ AllPrepared'
        /\ task'[t] = d /\ \A u \in Actor \ {t} : task'[u] = task[u]
    BY <2>1, <2>2, <2>3, GoesOn DEF AuthInv
  <2>5. p \in Profile /\ store' \in File /\ \A q \in Profile \ {p} : store'[q] = task[t].seen[q]
    BY <1>1, <2>2, MutationIsLocal DEF Prepared
  <2> HIDE DEF p
  <2>6. last' \in File /\ last'[p] = store'[p] /\ \A q \in Profile \ {p} : last'[q] = last[q]
    BY <1>1, <2>2, <2>5 DEF File
  <2>7. AuthTypeOK'
    BY <2>2, <2>4, <2>5, <2>6 DEF AuthInv, AuthTypeOK
  <2>8. DeadIsIdle'
    BY <1>1, <2>2, <2>4 DEF AuthInv, DeadIsIdle, Actor
  <2>9. HolderNamed'
    BY <2>1, <2>2, <2>4 DEF AuthInv, HolderNamed, Locked
  <2>10. ReadIsCurrent'
    <3> SUFFICES ASSUME ~stolen, NEW u \in Actor, task'[u].pc = "write" PROVE FALSE
      BY <2>2 DEF ReadIsCurrent
    <3>1. u # t /\ task[u].pc = "write"
      BY <2>1, <2>4
    <3> QED BY <2>2, <3>1 DEF AuthInv, HolderNamed, Locked
  <2>11. NoLostUpdate'
    <3> SUFFICES ASSUME ~stolen PROVE store' = last'
      BY <2>2 DEF NoLostUpdate
    <3>1. task[t].seen = store /\ store = last
      BY <2>2 DEF AuthInv, ReadIsCurrent, NoLostUpdate
    <3>2. \A q \in Profile : store'[q] = last'[q]
      BY <2>5, <2>6, <3>1
    <3> QED BY <2>5, <2>6, <3>2 DEF File
  <2> QED BY <2>4, <2>7, <2>8, <2>9, <2>10, <2>11 DEF AuthInv
<1> QED BY <1>2, <1>3

\* What callers ask for.
LEMMA CallerSteps ==
  ASSUME AuthInv, NEW t \in Task, UNCHANGED fileVars,
         (\E want \in Profile \cup {None} : Request(t, want)) \/ TakeAnswer(t)
  PROVE  AuthInv'
<1>1. PICK d \in Doing : Goes(t, d) /\ d.pc \in {"load", "idle"} /\ (d.pc = "load" => d.op = "key")
  <2>1. ASSUME TakeAnswer(t) PROVE Idle \in Doing /\ Goes(t, Idle) /\ Idle.pc = "idle"
    BY <2>1, Doings DEF TakeAnswer, Become, Goes
  <2>2. ASSUME NEW want \in Profile \cup {None}, Request(t, want)
        PROVE  Ask(want) \in Doing /\ Goes(t, Ask(want)) /\ Ask(want).pc = "load" /\ Ask(want).op = "key"
    BY <2>2, Doings DEF Request, Become, Goes
  <2> QED BY <2>1, <2>2
<1>2. Prepared(d)
  BY <1>1 DEF Prepared
<1>3. t \in Actor /\ t # Cli
  BY CliAssumption DEF Actor
<1>4. oldest \in [Profile -> 0 .. MaxGen] /\ cliAlive \in BOOLEAN
  BY DEF AuthInv, AuthTypeOK
<1> QED BY <1>1, <1>2, <1>3, <1>4, QuietStep DEF fileVars

\* Commands, signals, and time.
LEMMA WorldSteps ==
  ASSUME AuthInv,
         (\E c \in Commands : Command(c[1], c[2])) \/ Kill \/ Interrupt \/ (\E p \in Profile : Expire(p))
  PROVE  AuthInv'
<1>1. Cli \in Actor /\ oldest \in [Profile -> 0 .. MaxGen] /\ cliAlive \in BOOLEAN
  BY DEF AuthInv, AuthTypeOK, Actor
<1>2. ASSUME NEW c \in Commands, Command(c[1], c[2]) PROVE AuthInv'
  <2>1. c[1] \in {"login", "logout"} /\ c[2] \in Profile
    BY CommandsAssumption
  <2> DEFINE d == [Idle EXCEPT !.pc = "lock", !.op = c[1], !.p = c[2]]
  <2>2. d \in Doing /\ d.pc = "lock" /\ d.op = c[1] /\ d.p = c[2]
    <3> DEFINE op == c[1]
               p == c[2]
    <3>1. op \in {"login", "logout"} /\ p \in Profile
      BY <2>1
    <3> HIDE DEF op, p
    <3>2. LET e == [Idle EXCEPT !.pc = "lock", !.op = op, !.p = p]
          IN e \in Doing /\ e.pc = "lock" /\ e.op = op /\ e.p = p
      BY <3>1, Doings, Zenon
    <3> QED BY <3>2 DEF op, p
  <2>3. Goes(Cli, d) /\ cliAlive /\ UNCHANGED fileVars
    BY <1>2 DEF Command, Become, Goes, fileVars
  <2> HIDE DEF d
  <2>4. Prepared(d)
    BY <2>1, <2>2 DEF Prepared
  <2> QED BY <1>1, <2>2, <2>3, <2>4, QuietStep DEF fileVars
<1>3. ASSUME Kill PROVE AuthInv'
  <2>1. Idle \in Doing /\ Idle.pc = "idle" /\ Prepared(Idle)
    BY Doings DEF Prepared
  <2>2. /\ Goes(Cli, Idle) /\ cliAlive /\ ~cliAlive'
        /\ UNCHANGED <<store, oldest, lock, last, stolen>> /\ cliAlive' \in BOOLEAN
    BY <1>3 DEF Kill, CliExits, Become, Goes
  <2> QED BY <1>1, <2>1, <2>2, QuietStep
<1>4. ASSUME Interrupt PROVE AuthInv'
  <2>1. stolen' /\ stolen' \in BOOLEAN /\ lock' = None /\ UNCHANGED <<store, oldest, task, cliAlive, last>>
    BY <1>4 DEF Interrupt
  <2>2. AuthTypeOK' /\ AllPrepared' /\ DeadIsIdle'
    BY <2>1 DEF AuthInv, AuthTypeOK, AllPrepared, DeadIsIdle
  <2>3. HolderNamed' /\ ReadIsCurrent' /\ NoLostUpdate'
    BY <2>1 DEF HolderNamed, ReadIsCurrent, NoLostUpdate
  <2> QED BY <2>2, <2>3 DEF AuthInv
<1>5. ASSUME NEW p \in Profile, Expire(p) PROVE AuthInv'
  <2>1. /\ oldest[p] < MaxGen /\ oldest' = [oldest EXCEPT ![p] = oldest[p] + 1]
        /\ UNCHANGED <<store, lock, task, cliAlive, last, stolen>>
    BY <1>5 DEF Expire
  <2>2. oldest[p] + 1 \in 0 .. MaxGen
    BY <1>1, <2>1, GenerationsAssumption
  <2>3. oldest' \in [Profile -> 0 .. MaxGen]
    BY <1>1, <2>1, <2>2
  <2>4. AuthTypeOK' /\ AllPrepared' /\ DeadIsIdle'
    BY <2>1, <2>3 DEF AuthInv, AuthTypeOK, AllPrepared, DeadIsIdle
  <2>5. HolderNamed' /\ ReadIsCurrent' /\ NoLostUpdate'
    BY <2>1 DEF AuthInv, HolderNamed, ReadIsCurrent, NoLostUpdate, Locked
  <2> QED BY <2>4, <2>5 DEF AuthInv
<1> QED BY <1>2, <1>3, <1>4, <1>5

LEMMA AuthStep == AuthInv /\ [AuthNext]_authVars => AuthInv'
<1> SUFFICES ASSUME AuthInv, [AuthNext]_authVars PROVE AuthInv'
  OBVIOUS
<1>1. ASSUME NEW t \in Actor, TaskStep(t) PROVE AuthInv'
  BY <1>1, KeySteps, LockSteps, FileSteps DEF TaskStep
<1>2. ASSUME Outside PROVE AuthInv'
  BY <1>1, <1>2, WorldSteps DEF Outside, Actor
<1>3. ASSUME NEW t \in Task, TaskStep(t) PROVE AuthInv'
  BY <1>1, <1>3 DEF Actor
<1>4. ASSUME UNCHANGED authVars PROVE AuthInv'
  BY <1>4 DEF authVars, fileVars, AuthInv, AuthTypeOK, AllPrepared, DeadIsIdle, HolderNamed,
              ReadIsCurrent, NoLostUpdate, Locked
<1> QED BY <1>2, <1>3, <1>4, CallerSteps DEF AuthNext

LEMMA AuthStarts ==
  ASSUME AuthInit PROVE AuthInv
<1>1. [login |-> 0, gen |-> 0] \in Tokens /\ 0 \in 0 .. MaxGen
  BY GenerationsAssumption DEF Tokens
<1>2. AuthTypeOK
  BY <1>1, Doings DEF AuthInit, AuthTypeOK, File
<1>3. \A t \in Actor : task[t].pc = "idle"
  BY Doings DEF AuthInit
<1>4. AllPrepared /\ DeadIsIdle /\ HolderNamed /\ ReadIsCurrent
  BY <1>3 DEF AuthInit, AllPrepared, Prepared, DeadIsIdle, HolderNamed, ReadIsCurrent, Locked, Actor
<1>5. NoLostUpdate
  BY DEF AuthInit, NoLostUpdate
<1> QED BY <1>2, <1>4, <1>5 DEF AuthInv

\* However many tasks refresh tokens while commands log in and out and are
\* killed: as long as no lock file is taken from a live holder, every profile
\* in the file is what the last write about it left there.
THEOREM NoUpdateIsLost == AuthSpec => []NoLostUpdate
<1>1. AuthInit => AuthInv BY AuthStarts
<1>2. AuthInv => NoLostUpdate
  BY DEF AuthInv
<1> QED BY <1>1, <1>2, AuthStep, PTL DEF AuthSpec

(***************************************************************************)
(* Model calls.  The router asks for keys as any caller may; what an agent *)
(* was answered stays its own until it calls.                              *)
(***************************************************************************)

Chats == [pc : {"idle", "resolve", "prepare", "call", "failed"}, chain : Seq(Key),
          tried : BOOLEAN, mine : BOOLEAN, sources : {<<>>, <<None>>}]

\* A key is looked up for an instance that takes one, and a second source is
\* left only after a forced profile.
Sane(a, c) ==
  /\ c \in Chats
  /\ c.pc \in {"resolve", "prepare", "call"} => c.chain # <<>>
  /\ c.pc = "resolve" => Instance[Head(c.chain)] \in OAuth
  /\ c.pc = "resolve" /\ c.sources # <<>> => Forced[a] # None

RouterTyped ==
  /\ chat \in [Agent -> Chats] /\ \A a \in Agent : Sane(a, chat[a])
  /\ keyIn \in [OAuth -> Profile \cup {None}]
  /\ disabled \subseteq Key
  /\ sticky \in [spec : ModelSpec, left : 0 .. Window] \cup {None}

\* An agent at its first source waits for its forced profile, or for none.
AsksForForced ==
  \A a \in Agent :
    chat[a].pc = "resolve" /\ chat[a].sources # <<>> =>
      task[a].p = Forced[a] \/ (task[a].pc = "answered" /\ task[a].p = None)

RouterInv == AuthInv /\ RouterTyped /\ AsksForForced

\* A candidate is tried; nothing else of its call changes.
LEMMA Tries ==
  ASSUME NEW c \in Chats, NEW k
  PROVE  LET d == Attempted(c, k)
         IN  d \in Chats /\ d.pc = c.pc /\ d.chain = c.chain /\ d.sources = c.sources
<1> DEFINE tried == c.tried \/ SpecOf[k] = Primary
<1>1. Attempted(c, k) = [c EXCEPT !.tried = tried]
  BY DEF Attempted
<1>2. tried \in BOOLEAN
  OBVIOUS
<1> HIDE DEF tried
<1> QED BY <1>1, <1>2 DEF Chats

\* The walk along a chain ends at a candidate that is left of it, with the
\* sources of its key, or with none left.
LEMMA GoOnIsSane ==
  ASSUME NEW a \in Agent, NEW c \in Chats, NEW cooling
  PROVE  LET d == GoOn(a, c, cooling)
         IN  /\ Sane(a, d) /\ Len(d.chain) <= Len(c.chain)
             /\ d.sources = IF d.pc = "resolve" THEN Tail(Sources(a)) ELSE <<>>
<1> DEFINE fit == {i \in DOMAIN c.chain : ~Unfit(a, c.chain[i], cooling)}
           reset == [c EXCEPT !.sources = <<>>, !.mine = FALSE]
           first == CHOOSE i \in fit : \A j \in fit : i <= j
           chain == SubSeq(c.chain, first, Len(c.chain))
           k == Head(chain)
           there == Fetched([reset EXCEPT !.chain = chain])
           d == GoOn(a, c, cooling)
<1>1. c.chain \in Seq(Key) /\ Len(c.chain) \in Nat /\ DOMAIN c.chain = 1 .. Len(c.chain)
  BY DEF Chats
<1>2. reset \in Chats /\ reset.pc = c.pc /\ reset.chain = c.chain /\ reset.sources = <<>>
  BY DEF Chats
<1> HIDE DEF reset
<1>3. CASE fit = {}
  <2>1. d = [reset EXCEPT !.pc = "failed", !.chain = <<>>]
    BY <1>3, Zenon DEF GoOn, reset
  <2>2. <<>> \in Seq(Key) /\ Len(<<>>) = 0
    OBVIOUS
  <2>3. d \in Chats /\ d.pc = "failed" /\ d.chain = <<>> /\ d.sources = <<>>
    BY <1>2, <2>1, <2>2 DEF Chats
  <2> HIDE DEF d
  <2> QED BY <1>1, <2>2, <2>3 DEF Sane, d
<1>4. CASE fit # {}
  <2>1. first \in fit
    <3>1. fit \subseteq Nat
      BY <1>1
    <3> HIDE DEF fit
    <3>2. \E i \in fit : \A j \in fit : i <= j
      <4>1. \E i \in fit : \A j \in fit \ {i} : ~(<<j, i>> \in OpToRel(<, Nat))
        BY <1>4, <3>1, NatLessThanWellFounded, WFMin, Zenon
      <4>2. PICK i \in fit : \A j \in fit \ {i} : ~(<<j, i>> \in OpToRel(<, Nat))
        BY <4>1, Zenon
      <4>3. \A j \in fit \ {i} : ~(j < i)
        BY <3>1, <4>2, Zenon DEF OpToRel
      <4> HIDE <4>2
      <4> QED BY <3>1, <4>3
    <3> QED BY <3>2, Zenon
  <2>2. first \in 1 .. Len(c.chain)
    BY <1>1, <2>1
  <2> HIDE DEF first, fit
  <2>3. chain \in Seq(Key) /\ Len(chain) = Len(c.chain) - first + 1
    BY <1>1, <2>2
  <2> HIDE DEF chain
  <2>4. chain # <<>> /\ Len(chain) <= Len(c.chain)
    <3>1. Len(chain) # 0 /\ Len(chain) <= Len(c.chain)
      BY <1>1, <2>2, <2>3
    <3> QED BY <3>1
  <2>5. there \in Chats /\ there.pc = c.pc /\ there.chain = chain /\ there.sources = <<>>
    <3> DEFINE moved == [reset EXCEPT !.chain = chain]
    <3>1. moved \in Chats /\ moved.pc = c.pc /\ moved.chain = chain /\ moved.sources = <<>>
      BY <1>2, <2>3 DEF Chats
    <3>2. there = [moved EXCEPT !.mine = TRUE]
      BY DEF Fetched
    <3> HIDE DEF moved
    <3> QED BY <3>1, <3>2 DEF Chats
  <2>6. CASE Instance[k] \in OAuth
    <3> DEFINE sources == Tail(Sources(a))
    <3>1. d = [there EXCEPT !.pc = "resolve", !.sources = sources]
      BY <1>4, <2>6, Zenon DEF GoOn, fit, first, chain, reset
    <3>2. sources = IF Forced[a] = None THEN <<>> ELSE <<None>>
      BY DEF Sources
    <3> HIDE DEF d, there, sources
    <3>3. sources \in {<<>>, <<None>>} /\ (sources # <<>> => Forced[a] # None)
      BY <3>2
    <3>4. d \in Chats /\ d.pc = "resolve" /\ d.chain = chain /\ d.sources = sources
      BY <2>5, <3>1, <3>3 DEF Chats
    <3> QED BY <2>4, <2>6, <3>3, <3>4 DEF Sane, sources, d, k
  <2>7. CASE Instance[k] \notin OAuth
    <3> DEFINE at == IF Instance[k] \in Late THEN "prepare" ELSE "call"
               b == Attempted(there, k)
    <3>1. d = [b EXCEPT !.pc = at]
      BY <1>4, <2>7, Zenon DEF GoOn, fit, first, chain, reset
    <3> HIDE DEF d, there
    <3>2. b \in Chats /\ b.chain = chain /\ b.sources = <<>>
      BY <2>5, Tries
    <3> HIDE DEF b
    <3>3. at \in {"idle", "resolve", "prepare", "call", "failed"} /\ at # "resolve"
      OBVIOUS
    <3> HIDE DEF at
    <3>4. d \in Chats /\ d.pc = at /\ d.chain = chain /\ d.sources = <<>>
      BY <3>1, <3>2, <3>3 DEF Chats
    <3> QED BY <2>4, <3>3, <3>4 DEF Sane, d
  <2> QED BY <2>6, <2>7
<1> QED BY <1>3, <1>4

\* Deleted health records leave the calls where they are.
LEMMA Forgotten ==
  ASSUME NEW keys, NEW chats \in [Agent -> Chats], \A b \in Agent : Sane(b, chats[b])
  PROVE  /\ Forget(keys, chats) \in [Agent -> Chats]
         /\ \A b \in Agent : /\ Sane(b, Forget(keys, chats)[b]) /\ Forget(keys, chats)[b].pc = chats[b].pc
                             /\ Forget(keys, chats)[b].sources = chats[b].sources
<1> DEFINE mine(b) == chats[b].mine /\ Head(chats[b].chain) \notin keys
           d(b) == [chats[b] EXCEPT !.mine = mine(b)]
<1>1. \A b \in Agent : mine(b) \in BOOLEAN
  OBVIOUS
<1>2. Forget(keys, chats) = [b \in Agent |-> d(b)]
  BY DEF Forget
<1> HIDE DEF mine
<1>3. \A b \in Agent : /\ d(b) \in Chats /\ d(b).pc = chats[b].pc /\ d(b).chain = chats[b].chain
                       /\ d(b).sources = chats[b].sources
  BY <1>1 DEF Chats
<1> HIDE DEF d
<1>4. \A b \in Agent : Sane(b, d(b))
  BY <1>3 DEF Sane
<1> QED BY <1>2, <1>3, <1>4

LEMMA QuietCall ==
  Quiet \in Chats /\ Quiet.pc = "idle" /\ Quiet.sources = <<>> /\ \A a \in Agent : Sane(a, Quiet)
<1>1. Quiet \in Chats /\ Quiet.pc = "idle" /\ Quiet.sources = <<>>
  BY DEF Quiet, Chats
<1> QED BY <1>1 DEF Sane

\* A call that goes on to its next candidate asks for its first key.
LEMMA Walks ==
  ASSUME RouterInv, NEW a \in Agent, NEW c \in Chats, NEW cooling,
         chat' = [chat EXCEPT ![a] = GoOn(a, c, cooling)], AskIfNeeded(a)
  PROVE  /\ chat' \in [Agent -> Chats] /\ (\A b \in Agent : Sane(b, chat'[b])) /\ AsksForForced'
         /\ (\E want \in Profile \cup {None} : Request(a, want)) \/ TakeAnswer(a)
<1> DEFINE d == GoOn(a, c, cooling)
<1>1. Sane(a, d) /\ d.sources = (IF d.pc = "resolve" THEN Tail(Sources(a)) ELSE <<>>) /\ d \in Chats
  BY GoOnIsSane DEF Sane
<1> HIDE DEF d
<1>2. /\ chat' \in [Agent -> Chats] /\ chat'[a] = d /\ \A b \in Agent \ {a} : chat'[b] = chat[b]
  BY <1>1 DEF RouterInv, RouterTyped, d
<1>3. \A b \in Agent : Sane(b, chat'[b])
  BY <1>1, <1>2 DEF RouterInv, RouterTyped
<1>4. Head(Sources(a)) = Forced[a] /\ Forced[a] \in Profile \cup {None}
  BY ForcedAssumption DEF Sources, Agent
<1>5. task \in [Actor -> Doing] /\ a \in Actor
  BY DEF RouterInv, AuthInv, AuthTypeOK, Actor, Agent
<1>6. CASE d.pc = "resolve"
  <2>1. Request(a, Forced[a])
    BY <1>2, <1>4, <1>6 DEF AskIfNeeded
  <2>2. task' = [task EXCEPT ![a] = Ask(Forced[a])]
    BY <2>1 DEF Request, Become
  <2>3. task'[a] = Ask(Forced[a]) /\ \A b \in Agent \ {a} : task'[b] = task[b]
    BY <1>5, <2>2 DEF Agent, Actor
  <2>4. task'[a].p = Forced[a]
    BY <2>3 DEF Ask, Idle
  <2>5. AsksForForced'
    BY <1>2, <2>3, <2>4 DEF AsksForForced, RouterInv
  <2> QED BY <1>2, <1>3, <1>4, <2>1, <2>5
<1>7. CASE d.pc # "resolve"
  <2>1. TakeAnswer(a)
    BY <1>2, <1>7 DEF AskIfNeeded
  <2>2. \A b \in Agent \ {a} : task'[b] = task[b]
    BY <1>5, <2>1 DEF TakeAnswer, Become, Agent, Actor
  <2>3. AsksForForced'
    BY <1>2, <1>7, <2>2 DEF AsksForForced, RouterInv
  <2> QED BY <1>2, <1>3, <2>1, <2>3
<1> QED BY <1>6, <1>7

\* The profile a task is after stays its own until it is answered.
LEMMA TasksKeepTheirProfile ==
  ASSUME AuthInv, NEW t \in Task, TaskStep(t)
  PROVE  /\ \A b \in Task \ {t} : task'[b] = task[b]
         /\ task[t].pc # "answered"
         /\ task[t].p # None => task'[t].p = task[t].p \/ (task'[t].pc = "answered" /\ task'[t].p = None)
<1> USE DEF At, Become, Move
<1>1. task \in [Actor -> Doing] /\ t \in Actor /\ t # Cli
  BY CliAssumption DEF AuthInv, AuthTypeOK, Actor
<1>2. ASSUME NEW d, Become(t, d) PROVE task'[t] = d /\ \A b \in Task \ {t} : task'[b] = task[b]
  BY <1>1, <1>2 DEF Actor
<1>3. ASSUME NEW at, Move(t, at)
      PROVE  task'[t].p = task[t].p /\ \A b \in Task \ {t} : task'[b] = task[b]
  BY <1>1, <1>3 DEF Actor, Doing
<1>4. \A p : [Idle EXCEPT !.pc = "answered", !.p = p].pc = "answered" /\ [Idle EXCEPT !.pc = "answered", !.p = p].p = p
  BY DEF Idle
<1>5. ASSUME NEW p, Answer(t, p)
       PROVE  task'[t].pc = "answered" /\ task'[t].p = p /\ \A b \in Task \ {t} : task'[b] = task[b]
  <2> DEFINE d == [Idle EXCEPT !.pc = "answered", !.p = p]
  <2>1. Become(t, d)
    BY <1>5 DEF Answer
  <2>2. d.pc = "answered" /\ d.p = p
    BY <1>4
  <2> HIDE DEF d
  <2> QED BY <1>2, <2>1, <2>2
<1>6. CASE LoadProfiles(t)
  <2> DEFINE q == Entry(task[t].p)
  <2>1. task[t].p # None => q \in {None, task[t].p}
    BY DEF Entry
  <2>2. CASE Answer(t, q) \/ Answer(t, None)
    <3>1. task'[t].pc = "answered" /\ (task'[t].p = q \/ task'[t].p = None) /\ \A b \in Task \ {t} : task'[b] = task[b]
      BY <1>5, <2>2
    <3> QED BY <1>6, <2>1, <3>1 DEF LoadProfiles
  <2>3. CASE Become(t, [task[t] EXCEPT !.pc = "refresh", !.p = q, !.seen = store[q]]) /\ q # None
    <3>1. [task[t] EXCEPT !.pc = "refresh", !.p = q, !.seen = store[q]].p = q
      BY <1>1 DEF Doing
    <3>2. task'[t].p = q /\ \A b \in Task \ {t} : task'[b] = task[b]
      BY <1>2, <2>3, <3>1
    <3> QED BY <1>6, <2>1, <2>3, <3>2 DEF LoadProfiles
  <2> QED BY <1>6, <2>2, <2>3 DEF LoadProfiles
<1>7. CASE RefreshToken(t)
  <2> DEFINE fresh == [task[t].seen EXCEPT !.gen = oldest[task[t].p]]
             d == [task[t] EXCEPT !.pc = "lock", !.seen = None, !.new = fresh]
  <2>1. d.p = task[t].p
    BY <1>1 DEF Doing
  <2>2. CASE Answer(t, None)
    BY <1>7, <1>5, <2>2 DEF RefreshToken
  <2>3. CASE Become(t, d)
    BY <1>2, <1>7, <2>1, <2>3 DEF RefreshToken
  <2> QED BY <1>7, <2>2, <2>3 DEF RefreshToken
<1>8. CASE CreateLock(t) \/ WriteMetadata(t) \/ FindStale(t) \/ Reclaim(t) \/ WriteProfiles(t)
  BY <1>3, <1>8 DEF CreateLock, WriteMetadata, FindStale, Reclaim, WriteProfiles
<1>9. CASE LockTimeout(t) \/ Unlock(t)
  BY <1>1, <1>9, <1>5 DEF LockTimeout, Unlock
<1>10. CASE Reload(t)
  <2>1. [task[t] EXCEPT !.pc = "write", !.seen = store].p = task[t].p
    BY <1>1 DEF Doing
  <2> QED BY <1>2, <1>10, <2>1 DEF Reload
<1> QED BY <1>6, <1>7, <1>8, <1>9, <1>10 DEF TaskStep

\* What a step of a model call does to the router and to the keys' owners.
LEMMA CallsStay ==
  ASSUME RouterInv, NEW a \in Agent, StartChat(a) \/ Proceed(a)
  PROVE  RouterTyped' /\ AsksForForced' /\ [AuthNext]_authVars
<1> USE DEF Agent
<1>1. /\ chat \in [Task -> Chats] /\ \A b \in Task : Sane(b, chat[b])
      /\ chat[a] \in Chats /\ Sane(a, chat[a])
  BY DEF RouterInv, RouterTyped, Sane
<1>2. task \in [Actor -> Doing] /\ Task \subseteq Actor
  BY DEF RouterInv, AuthInv, AuthTypeOK, Actor
<1>3. ASSUME \/ \E want \in Profile \cup {None} : Request(a, want)
             \/ TakeAnswer(a),
             UNCHANGED fileVars
      PROVE  [AuthNext]_authVars
  BY <1>3 DEF AuthNext
<1>4. ASSUME UNCHANGED authVars PROVE [AuthNext]_authVars /\ task' = task
  BY <1>4 DEF authVars
\* A call that ends, or that fails its agent.
<1>5. ASSUME NEW keys, NEW d \in Chats, Sane(a, d), d.pc # "resolve",
             chat' = Forget(keys, [chat EXCEPT ![a] = d]) \/ chat' = [chat EXCEPT ![a] = d],
             \A b \in Task \ {a} : task'[b] = task[b]
      PROVE  /\ chat' \in [Task -> Chats] /\ \A b \in Task : Sane(b, chat'[b])
             /\ AsksForForced'
  <2> DEFINE chats == [chat EXCEPT ![a] = d]
  <2>1. chats \in [Task -> Chats] /\ chats[a] = d /\ \A b \in Task \ {a} : chats[b] = chat[b]
    BY <1>1
  <2> HIDE DEF chats
  <2>2. \A b \in Task : Sane(b, chats[b])
    BY <1>1, <1>5, <2>1
  <2>3. /\ chat' \in [Task -> Chats]
        /\ \A b \in Task : Sane(b, chat'[b]) /\ chat'[b].pc = chats[b].pc /\ chat'[b].sources = chats[b].sources
    <3>1. CASE chat' = Forget(keys, chats)
      BY <2>1, <2>2, <3>1, Forgotten
    <3>2. CASE chat' = chats
      BY <2>1, <2>2, <3>2
    <3> QED BY <1>5, <3>1, <3>2 DEF chats
  <2>4. AsksForForced'
    BY <1>5, <2>1, <2>3 DEF AsksForForced, RouterInv
  <2> QED BY <2>3, <2>4
<1>6. keyIn \in [OAuth -> Profile \cup {None}] /\ disabled \subseteq Key
      /\ sticky \in [spec : ModelSpec, left : 0 .. Window] \cup {None}
  BY DEF RouterInv, RouterTyped
\* The key a shared instance is given is a profile's.
<1>7. ASSUME NEW i, keyIn' = [keyIn EXCEPT ![i] = GiveKey(a, i)], i \in OAuth
      PROVE  keyIn' \in [OAuth -> Profile \cup {None}]
  <2>1. task[a].p \in Profile \cup {None}
    BY <1>2 DEF Doing
  <2> QED BY <1>6, <1>7, <2>1 DEF GiveKey
<1>8. chat[a].pc \in {"resolve", "call"} => Current(a) \in Key /\ Tail(chat[a].chain) \in Seq(Key)
  BY <1>1 DEF Sane, Chats, Current
<1>9. chat[a].pc = "resolve" => CalledInstance(a) \in OAuth
  BY <1>1 DEF Sane, CalledInstance, Current
<1>10. chat[a].pc \in {"resolve", "call"} => Pass(chat[a]) \in Chats
  BY <1>1, <1>8 DEF Pass, Chats
<1>11. CASE StartChat(a)
  <2> DEFINE c == [Quiet EXCEPT !.chain = BuildCandidateChain(Plan, Primary, StickyFirst)]
  <2>1. BuildCandidateChain(Plan, Primary, StickyFirst) \in Seq(Key)
    <3>1. StickyFirst \in {<<>>} \cup {<<s>> : s \in ModelSpec}
      BY <1>6 DEF StickyFirst
    <3> QED BY <3>1, ChainAssumption
  <2>2. c \in Chats
    BY <2>1, QuietCall DEF Chats
  <2>3. chat' = [chat EXCEPT ![a] = GoOn(a, c, disabled)] /\ AskIfNeeded(a)
        /\ UNCHANGED fileVars /\ UNCHANGED <<keyIn, disabled, sticky>>
    BY <1>11 DEF StartChat
  <2> HIDE DEF c
  <2> QED BY <1>3, <1>6, <2>2, <2>3, Walks DEF RouterTyped
<1>12. CASE NextSource(a)
  <2> DEFINE d == [chat[a] EXCEPT !.sources = Tail(@)]
  <2>1. /\ chat[a].pc = "resolve" /\ chat[a].sources # <<>> /\ Request(a, Head(chat[a].sources))
        /\ chat' = [chat EXCEPT ![a].sources = Tail(@)] /\ UNCHANGED fileVars
        /\ UNCHANGED <<keyIn, disabled, sticky>>
    BY <1>12 DEF NextSource
  <2>2. chat[a].sources = <<None>>
    BY <1>1, <2>1 DEF Chats
  <2>3. Head(chat[a].sources) = None /\ Tail(chat[a].sources) = <<>>
    BY <2>2
  <2>4. d \in Chats /\ d.pc = "resolve" /\ d.chain = chat[a].chain /\ d.sources = <<>>
    BY <1>1, <2>1, <2>3 DEF Chats
  <2>5. chat' = [chat EXCEPT ![a] = d]
    BY <2>1
  <2> HIDE DEF d
  <2>6. Sane(a, d)
    BY <1>1, <2>1, <2>4 DEF Sane
  <2>7. chat' \in [Task -> Chats] /\ chat'[a] = d /\ \A b \in Task \ {a} : chat'[b] = chat[b]
    BY <1>1, <2>4, <2>5
  <2>8. \A b \in Task \ {a} : task'[b] = task[b]
    BY <1>2, <2>1 DEF Request, Become
  <2>9. AsksForForced'
    BY <2>4, <2>7, <2>8 DEF AsksForForced, RouterInv
  <2>10. RouterTyped'
    BY <1>1, <1>6, <2>1, <2>6, <2>7 DEF RouterTyped
  <2> QED BY <1>3, <2>1, <2>3, <2>9, <2>10
<1>13. CASE Call(a)
  <2> DEFINE i == CalledInstance(a)
             c == Attempted(chat[a], Current(a))
  <2>1. /\ Resolved(a) /\ keyIn' = [keyIn EXCEPT ![i] = GiveKey(a, i)] /\ TakeAnswer(a) /\ UNCHANGED fileVars
        /\ UNCHANGED <<disabled, sticky>>
        /\ chat' = [chat EXCEPT ![a] = IF i \in Late THEN [c EXCEPT !.pc = "prepare"]
                                       ELSE [c EXCEPT !.pc = "call", !.sources = <<>>]]
    BY <1>13 DEF Call
  <2>2. chat[a].pc = "resolve" /\ i \in OAuth /\ chat[a].chain # <<>>
    BY <1>1, <1>9, <2>1 DEF Resolved, Sane
  <2>3. c \in Chats /\ c.chain = chat[a].chain /\ c.sources = chat[a].sources
    BY <1>1, Tries
  <2> HIDE DEF c, i
  <2> DEFINE d == IF i \in Late THEN [c EXCEPT !.pc = "prepare"] ELSE [c EXCEPT !.pc = "call", !.sources = <<>>]
  <2>4. /\ d \in Chats /\ d.chain = chat[a].chain /\ d.pc \in {"prepare", "call"}
        /\ d.pc = "prepare" => i \in Late
    BY <2>3 DEF Chats
  <2>5. chat' = [chat EXCEPT ![a] = d]
    BY <2>1
  <2> HIDE DEF d
  <2>6. Sane(a, d)
    BY <2>2, <2>4 DEF Sane
  <2>7. \A b \in Task \ {a} : task'[b] = task[b]
    BY <1>2, <2>1 DEF TakeAnswer, Become
  <2>8. chat' \in [Task -> Chats] /\ (\A b \in Task : Sane(b, chat'[b])) /\ AsksForForced'
    BY <1>5, <2>4, <2>5, <2>6, <2>7
  <2> QED BY <1>3, <1>6, <1>7, <2>1, <2>2, <2>8 DEF RouterTyped
<1>14. CASE RateLimited(a)
  <2>1. /\ Resolved(a) /\ keyIn' = [keyIn EXCEPT ![CalledInstance(a)] = GiveKey(a, CalledInstance(a))]
        /\ chat' = [chat EXCEPT ![a] = GoOn(a, Pass(@), disabled)] /\ AskIfNeeded(a)
        /\ UNCHANGED fileVars /\ UNCHANGED <<disabled, sticky>>
    BY <1>14 DEF RateLimited
  <2>2. chat[a].pc = "resolve"
    BY <2>1 DEF Resolved
  <2>3. keyIn' \in [OAuth -> Profile \cup {None}]
    BY <1>7, <1>9, <2>1, <2>2
  <2> QED BY <1>3, <1>6, <1>10, <2>1, <2>2, <2>3, Walks DEF RouterTyped
<1>15. CASE Dispatch(a)
  <2> DEFINE d == [chat[a] EXCEPT !.pc = "call", !.sources = <<>>]
  <2>1. /\ chat[a].pc = "prepare" /\ chat' = [chat EXCEPT ![a].pc = "call", ![a].sources = <<>>]
        /\ UNCHANGED authVars /\ UNCHANGED <<keyIn, disabled, sticky>>
    BY <1>15 DEF Dispatch
  <2>2. d \in Chats /\ d.pc = "call" /\ d.chain = chat[a].chain
    BY <1>1 DEF Chats
  <2>3. chat' = [chat EXCEPT ![a] = d]
    BY <1>1, <2>1
  <2> HIDE DEF d
  <2>4. Sane(a, d)
    BY <1>1, <2>1, <2>2 DEF Sane
  <2>5. chat' \in [Task -> Chats] /\ (\A b \in Task : Sane(b, chat'[b])) /\ AsksForForced'
    BY <1>4, <1>5, <2>1, <2>2, <2>3, <2>4
  <2> QED BY <1>4, <1>6, <2>1, <2>5 DEF RouterTyped
<1>16. CASE Success(a) \/ NonRetryable(a) \/ Retry(a)
  <2>1. /\ \/ \E keys : chat' = Forget(keys, [chat EXCEPT ![a] = Quiet])
           \/ chat' = [chat EXCEPT ![a] = Quiet]
        /\ UNCHANGED authVars /\ keyIn' = keyIn /\ disabled' \subseteq disabled
    BY <1>16 DEF Success, NonRetryable, Retry
  <2>2. chat' \in [Task -> Chats] /\ (\A b \in Task : Sane(b, chat'[b])) /\ AsksForForced'
    BY <1>4, <1>5, <2>1, QuietCall
  <2>3. sticky' \in [spec : ModelSpec, left : 0 .. Window] \cup {None}
    <3>1. CASE Success(a)
      <4>1. chat[a].pc = "call" /\ sticky' = StickyAfter(chat[a], Current(a))
        BY <3>1 DEF Success
      <4>2. SpecOf[Current(a)] \in ModelSpec /\ Window \in 0 .. Window
        BY <1>8, <4>1, SpecAssumption, WindowAssumption
      <4> QED BY <1>6, <4>1, <4>2 DEF StickyAfter
    <3>2. CASE NonRetryable(a) \/ Retry(a)
      BY <1>6, <3>2 DEF NonRetryable, Retry
    <3> QED BY <1>16, <3>1, <3>2
  <2> QED BY <1>4, <1>6, <2>1, <2>2, <2>3 DEF RouterTyped
<1>17. CASE Failure(a)
  <2>1. /\ chat[a].pc = "call" /\ disabled' = (IF chat[a].mine THEN disabled \cup {Current(a)} ELSE disabled)
        /\ chat' = [chat EXCEPT ![a] = GoOn(a, Pass(@), disabled')] /\ AskIfNeeded(a)
        /\ UNCHANGED fileVars /\ UNCHANGED <<keyIn, sticky>>
    BY <1>17 DEF Failure
  <2>2. disabled' \subseteq Key
    BY <1>6, <1>8, <2>1
  <2> QED BY <1>3, <1>6, <1>10, <2>1, <2>2, Walks DEF RouterTyped
<1> QED BY <1>11, <1>12, <1>13, <1>14, <1>15, <1>16, <1>17 DEF Proceed

\* What the other actors do, time, and a task that looks for its key.
LEMMA TheRestStays ==
  ASSUME RouterInv,
         \/ \E a \in Agent : KeyStep(a)
         \/ Outside /\ UNCHANGED routerVars
         \/ (\E k \in Key : Cool(k)) \/ Tick
         \/ UNCHANGED callVars
  PROVE  RouterTyped' /\ AsksForForced' /\ [AuthNext]_authVars /\ chat' = chat
<1> USE DEF Agent
<1>1. ASSUME UNCHANGED routerVars PROVE RouterTyped' /\ chat' = chat
  BY <1>1 DEF routerVars, RouterInv, RouterTyped
<1>2. ASSUME chat' = chat, \A b \in Task : task'[b] = task[b] PROVE AsksForForced'
  BY <1>2 DEF RouterInv, AsksForForced
<1>3. ASSUME UNCHANGED authVars PROVE [AuthNext]_authVars /\ \A b \in Task : task'[b] = task[b]
  BY <1>3 DEF authVars
<1>4. ASSUME NEW a \in Agent, KeyStep(a) PROVE RouterTyped' /\ AsksForForced' /\ [AuthNext]_authVars /\ chat' = chat
  <2>1. TaskStep(a) /\ UNCHANGED routerVars
    BY <1>4 DEF KeyStep
  <2>2. /\ \A b \in Task \ {a} : task'[b] = task[b]
        /\ task[a].pc # "answered"
        /\ task[a].p # None => task'[a].p = task[a].p \/ (task'[a].pc = "answered" /\ task'[a].p = None)
    BY <2>1, TasksKeepTheirProfile DEF RouterInv
  <2>3. chat[a].pc = "resolve" /\ chat[a].sources # <<>> => Forced[a] # None
    BY DEF RouterInv, RouterTyped, Sane
  <2>4. chat' = chat
    BY <1>1, <2>1
  <2>5. AsksForForced'
    BY <2>2, <2>3, <2>4 DEF RouterInv, AsksForForced
  <2> QED BY <1>1, <2>1, <2>5 DEF AuthNext
<1>5. CASE Outside /\ UNCHANGED routerVars
  <2>1. task \in [Actor -> Doing] /\ Cli \notin Task
    BY CliAssumption DEF RouterInv, AuthInv, AuthTypeOK
  <2>2. \A b \in Task : task'[b] = task[b]
    <3> USE DEF At, Become, Move, Actor
    <3>1. CASE TaskStep(Cli)
      <4>1. CASE LoadProfiles(Cli)
        BY <2>1, <4>1 DEF LoadProfiles, Answer
      <4>2. CASE RefreshToken(Cli)
        BY <2>1, <4>2 DEF RefreshToken, Answer
      <4>3. CASE CreateLock(Cli) \/ WriteMetadata(Cli) \/ FindStale(Cli) \/ Reclaim(Cli)
        BY <2>1, <4>3 DEF CreateLock, WriteMetadata, FindStale, Reclaim
      <4>4. CASE LockTimeout(Cli) \/ Reload(Cli) \/ WriteProfiles(Cli) \/ Unlock(Cli)
        BY <2>1, <4>4 DEF LockTimeout, Reload, WriteProfiles, Unlock, CliExits
      <4> QED BY <3>1, <4>1, <4>2, <4>3, <4>4 DEF TaskStep
    <3>2. CASE \E c \in Commands : Command(c[1], c[2])
      BY <2>1, <3>2 DEF Command
    <3>3. CASE Kill \/ Interrupt \/ \E p \in Profile : Expire(p)
      BY <2>1, <3>3 DEF Kill, CliExits, Interrupt, Expire
    <3> QED BY <1>5, <3>1, <3>2, <3>3 DEF Outside
  <2> QED BY <1>1, <1>2, <1>5, <2>2 DEF AuthNext
<1>6. ASSUME NEW k \in Key, Cool(k) PROVE RouterTyped' /\ AsksForForced' /\ [AuthNext]_authVars /\ chat' = chat
  <2>1. UNCHANGED authVars /\ UNCHANGED <<chat, keyIn, sticky>> /\ disabled' = disabled \ {k}
    BY <1>6 DEF Cool
  <2> QED BY <1>2, <1>3, <2>1 DEF RouterInv, RouterTyped
<1>7. CASE Tick
  <2>1. UNCHANGED authVars /\ UNCHANGED <<chat, keyIn, disabled>>
    BY <1>7 DEF Tick
  <2>2. sticky \in [spec : ModelSpec, left : 0 .. Window]
    BY <1>7 DEF Tick, RouterInv, RouterTyped
  <2>3. sticky.left - 1 \in 0 .. Window /\ sticky' = [sticky EXCEPT !.left = @ - 1]
    BY <1>7, <2>2, WindowAssumption DEF Tick
  <2>4. sticky' \in [spec : ModelSpec, left : 0 .. Window]
    BY <2>2, <2>3
  <2> QED BY <1>2, <1>3, <2>1, <2>4 DEF RouterInv, RouterTyped
<1>8. CASE UNCHANGED callVars
  BY <1>1, <1>2, <1>3, <1>8 DEF callVars
<1> QED BY <1>4, <1>5, <1>6, <1>7, <1>8

LEMMA RouterSteps ==
  RouterInv /\ [RouterNext]_callVars => RouterInv' /\ [AuthNext]_authVars
<1> SUFFICES ASSUME RouterInv, [RouterNext]_callVars PROVE RouterInv' /\ [AuthNext]_authVars
  OBVIOUS
<1>1. RouterTyped' /\ AsksForForced' /\ [AuthNext]_authVars
  BY CallsStay, TheRestStays DEF RouterNext
<1>2. AuthInv'
  BY <1>1, AuthStep DEF RouterInv
<1> QED BY <1>1, <1>2 DEF RouterInv

LEMMA RouterInvariant == RouterSpec => []RouterInv
<1>1. RouterInit => RouterInv
  <2> SUFFICES ASSUME RouterInit PROVE RouterInv
    OBVIOUS
  <2>1. AuthInv
    BY AuthStarts DEF RouterInit
  <2>2. chat \in [Agent -> Chats] /\ \A a \in Agent : chat[a] = Quiet
    BY QuietCall DEF RouterInit
  <2>3. RouterTyped
    BY <2>2, QuietCall DEF RouterInit, RouterTyped
  <2>4. AsksForForced
    BY <2>2, QuietCall DEF AsksForForced
  <2> QED BY <2>1, <2>3, <2>4 DEF RouterInv
<1> QED BY <1>1, RouterSteps, PTL DEF RouterSpec

\* The router uses the store of keys as any callers may: whatever it does is a
\* step of theirs (resolveOAuthApiKey, getOAuthApiKey).
THEOREM RouterUsesTheStore == RouterSpec => AuthSpec
<1>1. RouterInit => AuthInit
  BY DEF RouterInit
<1> QED BY <1>1, RouterSteps, RouterInvariant, PTL DEF RouterSpec, AuthSpec

\* So no write to the store is lost under model calls either, however many
\* agents refresh tokens while commands log in and out (withProfilesLock).
THEOREM CallsLoseNoUpdate == RouterSpec => []NoLostUpdate
BY RouterUsesTheStore, NoUpdateIsLost, PTL

THEOREM RouterIsTyped == RouterSpec => []RouterTypeOK
<1>1. RouterInv => RouterTypeOK
  <2> SUFFICES ASSUME RouterInv PROVE RouterTypeOK
    OBVIOUS
  <2>1. \A a \in Agent : Sane(a, chat[a]) /\ chat[a] \in Chats
    BY DEF RouterInv, RouterTyped
  <2>2. <<>> \in Seq(Profile \cup {None}) /\ <<None>> \in Seq(Profile \cup {None})
    OBVIOUS
  <2> QED BY <2>1, <2>2 DEF RouterInv, RouterTyped, Sane, Chats, RouterTypeOK, AuthInv
<1> QED BY <1>1, RouterInvariant, PTL

\* Of an adapter that sends as soon as it has a key, a call that its forced
\* profile could serve goes out with that profile's key, whoever gave the
\* shared instance another in between (provider-caller.ts, setApiKey); whatever
\* the adapters of the other instances do.
THEOREM ForcedKeys == RouterSpec => ForcedProfileIsUsed
<1>1. RouterInv /\ [RouterNext]_callVars =>
        [\A a \in Agent :
           /\ chat[a].pc = "resolve" /\ Len(chat[a].sources) = 1 /\ CalledInstance(a) \notin Late
           /\ chat'[a].pc = "call" /\ chat'[a].chain = chat[a].chain
           => keyIn'[CalledInstance(a)] = Forced[a]]_callVars
  <2> SUFFICES ASSUME RouterInv, [RouterNext]_callVars, NEW a \in Agent,
                      chat[a].pc = "resolve", Len(chat[a].sources) = 1, CalledInstance(a) \notin Late,
                      chat'[a].pc = "call", chat'[a].chain = chat[a].chain
               PROVE  keyIn'[CalledInstance(a)] = Forced[a]
    BY DEF RouterNext
  <2>1. /\ chat \in [Agent -> Chats] /\ \A b \in Agent : Sane(b, chat[b])
        /\ keyIn \in [OAuth -> Profile \cup {None}]
    BY DEF RouterInv, RouterTyped
  <2>2. chat[a].sources = <<None>>
    <3>1. chat[a] \in Chats
      BY <2>1
    <3>2. chat[a].sources \in {<<>>, <<None>>}
      BY <3>1 DEF Chats
    <3>3. Len(<<>>) # 1
      OBVIOUS
    <3> QED BY <3>2, <3>3
  <2>3. chat[a].pc = "resolve" /\ Forced[a] # None /\ CalledInstance(a) \in OAuth /\ chat[a].chain # <<>>
    BY <2>1, <2>2 DEF Sane, CalledInstance, Current
  <2>4. ASSUME chat'[a].pc = chat[a].pc PROVE FALSE
    BY <2>3, <2>4
  <2>5. PICK b \in Agent : StartChat(b) \/ Proceed(b)
    BY <2>4, TheRestStays DEF RouterNext
  <2>6. b = a
    <3> SUFFICES ASSUME b # a PROVE FALSE
      OBVIOUS
    <3>1. ASSUME NEW c, chat' = [chat EXCEPT ![b] = c] PROVE FALSE
      BY <2>1, <2>4, <3>1
    <3>2. ASSUME NEW keys, chat' = Forget(keys, [chat EXCEPT ![b] = Quiet]) PROVE FALSE
      <4> DEFINE chats == [chat EXCEPT ![b] = Quiet]
      <4>1. chats \in [Agent -> Chats] /\ (\A d \in Agent : Sane(d, chats[d])) /\ chats[a] = chat[a]
        BY <2>1, QuietCall
      <4>2. chat' = Forget(keys, chats)
        BY <3>2
      <4> HIDE DEF chats
      <4>3. chat'[a].pc = chat[a].pc
        BY <4>1, <4>2, Forgotten
      <4> QED BY <2>4, <4>3
    <3>3. CASE StartChat(b) \/ RateLimited(b) \/ Failure(b) \/ NonRetryable(b) \/ Call(b)
      BY <3>1, <3>3 DEF StartChat, RateLimited, Failure, NonRetryable, Call
    <3>4. CASE Success(b) \/ Retry(b)
      BY <3>2, <3>4 DEF Success, Retry
    <3>5. CASE NextSource(b)
      BY <2>1, <2>4, <3>5 DEF NextSource
    <3>6. CASE Dispatch(b)
      BY <2>1, <2>4, <3>6 DEF Dispatch
    <3> QED BY <2>5, <3>3, <3>4, <3>5, <3>6 DEF Proceed
  <2>7. CASE RateLimited(a)
    <3>1. chat' = [chat EXCEPT ![a] = GoOn(a, Pass(@), disabled)]
      BY <2>7 DEF RateLimited
    <3>2. /\ chat[a].chain \in Seq(Key) /\ Tail(chat[a].chain) \in Seq(Key)
          /\ Len(Tail(chat[a].chain)) = Len(chat[a].chain) - 1 /\ Len(chat[a].chain) \in Nat
      BY <2>1, <2>3 DEF Chats
    <3>3. Pass(chat[a]) \in Chats /\ Pass(chat[a]).chain = Tail(chat[a].chain)
      BY <2>1, <3>2 DEF Pass, Chats
    <3>4. chat'[a] = GoOn(a, Pass(chat[a]), disabled)
      BY <2>1, <3>1
    <3>5. /\ Sane(a, chat'[a]) /\ Len(chat'[a].chain) <= Len(Pass(chat[a]).chain)
      BY <3>3, <3>4, GoOnIsSane
    <3> QED BY <3>2, <3>3, <3>5
  <2>8. CASE Call(a)
    <3>1. Resolved(a) /\ keyIn' = [keyIn EXCEPT ![CalledInstance(a)] = GiveKey(a, CalledInstance(a))]
      BY <2>8 DEF Call
    <3>2. task[a].p # None
      BY <2>2, <3>1 DEF Resolved
    <3>3. task[a].p = Forced[a]
      BY <2>2, <2>3, <3>2 DEF RouterInv, AsksForForced
    <3> QED BY <2>1, <2>3, <3>1, <3>2, <3>3 DEF GiveKey
  <2>9. CASE NextSource(a)
    BY <2>1, <2>4, <2>9 DEF NextSource, Chats
  <2> QED BY <2>3, <2>5, <2>6, <2>7, <2>8, <2>9 DEF Proceed, StartChat, Dispatch, Success, NonRetryable, Failure, Retry
<1> QED BY <1>1, RouterInvariant, PTL DEF RouterSpec, ForcedProfileIsUsed
=============================================================================
