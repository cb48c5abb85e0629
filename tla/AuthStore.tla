------------------------------ MODULE AuthStore ------------------------------
(***************************************************************************)
(* The file of OAuth profiles (src/src/auth/store.ts): tasks of the server  *)
(* fetch keys from it and refresh expired tokens, a command-line process    *)
(* logs in and out, and all of them replace the file under a lock file.     *)
(* The command-line process may be killed at any point.  A signal it catches *)
(* does not end it: the handlers only remove the lock file it holds.        *)
(***************************************************************************)
EXTENDS Integers, Sequences

CONSTANTS
  Task,      \* tasks of the server that need a key
  Cli,       \* the command-line process
  Profile,   \* profiles of the OAuth provider
  Order,     \* the profiles in the order of the file
  None,
  Commands,  \* bound: the commands given, pairs of a kind and a profile
  Expiring,  \* bound: the profiles whose tokens expire
  MaxGen     \* bound: tokens a profile is given one after the other

ASSUME CliAssumption == Cli \notin Task /\ None \notin Profile
ASSUME OrderAssumption == Order \in Seq(Profile)
ASSUME CommandsAssumption == Commands \subseteq {"login", "logout"} \X Profile
ASSUME GenerationsAssumption == MaxGen \in Nat

VARIABLES
  store,     \* the file: None, or the tokens of each profile
  oldest,    \* oldest[p]: tokens of an earlier generation have expired
  lock,      \* the lock file: None, or who made it and whether its pid is in it
  task,      \* what each task and the command does with the store
  cliAlive,
  last,      \* history: what the last write about each profile was to leave in the file
  stolen     \* history: has the lock file of a live holder been removed under it?

fileVars == <<store, oldest, lock, cliAlive, last, stolen>>
authVars == <<fileVars, task>>

Actor == Task \cup {Cli}
LockRecord == [by : Actor, meta : BOOLEAN]
ASSUME NoneAssumption == None \notin LockRecord

Tokens == [login : {0, 1}, gen : 0 .. MaxGen]
File == [Profile -> Tokens \cup {None}]
Idle == [pc |-> "idle", op |-> "none", p |-> None, seen |-> None, new |-> None]

\* What an actor does: the profile it is after, what it has read of the file,
\* the tokens it has been given.
Doing == [pc : {"idle", "load", "refresh", "lock", "reclaim", "meta", "reload", "write",
                "unlock", "answered"},
          op : {"none", "key", "login", "logout"}, p : Profile \cup {None},
          seen : File \cup Tokens \cup {None}, new : Tokens \cup {None}]

AuthTypeOK ==
  /\ store \in File /\ last \in File
  /\ oldest \in [Profile -> 0 .. MaxGen]
  /\ lock \in LockRecord \cup {None}
  /\ task \in [Actor -> Doing]
  /\ cliAlive \in BOOLEAN /\ stolen \in BOOLEAN

AuthInit ==
  /\ store = [p \in Profile |-> [login |-> 0, gen |-> 0]]
  /\ oldest = [p \in Profile |-> 0]
  /\ lock = None
  /\ task = [t \in Actor |-> Idle]
  /\ cliAlive = TRUE
  /\ last = store
  /\ stolen = FALSE

At(t, pc) == task[t].pc = pc
IsAlive(t) == t # Cli \/ cliAlive
Become(t, changes) == task' = [task EXCEPT ![t] = changes]
Move(t, pc) == task' = [task EXCEPT ![t].pc = pc]

\* The command-line process ends, by itself or killed.
CliExits == cliAlive' = FALSE /\ Become(Cli, Idle)

\* The end of a key request: a profile whose token is good, or None.
Answer(t, p) == Become(t, [Idle EXCEPT !.pc = "answered", !.p = p])

\* getOAuthApiKey reads the file without the lock.  want is a profile, or None
\* for the provider's first one.
Entry(want) ==
  LET present == {i \in DOMAIN Order : store[Order[i]] # None}
  IN CASE want # None -> IF store[want] # None THEN want ELSE None
       [] want = None /\ present # {} -> Order[CHOOSE i \in present : \A j \in present : i <= j]
       [] OTHER -> None

Ask(want) == [Idle EXCEPT !.pc = "load", !.op = "key", !.p = want]

\* A task that waits for no key asks for one, or is done with the last.
Free(t) == task[t].pc \in {"idle", "answered"}
Request(t, want) == Free(t) /\ Become(t, Ask(want))
TakeAnswer(t) == Free(t) /\ Become(t, Idle)

LoadProfiles(t) ==
  /\ At(t, "load")
  /\ LET p == Entry(task[t].p)
     IN IF p = None THEN Answer(t, None)
        ELSE IF store[p].gen >= oldest[p] THEN Answer(t, p)
        ELSE Become(t, [task[t] EXCEPT !.pc = "refresh", !.p = p, !.seen = store[p]])
  /\ UNCHANGED <<store, oldest, lock, cliAlive, last, stolen>>

\* The OAuth server gives new tokens or refuses; a refusal is logged.
RefreshToken(t) ==
  /\ At(t, "refresh")
  /\ \/ Become(t, [task[t] EXCEPT !.pc = "lock", !.seen = None, !.new = [task[t].seen EXCEPT !.gen = oldest[task[t].p]]])
     \/ Answer(t, None)
  /\ UNCHANGED <<store, oldest, lock, cliAlive, last, stolen>>

CreateLockAnyway(t) ==
  /\ At(t, "lock")
  /\ lock' = [by |-> t, meta |-> FALSE]
  /\ Move(t, "meta")
  /\ UNCHANGED <<store, oldest, cliAlive, last, stolen>>

\* withProfilesLock: the file is created empty, its pid is written afterwards.
CreateLock(t) ==
  /\ At(t, "lock") /\ lock = None
  /\ lock' = [by |-> t, meta |-> FALSE]
  /\ Move(t, "meta")
  /\ UNCHANGED <<store, oldest, cliAlive, last, stolen>>

WriteMetadata(t) ==
  /\ At(t, "meta")
  /\ lock' = IF lock # None /\ lock.by = t THEN [lock EXCEPT !.meta = TRUE] ELSE lock
  /\ Move(t, "reload")
  /\ UNCHANGED <<store, oldest, cliAlive, last, stolen>>

\* tryReclaimStaleLock: read the pid and probe it, then unlink by path.
StaleLock == lock # None /\ lock.meta /\ ~IsAlive(lock.by)

FindStale(t) ==
  /\ At(t, "lock") /\ StaleLock
  /\ Move(t, "reclaim")
  /\ UNCHANGED <<store, oldest, lock, cliAlive, last, stolen>>

RemoveLock(t) ==
  /\ lock' = None
  /\ stolen' = (stolen \/ (lock # None /\ lock.by # t /\ IsAlive(lock.by)))

Reclaim(t) ==
  /\ At(t, "reclaim")
  /\ RemoveLock(t)
  /\ Move(t, "lock")
  /\ UNCHANGED <<store, oldest, cliAlive, last>>

\* Ten seconds without the lock: the command fails, and a refresh is given up
\* as failed although the server has issued its tokens.
LockTimeout(t) ==
  /\ At(t, "lock") /\ lock # None
  /\ IF t = Cli THEN CliExits ELSE Answer(t, None) /\ UNCHANGED cliAlive
  /\ UNCHANGED <<store, oldest, lock, last, stolen>>

Reload(t) ==
  /\ At(t, "reload")
  /\ Become(t, [task[t] EXCEPT !.pc = "write", !.seen = store])
  /\ UNCHANGED <<store, oldest, lock, cliAlive, last, stolen>>

\* What the mutation makes of the file it has read.
Refreshed(t, file) ==
  LET p == task[t].p
  IN IF file[p] = None THEN file
     ELSE [file EXCEPT ![p] = task[t].new]

Mutated(t, file) ==
  CASE task[t].op = "key" -> Refreshed(t, file)
    [] task[t].op = "login" -> [file EXCEPT ![task[t].p] = [login |-> 1, gen |-> MaxGen]]
    [] task[t].op = "logout" -> [file EXCEPT ![task[t].p] = None]

WriteProfiles(t) ==
  /\ At(t, "write")
  /\ store' = Mutated(t, task[t].seen)
  /\ last' = [last EXCEPT ![task[t].p] = store'[task[t].p]]
  /\ Move(t, "unlock")
  /\ UNCHANGED <<oldest, lock, cliAlive, stolen>>

Unlock(t) ==
  /\ At(t, "unlock")
  /\ RemoveLock(t)
  /\ IF t = Cli THEN CliExits ELSE Answer(t, task[t].p) /\ UNCHANGED cliAlive
  /\ UNCHANGED <<store, oldest, last>>

\* saivage login and saivage logout: one command, then the process exits.
Command(op, p) ==
  /\ cliAlive /\ At(Cli, "idle")
  /\ Become(Cli, [Idle EXCEPT !.pc = "lock", !.op = op, !.p = p])
  /\ UNCHANGED <<store, oldest, lock, cliAlive, last, stolen>>

Kill ==
  /\ cliAlive
  /\ CliExits
  /\ UNCHANGED <<store, oldest, lock, last, stolen>>

\* installExitHandlers: SIGINT and SIGTERM unlink the held lock and the process,
\* which has a handler for them now, goes on.
Interrupt ==
  /\ cliAlive /\ task[Cli].pc \in {"reload", "write", "unlock"} /\ lock # None
  /\ lock' = None
  /\ stolen' = TRUE
  /\ UNCHANGED <<store, oldest, task, cliAlive, last>>

\* Time passes: the tokens of a profile expire.
Expire(p) ==
  /\ p \in Expiring /\ oldest[p] < MaxGen
  /\ oldest' = [oldest EXCEPT ![p] = @ + 1]
  /\ UNCHANGED <<store, lock, task, cliAlive, last, stolen>>

TaskStep(t) ==
  /\ IsAlive(t)
  /\ \/ LoadProfiles(t) \/ RefreshToken(t) \/ CreateLock(t) \/ WriteMetadata(t) \/ FindStale(t)
     \/ Reclaim(t) \/ LockTimeout(t) \/ Reload(t) \/ WriteProfiles(t) \/ Unlock(t)

Outside ==
  \/ TaskStep(Cli)
  \/ \E c \in Commands : Command(c[1], c[2])
  \/ Kill \/ Interrupt
  \/ \E p \in Profile : Expire(p)

\* The store under the requests of any callers.
AuthNext ==
  \/ Outside
  \/ \E t \in Task :
       \/ TaskStep(t)
       \/ (\E want \in Profile \cup {None} : Request(t, want)) /\ UNCHANGED fileVars
       \/ TakeAnswer(t) /\ UNCHANGED fileVars

AuthSpec == AuthInit /\ [][AuthNext]_authVars

\* Under the lock no write about one profile undoes a write about another, as
\* long as no lock file was taken from a live holder, by another that took it
\* for stale or by a signal that did not end the holder.
NoLostUpdate == ~stolen => store = last
=============================================================================
