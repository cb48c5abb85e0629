-------------------------------- MODULE Notes --------------------------------
(***************************************************************************)
(* User notes and the NoteManager that hands them to the planner            *)
(* (src/src/runtime/notes.ts, server/routes/notes.ts).  One file per note;  *)
(* users create, acknowledge and delete notes at any time, between any two  *)
(* awaits of the planner.                                                   *)
(***************************************************************************)
EXTENDS Conversation

CONSTANTS
  Permanent,  \* the notes created with permanent: true
  MaxNotes    \* bound: the notes ever created

ASSUME PermanentAssumption == Permanent \subseteq Note

VARIABLES
  note,       \* note[n]: the file of note n
  delivered   \* the manager's delivered set

noteVars == <<note, delivered>>

NoteStates == {"none", "new", "acked", "gone"}
OnDisk == {n \in Note : note[n] \in {"new", "acked"}}

NotesTypeOK ==
  /\ note \in [Note -> NoteStates]
  /\ delivered \in SUBSET Note

NotesInit ==
  /\ note = [n \in Note |-> "none"]
  /\ delivered = {}

\* pullDeliverables: seen is what the directory held when it was read.
Deliverable(seen) ==
  {n \in Note : seen[n] \in {"new", "acked"}
                /\ (n \in Permanent \/ seen[n] = "new")} \ delivered

CreateUserNote(n) ==
  /\ note[n] = "none"
  /\ Cardinality({k \in Note : note[k] # "none"}) < MaxNotes
  /\ note' = [note EXCEPT ![n] = "new"]
  /\ UNCHANGED delivered

\* acknowledgeNote by a user: a volatile note goes, a permanent one is marked
\* and may be delivered again.
AcknowledgeNote(n) ==
  /\ n \in OnDisk
  /\ note' = [note EXCEPT ![n] = IF n \in Permanent THEN "acked" ELSE "gone"]
  /\ delivered' = delivered \ {n}

\* deleteNote; clearNotes is one such call after another.
DeleteNote(n) ==
  /\ n \in OnDisk
  /\ note' = [note EXCEPT ![n] = "gone"]
  /\ delivered' = delivered \ {n}

\* cleanupStaleNotes, at start-up: expired is what the time to live drops.
StartUp(expired) ==
  /\ note' = [n \in Note |-> IF n \in expired \cup {k \in OnDisk : note[k] = "acked"}
                                 /\ n \in OnDisk \ Permanent
                             THEN "gone" ELSE note[n]]
  /\ delivered' = {}
=============================================================================
