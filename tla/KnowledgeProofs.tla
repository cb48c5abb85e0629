--------------------------- MODULE KnowledgeProofs ---------------------------
(* The memories of the knowledge store, for any agents, topics, stages and    *)
(* number of mutations.  The proofs that need the values of rows cite a lemma *)
(* about what an operation leaves of a row, and one step fact that says what  *)
(* each action does to the table.                                             *)
EXTENDS Knowledge, WellFoundedInduction, TLAPS

(***************************************************************************)
(* Rows                                                                    *)
(***************************************************************************)

\* The same memory: what no operation on a row changes.
SameMemory(q, r) == q.topic = r.topic /\ q.scope = r.scope /\ q.replaces = r.replaces

\* The two copies of the status agree on whether the memory is archived.
Agrees(r) == r.shown = "archived" <=> r.status = "archived"

\* Row q is what an operation makes of row r: it brings no memory back, and
\* only the newest row becomes an heir.
Retires(q, r) ==
  /\ q \in Row /\ SameMemory(q, r)
  /\ q.status = "active" => r.status = "active" /\ q.heir = r.heir
  /\ q.heir \in {r.heir, writes + 1}
  /\ Agrees(r) => Agrees(q)

\* What the operations make of a row.
LEMMA RowMoves ==
  ASSUME NEW r \in Row
  PROVE  /\ \A b \in Ids : Retires([r EXCEPT !.body = b, !.pending = TRUE], r)
         /\ writes + 1 \in Ids /\ r.status = "active" =>
              Retires([r EXCEPT !.status = "superseded", !.heir = writes + 1, !.pending = TRUE], r)
         /\ Retires([r EXCEPT !.status = "archived", !.shown = "archived", !.pending = TRUE], r)
         /\ Retires([r EXCEPT !.pending = FALSE], r)
         /\ Retires(r, r)
BY DEF Retires, SameMemory, Agrees, Row

\* An absent row is no row.
LEMMA NoRowIsNone == NoRow \notin Row
<1>1. \A r \in Row : r.status \in {"active", "superseded", "archived"}
  BY DEF Row
<1>2. NoRow.status = "none"
  BY DEF NoRow
<1> QED BY <1>1, <1>2

\* The rows after this step come from the rows before, but for those in fresh.
Table == [Ids -> Row \cup {NoRow}]
Carries(fresh) ==
  \A i \in Ids \ fresh : records'[i] # NoRow => records[i] # NoRow /\ Retires(records'[i], records[i])

\* Row n holds a new memory, which replaces old.
IsNew(n, topic, scope, old) ==
  /\ records'[n] \in Row /\ Agrees(records'[n])
  /\ records'[n].topic = topic /\ records'[n].scope = scope /\ records'[n].replaces = old
  /\ records'[n].heir = Absent

\* The rows that no mutation has reached yet are empty.
Fresh == \A i \in Ids : i > writes => records[i] = NoRow

\* The id of the next mutation.
LEMMA NextId ==
  ASSUME TypeOK, writes < MaxWrites
  PROVE  writes + 1 \in Ids /\ writes + 1 \in 0..MaxWrites /\ writes + 1 # Absent /\ Ids \subseteq Nat
BY BoundAssumption DEF TypeOK, Ids, Absent

\* What each mutation does to the table.
LEMMA TableMoves ==
  ASSUME TypeOK, NEW c \in Callers, NEW role \in Roles
  PROVE  /\ \A topic \in Topics, scope \in Scopes : CreateMemory(c, role, topic, scope) =>
              /\ records' \in Table /\ Carries({writes + 1})
              /\ IsNew(writes + 1, topic, scope, Absent)
         /\ \A topic \in Topics, scope \in Scopes, i \in Ids : SupersedeMemory(c, role, i, topic, scope) /\ i # writes + 1 =>
              /\ records' \in Table /\ Carries({writes + 1})
              /\ IsNew(writes + 1, topic, scope, i)
         /\ \A i \in Ids : UpdateMemory(c, role, i) \/ ArchiveMemory(c, role, i) \/ DeleteMemory(c, role, i) =>
              records' \in Table /\ Carries({})
<1> DEFINE n == writes + 1
<1>1. records \in Table
  BY DEF TypeOK, Table
<1>2. \A i \in Ids : records[i] # NoRow => records[i] \in Row
  BY <1>1 DEF Table
<1>3. ASSUME NEW i \in Ids, NEW q \in Row, records[i] # NoRow, records' = [records EXCEPT ![i] = q], Retires(q, records[i])
      PROVE  records' \in Table /\ Carries({})
  BY <1>1, <1>2, <1>3, RowMoves DEF Table, Carries
<1>4. ASSUME NEW i \in Ids, UpdateMemory(c, role, i) PROVE records' \in Table /\ Carries({})
  <2>1. writes < MaxWrites /\ records[i] # NoRow
    BY <1>4 DEF UpdateMemory, Ready, MayUpdate, IsRow
  <2>2. records' = [records EXCEPT ![i] = [records[i] EXCEPT !.body = n, !.pending = TRUE]]
    BY <1>1, <1>4 DEF UpdateMemory, Mutate, Table
  <2> QED BY <1>2, <1>3, <2>1, <2>2, NextId, RowMoves DEF Retires
<1>5. ASSUME NEW i \in Ids, ArchiveMemory(c, role, i) PROVE records' \in Table /\ Carries({})
  <2>1. records[i] # NoRow
    BY <1>5 DEF ArchiveMemory, IsRow
  <2>2. records' = [records EXCEPT ![i] = [records[i] EXCEPT !.status = "archived", !.shown = "archived", !.pending = TRUE]]
    BY <1>1, <1>5 DEF ArchiveMemory, ArchiveRow, Mutate, Table
  <2> QED BY <1>2, <1>3, <2>1, <2>2, RowMoves DEF Retires
<1>6. ASSUME NEW i \in Ids, DeleteMemory(c, role, i) PROVE records' \in Table /\ Carries({})
  BY <1>1, <1>2, <1>6, RowMoves DEF DeleteMemory, DeleteRecord, Mutate, Table, Carries
<1>7. ASSUME NEW topic \in Topics, NEW scope \in Scopes, NEW old \in {Absent} \cup Ids, writes < MaxWrites
      PROVE  LET new == PutRecord(records, n, topic, scope, old)
             IN  /\ new \in Table /\ \A i \in Ids \ {n} : new[i] = records[i]
                 /\ new[n] \in Row /\ Agrees(new[n])
                 /\ new[n].topic = topic /\ new[n].scope = scope /\ new[n].replaces = old /\ new[n].heir = Absent
  <2> DEFINE row == [topic |-> topic, scope |-> scope, body |-> n, status |-> "active", shown |-> "active",
                     replaces |-> old, heir |-> Absent, pending |-> TRUE]
  <2>1. row \in Row
    BY <1>7, NextId DEF Row
  <2>2. PutRecord(records, n, topic, scope, old) = [records EXCEPT ![n] = row]
    BY DEF PutRecord
  <2>3. row.topic = topic /\ row.scope = scope /\ row.replaces = old /\ row.heir = Absent /\ Agrees(row)
    BY DEF Agrees
  <2> HIDE DEF row
  <2> QED BY <1>1, <1>7, <2>1, <2>2, <2>3, NextId DEF Table
<1>8. ASSUME NEW topic \in Topics, NEW scope \in Scopes, CreateMemory(c, role, topic, scope)
      PROVE  records' \in Table /\ Carries({n}) /\ IsNew(n, topic, scope, Absent)
  <2> DEFINE new == PutRecord(records, n, topic, scope, Absent)
  <2>1. writes < MaxWrites /\ records' = new
    BY <1>8 DEF CreateMemory, Ready, Mutate
  <2>2. /\ new \in Table /\ (\A k \in Ids \ {n} : new[k] = records[k])
        /\ new[n] \in Row /\ Agrees(new[n])
        /\ new[n].topic = topic /\ new[n].scope = scope /\ new[n].replaces = Absent /\ new[n].heir = Absent
    BY <1>7, <2>1
  <2> HIDE DEF new
  <2>3. Carries({n})
    BY <1>2, <2>1, <2>2, RowMoves DEF Carries
  <2> QED BY <2>1, <2>2, <2>3 DEF IsNew
<1>9. ASSUME NEW topic \in Topics, NEW scope \in Scopes, NEW i \in Ids, SupersedeMemory(c, role, i, topic, scope), i # n
      PROVE  records' \in Table /\ Carries({n}) /\ IsNew(n, topic, scope, i)
  <2> DEFINE new == PutRecord(records, n, topic, scope, i)
  <2>1. writes < MaxWrites /\ records' = MarkSuperseded(new, i, n) /\ records[i] # NoRow /\ records[i].status = "active"
    BY <1>9 DEF SupersedeMemory, Ready, Mutate, Active, IsRow
  <2>2. /\ new \in Table /\ (\A k \in Ids \ {n} : new[k] = records[k])
        /\ new[n] \in Row /\ Agrees(new[n])
        /\ new[n].topic = topic /\ new[n].scope = scope /\ new[n].replaces = i /\ new[n].heir = Absent
    BY <1>7, <2>1
  <2> HIDE DEF new
  <2>3. records' = [new EXCEPT ![i] = [new[i] EXCEPT !.status = "superseded", !.heir = n, !.pending = TRUE]]
    BY <1>9, <2>1, <2>2 DEF MarkSuperseded, Table
  <2>4. new[i] = records[i] /\ records[i] \in Row /\ n \in Ids
    BY <1>2, <1>9, <2>1, <2>2, NextId
  <2>5. Retires([new[i] EXCEPT !.status = "superseded", !.heir = n, !.pending = TRUE], records[i])
    BY <2>1, <2>4, RowMoves
  <2>6. records' \in Table /\ records'[n] = new[n] /\ Retires(records'[i], records[i])
        /\ \A k \in Ids \ {i, n} : records'[k] = records[k]
    BY <1>9, <2>2, <2>3, <2>4, <2>5 DEF Table, Retires
  <2> QED BY <1>2, <2>1, <2>2, <2>6, RowMoves DEF Carries, IsNew
<1> QED
  <2>1. ASSUME NEW topic \in Topics, NEW scope \in Scopes, NEW i \in Ids, SupersedeMemory(c, role, i, topic, scope)
        PROVE  i # n => records' \in Table /\ Carries({n}) /\ IsNew(n, topic, scope, i)
    BY <1>9, <2>1
  <2> QED BY <1>4, <1>5, <1>6, <1>8, <2>1

\* What the other steps do to the table.
LEMMA OtherTableMoves ==
  ASSUME TypeOK
  PROVE  /\ \A s \in Stages : ArchiveStage(s) => records' \in Table /\ Carries({}) /\ writes' = writes
         /\ \A c \in Callers : ClearPending(c) => records' \in Table /\ Carries({}) /\ writes' = writes
         /\ records' = records => records' \in Table /\ Carries({})
<1>1. records \in Table /\ \A i \in Ids : records[i] # NoRow => records[i] \in Row
  BY DEF TypeOK, Table
<1>2. ASSUME NEW s \in Stages, ArchiveStage(s) PROVE records' \in Table /\ Carries({}) /\ writes' = writes
  <2>1. records' = ArchiveScope(records, StageScope(s)) /\ writes' = writes
    BY <1>2 DEF ArchiveStage
  <2>2. ASSUME NEW i \in Ids
        PROVE  \/ records'[i] = records[i]
               \/ /\ records[i].status = "active"
                  /\ records'[i] = [records[i] EXCEPT !.status = "archived", !.shown = "archived", !.pending = TRUE]
    BY <1>1, <2>1 DEF ArchiveScope, ArchiveRow, Table
  <2>3. records' = [i \in Ids |-> records'[i]]
    BY <2>1 DEF ArchiveScope
  <2>4. NoRow.status # "active"
    BY DEF NoRow
  <2>5. ASSUME NEW i \in Ids
        PROVE  records'[i] \in Row \cup {NoRow} /\ (records'[i] # NoRow => records[i] # NoRow /\ Retires(records'[i], records[i]))
    <3>1. CASE records'[i] = records[i]
      BY <1>1, <3>1, RowMoves DEF Table
    <3>2. CASE records'[i] # records[i]
      <4>1. records[i] # NoRow /\ records[i] \in Row
        BY <1>1, <2>2, <2>4, <3>2
      <4>2. Retires(records'[i], records[i])
        BY <2>2, <3>2, <4>1, RowMoves
      <4> QED BY <4>1, <4>2 DEF Retires
    <3> QED BY <3>1, <3>2
  <2>6. records' \in Table
    BY <2>3, <2>5 DEF Table
  <2> QED BY <2>1, <2>5, <2>6 DEF Carries
<1>3. ASSUME NEW c \in Callers, ClearPending(c) PROVE records' \in Table /\ Carries({}) /\ writes' = writes
  <2>1. records' = ClearPendingReingest(records) /\ writes' = writes
    BY <1>3 DEF ClearPending
  <2>2. \A i \in Ids : records'[i] = IF records[i] = NoRow THEN NoRow ELSE [records[i] EXCEPT !.pending = FALSE]
    BY <2>1 DEF ClearPendingReingest
  <2>3. records' = [i \in Ids |-> records'[i]]
    BY <2>1 DEF ClearPendingReingest
  <2>4. ASSUME NEW i \in Ids
        PROVE  records'[i] \in Row \cup {NoRow} /\ (records'[i] # NoRow => records[i] # NoRow /\ Retires(records'[i], records[i]))
    <3>1. CASE records[i] = NoRow
      BY <2>2, <3>1
    <3>2. CASE records[i] # NoRow
      <4>1. records'[i] = [records[i] EXCEPT !.pending = FALSE] /\ records[i] \in Row
        BY <1>1, <2>2, <3>2
      <4>2. Retires(records'[i], records[i])
        BY <4>1, RowMoves
      <4> QED BY <3>2, <4>2 DEF Retires
    <3> QED BY <3>1, <3>2
  <2>5. records' \in Table
    BY <2>3, <2>4 DEF Table
  <2> QED BY <2>1, <2>4, <2>5 DEF Carries
<1>4. ASSUME records' = records PROVE records' \in Table /\ Carries({})
  BY <1>1, <1>4, RowMoves DEF Carries
<1> QED BY <1>2, <1>3, <1>4

\* A step retires memories or adds one, whose topic is free unless it replaces another.
Adds(topic, scope, old) ==
  /\ Carries({writes + 1}) /\ writes' = writes + 1 /\ writes + 1 \in Ids
  /\ IsNew(writes + 1, topic, scope, old)
  /\ old # Absent \/ FindActiveByTopic(topic, scope) = {}

\* What any step does to the table.
LEMMA StepRows ==
  ASSUME TypeOK, Fresh, [Next]_vars
  PROVE  /\ records' \in Table /\ writes' \in 0..MaxWrites
         /\ \/ Carries({}) /\ writes' \in {writes, writes + 1}
            \/ \E topic \in Topics, scope \in Scopes, old \in {Absent} \cup Ids : Adds(topic, scope, old)
<1> DEFINE Good ==
      /\ records' \in Table /\ writes' \in 0..MaxWrites
      /\ \/ Carries({}) /\ writes' \in {writes, writes + 1}
         \/ \E topic \in Topics, scope \in Scopes, old \in {Absent} \cup Ids : Adds(topic, scope, old)
<1>0. writes \in 0..MaxWrites
  BY DEF TypeOK
<1>1. ASSUME records' \in Table, Carries({}), writes' = writes PROVE Good
  BY <1>0, <1>1
<1>2. ASSUME records' = records, writes' = writes PROVE Good
  BY <1>1, <1>2, OtherTableMoves
<1>3. ASSUME NEW c \in Callers, NEW role \in Roles, NEW topic \in Topics, NEW scope \in Scopes,
             CreateMemory(c, role, topic, scope)
      PROVE  Good
  <2>1. writes < MaxWrites /\ writes' = writes + 1 /\ FindActiveByTopic(topic, scope) = {}
    BY <1>3 DEF CreateMemory, Ready, Mutate
  <2>2. records' \in Table /\ Carries({writes + 1}) /\ IsNew(writes + 1, topic, scope, Absent)
    BY <1>3, TableMoves
  <2>3. Adds(topic, scope, Absent)
    BY <2>1, <2>2, NextId DEF Adds
  <2> QED BY <2>1, <2>2, <2>3, NextId
<1>4. ASSUME NEW c \in Callers, NEW role \in Roles, NEW topic \in Topics, NEW scope \in Scopes, NEW i \in Ids,
             SupersedeMemory(c, role, i, topic, scope)
      PROVE  Good
  <2>1. writes < MaxWrites /\ writes' = writes + 1 /\ records[i] # NoRow
    BY <1>4 DEF SupersedeMemory, Ready, Mutate, Active, IsRow
  <2>2. i # writes + 1 /\ i # Absent
    BY <1>0, <2>1, NextId, BoundAssumption DEF Fresh, Ids, Absent
  <2>3. records' \in Table /\ Carries({writes + 1}) /\ IsNew(writes + 1, topic, scope, i)
    BY <1>4, <2>2, TableMoves
  <2>4. Adds(topic, scope, i)
    BY <2>1, <2>2, <2>3, NextId DEF Adds
  <2> QED BY <2>1, <2>3, <2>4, NextId
<1>5. ASSUME NEW c \in Callers, NEW role \in Roles, NEW i \in Ids,
             UpdateMemory(c, role, i) \/ ArchiveMemory(c, role, i) \/ DeleteMemory(c, role, i)
      PROVE  Good
  <2>1. writes < MaxWrites /\ writes' = writes + 1
    BY <1>5 DEF UpdateMemory, ArchiveMemory, DeleteMemory, Ready, Mutate
  <2>2. records' \in Table /\ Carries({})
    BY <1>5, TableMoves
  <2> QED BY <2>1, <2>2, NextId
<1>6. ASSUME NEW c \in Callers,
             AcquireIngestLock(c) \/ IngestLocked(c) \/ EmbedFails(c) \/ Publish(c) \/ FinishIngest(c)
      PROVE  Good
  BY <1>2, <1>6 DEF AcquireIngestLock, IngestLocked, EmbedFails, Publish, FinishIngest
<1>7. ASSUME NEW c \in Callers, ClearPending(c) PROVE Good
  BY <1>1, <1>7, OtherTableMoves
<1>8. ASSUME NEW s \in Stages, ArchiveStage(s) PROVE Good
  BY <1>1, <1>8, OtherTableMoves
<1>9. ASSUME SearchReturns \/ Crash \/ UNCHANGED vars \/ \E s \in Stages : SearchMemories(s) PROVE Good
  BY <1>2, <1>9 DEF SearchReturns, Crash, SearchMemories, vars
<1> HIDE DEF Good
<1> QED
  <2>1. Good
    BY <1>3, <1>4, <1>5, <1>6, <1>7, <1>8, <1>9 DEF Next
  <2> QED BY <2>1 DEF Good

\* No mutation reaches beyond the counter.
LEMMA StepFresh ==
  ASSUME TypeOK, Fresh, [Next]_vars PROVE Fresh'
<1>1. writes \in Nat /\ Ids \subseteq Nat
  BY BoundAssumption DEF TypeOK, Ids
<1>2. CASE Carries({}) /\ writes' \in {writes, writes + 1}
  BY <1>1, <1>2 DEF Carries, Fresh
<1>3. ASSUME NEW topic, NEW scope, NEW old, Adds(topic, scope, old) PROVE Fresh'
  BY <1>1, <1>3 DEF Adds, Carries, Fresh
<1> QED BY <1>2, <1>3, StepRows

(***************************************************************************)
(* Duplicates, and the two copies of the status.                           *)
(***************************************************************************)

\* Rows i and j are two active memories of one topic in one scope.
Twins(i, j) ==
  /\ Active(i) /\ Active(j)
  /\ records[i].topic = records[j].topic /\ records[i].scope = records[j].scope

\* An active memory was active before, or is new.
LEMMA ActiveBefore ==
  ASSUME NEW fresh, Carries(fresh), NEW i \in Ids \ fresh, Active(i)'
  PROVE  Active(i) /\ SameMemory(records'[i], records[i])
BY DEF Carries, Active, IsRow, Retires

\* A duplicate is the younger of two, and replaced another.
LEMMA StepDuplicates ==
  ASSUME TypeOK, Fresh, DuplicatesComeFromSupersession, [Next]_vars
  PROVE  DuplicatesComeFromSupersession'
<1>1. \A i, j \in Ids : i < j /\ Twins(i, j) => records[j].replaces # Absent
  BY DEF DuplicatesComeFromSupersession, Twins
<1>2. SUFFICES ASSUME NEW i \in Ids, NEW j \in Ids, i < j, Twins(i, j)' PROVE records'[j].replaces # Absent
  BY DEF DuplicatesComeFromSupersession, Twins
<1>3. ASSUME NEW fresh, Carries(fresh), i \notin fresh, j \notin fresh PROVE records'[j].replaces # Absent
  <2>1. Active(i) /\ SameMemory(records'[i], records[i]) /\ Active(j) /\ SameMemory(records'[j], records[j])
    BY <1>2, <1>3, ActiveBefore DEF Twins
  <2> QED BY <1>1, <1>2, <2>1 DEF Twins, SameMemory
<1>4. ASSUME NEW topic, NEW scope, NEW old, Adds(topic, scope, old) PROVE records'[j].replaces # Absent
  <2> DEFINE n == writes + 1
  <2>0. writes \in Nat /\ Ids \subseteq Nat /\ n \in Ids /\ Carries({n}) /\ IsNew(n, topic, scope, old)
    BY <1>4, BoundAssumption DEF TypeOK, Ids, Adds
  <2>1. CASE j = n /\ old # Absent
    BY <2>0, <2>1 DEF IsNew
  <2>2. CASE j = n /\ old = Absent
    <3>1. FindActiveByTopic(topic, scope) = {}
      BY <1>4, <2>2 DEF Adds
    <3>2. Active(i) /\ SameMemory(records'[i], records[i])
      BY <1>2, <2>0, <2>2, ActiveBefore DEF Twins
    <3>3. records[i].topic = topic /\ records[i].scope = scope
      BY <1>2, <2>0, <2>2, <3>2 DEF Twins, SameMemory, IsNew
    <3> QED BY <3>1, <3>2, <3>3 DEF FindActiveByTopic
  <2>3. CASE i = n
    <3>1. j > writes /\ j # n
      BY <1>2, <2>0, <2>3
    <3>2. records[j] = NoRow
      BY <3>1 DEF Fresh
    <3>3. records[j] # NoRow
      BY <1>2, <2>0, <3>1, ActiveBefore DEF Twins, Active, IsRow
    <3> QED BY <3>2, <3>3
  <2>4. CASE i # n /\ j # n
    BY <1>3, <2>0, <2>4
  <2> QED BY <2>1, <2>2, <2>3, <2>4
<1> QED
  <2>1. Carries({}) => records'[j].replaces # Absent
    BY <1>3
  <2> QED BY <1>4, <2>1, StepRows

\* No mutation lets the copies of a status part.
LEMMA StepCopies ==
  ASSUME TypeOK, Fresh, CopiesAgree, [Next]_vars PROVE CopiesAgree'
<1>1. ASSUME Carries({}) PROVE CopiesAgree'
  BY <1>1 DEF Carries, Retires, CopiesAgree, Agrees, IsRow
<1>2. ASSUME NEW topic, NEW scope, NEW old, Adds(topic, scope, old) PROVE CopiesAgree'
  BY <1>2 DEF Adds, IsNew, Carries, Retires, CopiesAgree, Agrees, IsRow
<1> QED BY <1>1, <1>2, StepRows

(***************************************************************************)
(* Lines of replacement.                                                   *)
(***************************************************************************)

\* A line leads from older rows to younger ones, and an active memory ends it.
LinesForward ==
  \A i \in Ids : IsRow(i) =>
    /\ records[i].heir \in {Absent} \cup {j \in Ids : i < j}
    /\ records[i].status = "active" => records[i].heir = Absent

\* The heir of a row is the newest of all when it is named.
LEMMA StepLines ==
  ASSUME TypeOK, Fresh, LinesForward, [Next]_vars PROVE LinesForward'
<1>1. writes \in Nat /\ Ids \subseteq Nat
  BY BoundAssumption DEF TypeOK, Ids
<1>2. ASSUME NEW i \in Ids, records[i] # NoRow PROVE i < writes + 1
  BY <1>1, <1>2 DEF Fresh
<1>3. ASSUME NEW fresh, Carries(fresh), records' \in Table, NEW i \in Ids \ fresh, IsRow(i)'
      PROVE  /\ records'[i].heir \in {Absent} \cup {j \in Ids : i < j}
             /\ records'[i].status = "active" => records'[i].heir = Absent
  <2>1. records[i] # NoRow /\ Retires(records'[i], records[i])
    BY <1>3 DEF Carries, IsRow
  <2>2. /\ records[i].heir \in {Absent} \cup {j \in Ids : i < j}
        /\ records[i].status = "active" => records[i].heir = Absent
    BY <2>1 DEF LinesForward, IsRow
  <2>3. records'[i].heir \in {Absent} \cup Ids
    BY <2>1 DEF Retires, Row
  <2> QED BY <1>2, <2>1, <2>2, <2>3 DEF Retires
<1>4. CASE Carries({}) /\ records' \in Table
  BY <1>3, <1>4 DEF LinesForward
<1>5. ASSUME NEW topic, NEW scope, NEW old, Adds(topic, scope, old), records' \in Table PROVE LinesForward'
  <2>1. records'[writes + 1].heir = Absent /\ Carries({writes + 1})
    BY <1>5 DEF Adds, IsNew
  <2> QED BY <1>3, <1>5, <2>1 DEF LinesForward
<1> QED BY <1>4, <1>5, StepRows

\* So the walk along a line is defined for every row.
LEMMA WalksEnd ==
  ASSUME LinesForward
  PROVE  \E w : w = [j \in Present |-> IF records[j].heir \in Present THEN w[records[j].heir] ELSE j]
<1> DEFINE Above(n) == {j \in Present : j > MaxWrites - n}
           Good(n) == \E w : \A j \in Above(n) :
                        w[j] = IF records[j].heir \in Present THEN w[records[j].heir] ELSE j
           Bad == {n \in 0 .. MaxWrites : ~Good(n)}
<1>1. MaxWrites \in Nat /\ \A j \in Present : j \in Nat /\ 1 <= j /\ j <= MaxWrites
  BY BoundAssumption DEF Ids, Present
<1>2. \A j \in Present : records[j].heir \in Present => j < records[j].heir
  BY BoundAssumption DEF LinesForward, Present, Ids, Absent
<1>3. Bad = {}
  <2> SUFFICES ASSUME Bad # {} PROVE FALSE
    OBVIOUS
  <2>1. Bad \subseteq Nat
    BY <1>1
  <2> HIDE DEF Good
  <2>2. \E n \in Bad : \A m \in Bad \ {n} : ~(<<m, n>> \in OpToRel(<, Nat))
    BY <2>1, NatLessThanWellFounded, WFMin, Zenon
  <2>3. PICK n \in Bad : \A m \in Bad \ {n} : ~(<<m, n>> \in OpToRel(<, Nat))
    BY <2>2, Zenon
  <2>4. \A m \in Bad \ {n} : ~(m < n)
    BY <2>1, <2>3, Zenon DEF OpToRel
  <2> HIDE <2>2, <2>3
  <2>5. n \in 0 .. MaxWrites /\ ~Good(n)
    OBVIOUS
  <2>6. CASE n = 0
    <3>1. Above(0) = {}
      BY <1>1
    <3> QED BY <2>5, <2>6, <3>1 DEF Good
  <2>7. CASE n # 0
    <3>1. Good(n - 1)
      BY <1>1, <2>4, <2>5, <2>7
    <3>2. PICK w : \A j \in Above(n - 1) : w[j] = IF records[j].heir \in Present THEN w[records[j].heir] ELSE j
      BY <3>1 DEF Good
    <3> DEFINE Further(j) == IF records[j].heir \in Present THEN w[records[j].heir] ELSE j
               v == [j \in Above(n) |-> IF j \in Above(n - 1) THEN w[j] ELSE Further(j)]
    <3>3. \A j \in Above(n) : records[j].heir \in Present => records[j].heir \in Above(n - 1) /\ records[j].heir \in Above(n)
      BY <1>1, <1>2, <2>5
    <3>4. \A j \in Above(n) : v[j] = IF j \in Above(n - 1) THEN w[j] ELSE Further(j)
      OBVIOUS
    <3>5. \A j \in Above(n) : v[j] = Further(j)
      BY <3>2, <3>4
    <3>6. \A j \in Above(n) : records[j].heir \in Present => v[records[j].heir] = w[records[j].heir]
      BY <3>3, <3>4
    <3> HIDE DEF v, Above
    <3>7. \A j \in Above(n) : v[j] = IF records[j].heir \in Present THEN v[records[j].heir] ELSE j
      BY <3>5, <3>6
    <3>8. Good(n)
      BY <3>7 DEF Good
    <3> QED BY <2>5, <3>8
  <2> QED BY <2>6, <2>7
<1>4. Good(MaxWrites)
  <2>1. MaxWrites \in 0 .. MaxWrites
    BY <1>1
  <2> HIDE DEF Good
  <2> QED BY <1>3, <2>1, Zenon
<1>5. Above(MaxWrites) = Present
  <2>1. \A j \in Present : j > MaxWrites - MaxWrites
    BY <1>1
  <2> QED BY <2>1, Zenon
<1>6. PICK w : \A j \in Present : w[j] = IF records[j].heir \in Present THEN w[records[j].heir] ELSE j
  BY <1>4, <1>5
<1> DEFINE v == [j \in Present |-> w[j]]
<1>7. \A j \in Present : v[j] = IF records[j].heir \in Present THEN v[records[j].heir] ELSE j
  BY <1>6
<1>8. v = [j \in Present |-> v[j]]
  OBVIOUS
<1> HIDE DEF v
<1>9. v = [j \in Present |-> IF records[j].heir \in Present THEN v[records[j].heir] ELSE j]
  BY <1>7, <1>8
<1> QED BY <1>9

\* It ends at a row that is no older than where it began.
LEMMA HeadsOfLines ==
  ASSUME LinesForward, NEW i \in Present
  PROVE  /\ ChainHead(i) \in Present /\ i <= ChainHead(i)
         /\ records[i].heir = Absent => ChainHead(i) = i
<1> DEFINE W == CHOOSE w : w = [j \in Present |-> IF records[j].heir \in Present THEN w[records[j].heir] ELSE j]
<1>1. ChainHead(i) = W[i]
  BY DEF ChainHead
<1>2. W = [j \in Present |-> IF records[j].heir \in Present THEN W[records[j].heir] ELSE j]
  BY WalksEnd, Zenon
<1> HIDE DEF W
<1>3. \A j \in Present : W[j] = IF records[j].heir \in Present THEN W[records[j].heir] ELSE j
  BY <1>2
<1>4. Ids \subseteq Nat /\ MaxWrites \in Nat /\ Present \subseteq Ids /\ Absent \notin Present /\ \A j \in Ids : j <= MaxWrites
  BY BoundAssumption DEF Ids, Present, Absent
<1>5. \A j \in Present : records[j].heir \in Present => j < records[j].heir
  BY <1>4 DEF LinesForward, Present
<1> DEFINE Bad == {n \in 0 .. MaxWrites : MaxWrites - n \in Present
                                           /\ ~(W[MaxWrites - n] \in Present /\ MaxWrites - n <= W[MaxWrites - n])}
<1>6. Bad = {}
  <2> SUFFICES ASSUME Bad # {} PROVE FALSE
    OBVIOUS
  <2>1. Bad \subseteq Nat
    BY <1>4
  <2>2. \E n \in Bad : \A m \in Bad \ {n} : ~(<<m, n>> \in OpToRel(<, Nat))
    BY <2>1, NatLessThanWellFounded, WFMin, Zenon
  <2>3. PICK n \in Bad : \A m \in Bad \ {n} : ~(<<m, n>> \in OpToRel(<, Nat))
    BY <2>2, Zenon
  <2>4. \A m \in Bad \ {n} : ~(m < n)
    BY <2>1, <2>3, Zenon DEF OpToRel
  <2> HIDE <2>2, <2>3
  <2> DEFINE j == MaxWrites - n
             h == records[j].heir
  <2>5. n \in 0 .. MaxWrites /\ j \in Present /\ ~(W[j] \in Present /\ j <= W[j])
    OBVIOUS
  <2>6. h \in Present /\ W[j] = W[h]
    BY <1>3, <1>4, <2>5
  <2>7. h \in Nat /\ j < h /\ h <= MaxWrites
    BY <1>4, <1>5, <2>5, <2>6
  <2>8. MaxWrites - h \in 0 .. MaxWrites /\ MaxWrites - h < n /\ MaxWrites - (MaxWrites - h) = h
    BY <1>4, <2>5, <2>7
  <2>9. MaxWrites - h \notin Bad
    BY <2>4, <2>8, <1>4
  <2>10. W[h] \in Present /\ h <= W[h]
    BY <2>6, <2>8, <2>9
  <2>11. W[h] \in Nat /\ j \in Nat
    BY <1>4, <2>5, <2>10
  <2>12. j <= W[h]
    BY <2>7, <2>10, <2>11
  <2> QED BY <2>5, <2>6, <2>10, <2>12
<1>7. W[i] \in Present /\ i <= W[i]
  <2>1. MaxWrites - i \in 0 .. MaxWrites /\ MaxWrites - (MaxWrites - i) = i
    BY <1>4
  <2> QED BY <1>6, <2>1
<1> QED BY <1>1, <1>3, <1>4, <1>7

\* The list shows what is not archived.
LEMMA ListFollowsStatus ==
  ASSUME TypeOK, CopiesAgree PROVE ListShowsTheUnarchived
<1>1. \A i \in Ids : IsRow(i) => records[i].shown \in {"active", "archived"}
  BY DEF TypeOK, IsRow, Row
<1> QED BY <1>1 DEF ListMemories, ListShowsTheUnarchived, CopiesAgree

\* An id and a topic lead to live memories alone, and to every one of them that
\* no other hides.
LEMMA LiveAreFound ==
  ASSUME TypeOK, LinesForward, DuplicatesComeFromSupersession PROVE LiveMemoriesAreFound
<1>1. ASSUME NEW i \in Ids, Active(i) PROVE GetMemory(i) = {i}
  <2>1. i \in Present /\ records[i].heir = Absent
    BY <1>1 DEF Active, Present, LinesForward
  <2>2. ChainHead(i) = i
    BY <2>1, HeadsOfLines
  <2> QED BY <1>1, <2>1, <2>2 DEF GetMemory
<1>2. ASSUME NEW i \in Ids, NEW j \in GetMemory(i) PROVE i <= j /\ Active(j)
  BY <1>2, HeadsOfLines DEF GetMemory
<1>3. ASSUME NEW j \in Ids, Active(j)
      PROVE  /\ GetMemoryByTopic(records[j].topic) # {}
             /\ \A i \in GetMemoryByTopic(records[j].topic) : Active(i) /\ (i = j \/ Hides(i, j))
  <2>1. GetMemoryByTopic(records[j].topic) # {}
    BY <1>3 DEF GetMemoryByTopic
  <2>2. ASSUME NEW i \in GetMemoryByTopic(records[j].topic) PROVE Active(i) /\ (i = j \/ Hides(i, j))
    <3>1. i \in Ids /\ Active(i) /\ records[i].topic = records[j].topic
      BY DEF GetMemoryByTopic
    <3>2. records[i].scope # records[j].scope => records[i].scope # Project
      BY <1>3 DEF GetMemoryByTopic
    <3>3. i # j => i < j \/ j < i
      BY <3>1, BoundAssumption DEF Ids
    <3>4. records[i].scope = records[j].scope /\ i # j => records[i].replaces # Absent \/ records[j].replaces # Absent
      BY <1>3, <3>1, <3>3 DEF DuplicatesComeFromSupersession
    <3> QED BY <3>1, <3>2, <3>4 DEF Hides
  <2> QED BY <2>1, <2>2
<1> QED BY <1>1, <1>2, <1>3 DEF LiveMemoriesAreFound

(***************************************************************************)
(* The dataset, the calls and the search.                                  *)
(***************************************************************************)

\* What a dataset is made into stays one.
LEMMA DatasetTypes ==
  ASSUME NEW d \in Dataset, NEW items \in Holding
  PROVE  /\ \A who \in Callers \cup {Nobody, Dead} : [d EXCEPT !.lock = who] \in Dataset
         /\ \A batch : UpsertBatch(d, items, batch) \in Dataset /\ UpsertBatch(d, items, batch).lock = d.lock
         /\ \A changed : /\ PutFileState(d, items, changed).chunks \in Holding
                         /\ PutFileState(d, items, changed).state \in Holding
<1>1. \A who \in Callers \cup {Nobody, Dead} : [d EXCEPT !.lock = who] \in Dataset
  BY DEF Dataset
<1>2. ASSUME NEW batch
      PROVE  UpsertBatch(d, items, batch) \in Dataset /\ UpsertBatch(d, items, batch).lock = d.lock
  <2> DEFINE chunks == [p \in Ids |-> IF p \in batch THEN items[p] ELSE d.chunks[p]]
  <2>1. chunks \in Holding
    BY DEF Dataset, Holding
  <2>2. UpsertBatch(d, items, batch) = [d EXCEPT !.chunks = chunks]
    BY DEF UpsertBatch, Dataset, Holding
  <2> HIDE DEF chunks
  <2> QED BY <2>1, <2>2 DEF Dataset
<1>3. ASSUME NEW changed
      PROVE  PutFileState(d, items, changed).chunks \in Holding /\ PutFileState(d, items, changed).state \in Holding
  <2>1. PutFileState(d, items, changed).chunks
          = [p \in Ids |-> IF p \in RemovedPaths(d.state, items) THEN Absent ELSE d.chunks[p]]
    BY DEF PutFileState, Dataset, Holding
  <2>2. PutFileState(d, items, changed).state
          = [p \in Ids |-> IF p \in RemovedPaths(d.state, items) THEN Absent
                           ELSE IF p \in changed THEN items[p] ELSE d.state[p]]
    BY DEF PutFileState, Dataset, Holding
  <2>3. PutFileState(d, items, changed).chunks \in Holding
    BY <2>1 DEF Dataset, Holding
  <2>4. PutFileState(d, items, changed).state \in Holding
    BY <2>2 DEF Dataset, Holding
  <2> QED BY <2>3, <2>4
<1> QED BY <1>1, <1>2, <1>3

\* Calls: idle ones, ones that move on, and the snapshot of a mutation.
LEMMA CallTypes ==
  /\ \A pc \in {"idle", "lock", "embed", "finish", "clear"} : CallAt(pc) \in Call /\ CallAt(pc).pc = pc
  /\ IdleCall = CallAt("idle")
  /\ \A x \in Call : /\ [x EXCEPT !.pc = "embed", !.role = "none"] \in Call
                     /\ [x EXCEPT !.pc = "finish"] \in Call
                     /\ [x EXCEPT !.pc = "embed", !.role = "none"].pc = "embed"
                     /\ [x EXCEPT !.pc = "finish"].pc = "finish"
  /\ \A role \in Roles, rows \in Table :
       [pc |-> "lock", role |-> role, items |-> ListActiveItems(rows)] \in Call
<1>1. \A pc \in {"idle", "lock", "embed", "finish", "clear"} : CallAt(pc) \in Call /\ CallAt(pc).pc = pc
  BY DEF CallAt, Call, Holding
<1>2. IdleCall = CallAt("idle")
  BY DEF IdleCall
<1>3. \A x \in Call : /\ [x EXCEPT !.pc = "embed", !.role = "none"] \in Call
                      /\ [x EXCEPT !.pc = "finish"] \in Call
                      /\ [x EXCEPT !.pc = "embed", !.role = "none"].pc = "embed"
                      /\ [x EXCEPT !.pc = "finish"].pc = "finish"
  BY DEF Call
<1>4. ASSUME NEW role \in Roles, NEW rows \in Table
      PROVE  [pc |-> "lock", role |-> role, items |-> ListActiveItems(rows)] \in Call
  <2>1. \A i \in Ids : rows[i].status = "active" => rows[i].body \in Ids
    <3>1. \A i \in Ids : rows[i] = NoRow \/ rows[i] \in Row
      BY DEF Table
    <3>2. NoRow.status # "active"
      BY DEF NoRow
    <3> QED BY <3>1, <3>2 DEF Row
  <2>2. ListActiveItems(rows) \in Holding
    BY <2>1 DEF ListActiveItems, Holding
  <2> QED BY <2>2 DEF Call
<1> QED BY <1>1, <1>2, <1>3, <1>4

\* One call moves, and the dataset's lock with it.
Moves(c, from, to) ==
  /\ \A e \in Callers \ {c} : calls'[e] = calls[e]
  /\ calls[c].pc = from /\ calls'[c].pc = to

\* The steps of a call on its way to publish.
LEMMA IngestMoves ==
  ASSUME TypeOK, NEW c \in Callers
  PROVE  /\ AcquireIngestLock(c) =>
              Moves(c, "lock", "embed") /\ ds.lock \in {Nobody, Dead} /\ ds'.lock = c
         /\ IngestLocked(c) => Moves(c, "lock", "idle") /\ ds'.lock = ds.lock
         /\ EmbedFails(c) => Moves(c, "embed", "idle") /\ ds'.lock = Nobody
         /\ Publish(c) => Moves(c, "embed", "finish") /\ ds'.lock = ds.lock
         /\ FinishIngest(c) => Moves(c, "finish", "clear") /\ ds'.lock = Nobody
         /\ ClearPending(c) => Moves(c, "clear", "idle") /\ ds'.lock = ds.lock
         /\ AcquireIngestLock(c) \/ IngestLocked(c) \/ EmbedFails(c) \/ Publish(c) \/ FinishIngest(c) \/ ClearPending(c) =>
              ds' \in Dataset /\ calls' \in [Callers -> Call] /\ search' = search
<1>0. calls \in [Callers -> Call] /\ ds \in Dataset /\ calls[c] \in Call
  BY DEF TypeOK
<1>1. CallAt("idle") \in Call /\ CallAt("idle").pc = "idle" /\ CallAt("clear") \in Call /\ CallAt("clear").pc = "clear"
  BY CallTypes
<1>2. calls[c].items \in Holding
  BY <1>0 DEF Call
<1>3. ASSUME NEW x \in Call, NEW to, x.pc = to, calls' = [calls EXCEPT ![c] = x]
      PROVE  calls' \in [Callers -> Call] /\ Moves(c, calls[c].pc, to)
  BY <1>0, <1>3 DEF Moves
<1>4. ASSUME AcquireIngestLock(c)
      PROVE  /\ Moves(c, "lock", "embed") /\ ds.lock \in {Nobody, Dead} /\ ds'.lock = c
             /\ ds' \in Dataset /\ calls' \in [Callers -> Call] /\ search' = search
  <2> DEFINE x == [calls[c] EXCEPT !.pc = "embed", !.role = "none"]
  <2>0. calls' = [calls EXCEPT ![c] = x]
    BY <1>0, <1>4 DEF AcquireIngestLock
  <2>1. x \in Call /\ x.pc = "embed" /\ calls[c].pc = "lock"
    BY <1>0, <1>4, CallTypes DEF AcquireIngestLock, At
  <2> HIDE DEF x
  <2>2. calls' \in [Callers -> Call] /\ Moves(c, "lock", "embed")
    BY <1>3, <2>0, <2>1
  <2>3. ds' \in Dataset /\ ds'.lock = c
    BY <1>0, <1>4, DatasetTypes DEF AcquireIngestLock, Dataset
  <2> QED BY <1>4, <2>2, <2>3 DEF AcquireIngestLock
<1>5. ASSUME IngestLocked(c)
      PROVE  /\ Moves(c, "lock", "idle") /\ ds'.lock = ds.lock
             /\ ds' \in Dataset /\ calls' \in [Callers -> Call] /\ search' = search
  <2>1. calls' \in [Callers -> Call] /\ Moves(c, "lock", "idle")
    BY <1>1, <1>3, <1>5, CallTypes DEF IngestLocked, At
  <2> QED BY <1>0, <1>5, <2>1 DEF IngestLocked
<1>6. ASSUME EmbedFails(c)
      PROVE  /\ Moves(c, "embed", "idle") /\ ds'.lock = Nobody
             /\ ds' \in Dataset /\ calls' \in [Callers -> Call] /\ search' = search
  <2>1. calls' \in [Callers -> Call] /\ Moves(c, "embed", "idle")
    BY <1>1, <1>3, <1>6, CallTypes DEF EmbedFails, At
  <2>2. ds' \in Dataset /\ ds'.lock = Nobody
    BY <1>0, <1>6 DEF EmbedFails, Dataset
  <2> QED BY <1>6, <2>1, <2>2 DEF EmbedFails
<1>7. ASSUME Publish(c)
      PROVE  /\ Moves(c, "embed", "finish") /\ ds'.lock = ds.lock
             /\ ds' \in Dataset /\ calls' \in [Callers -> Call] /\ search' = search
  <2> DEFINE x == [calls[c] EXCEPT !.pc = "finish"]
  <2>0. calls' = [calls EXCEPT ![c] = x]
    BY <1>0, <1>7 DEF Publish
  <2>1. x \in Call /\ x.pc = "finish" /\ calls[c].pc = "embed"
    BY <1>0, <1>7, CallTypes DEF Publish, At
  <2> HIDE DEF x
  <2>2. calls' \in [Callers -> Call] /\ Moves(c, "embed", "finish")
    BY <1>3, <2>0, <2>1
  <2>3. ds' \in Dataset /\ ds'.lock = ds.lock
    BY <1>0, <1>2, <1>7, DatasetTypes DEF Publish
  <2> QED BY <1>7, <2>2, <2>3 DEF Publish
<1>8. ASSUME FinishIngest(c)
      PROVE  /\ Moves(c, "finish", "clear") /\ ds'.lock = Nobody
             /\ ds' \in Dataset /\ calls' \in [Callers -> Call] /\ search' = search
  <2>1. calls' \in [Callers -> Call] /\ Moves(c, "finish", "clear")
    BY <1>1, <1>3, <1>8 DEF FinishIngest, At
  <2>2. ds' \in Dataset /\ ds'.lock = Nobody
    <3> DEFINE put == PutFileState(ds, calls[c].items, Changed(c))
    <3>1. put.chunks \in Holding /\ put.state \in Holding
      BY <1>0, <1>2, DatasetTypes
    <3>2. ds' = [chunks |-> put.chunks, state |-> put.state, lock |-> Nobody]
      BY <1>8 DEF FinishIngest
    <3> HIDE DEF put
    <3> QED BY <3>1, <3>2 DEF Dataset
  <2> QED BY <1>8, <2>1, <2>2 DEF FinishIngest
<1>9. ASSUME ClearPending(c)
      PROVE  /\ Moves(c, "clear", "idle") /\ ds'.lock = ds.lock
             /\ ds' \in Dataset /\ calls' \in [Callers -> Call] /\ search' = search
  <2>1. calls' \in [Callers -> Call] /\ Moves(c, "clear", "idle")
    BY <1>1, <1>3, <1>9, CallTypes DEF ClearPending, At
  <2> QED BY <1>0, <1>9, <2>1 DEF ClearPending
<1> QED BY <1>4, <1>5, <1>6, <1>7, <1>8, <1>9

\* The five mutations.
Mutation(c) ==
  \E role \in Roles :
    \/ \E topic \in Topics, scope \in Scopes :
         CreateMemory(c, role, topic, scope) \/ \E i \in Ids : SupersedeMemory(c, role, i, topic, scope)
    \/ \E i \in Ids : UpdateMemory(c, role, i) \/ ArchiveMemory(c, role, i) \/ DeleteMemory(c, role, i)

\* Whoever makes it, it puts the rows and starts the call that is to ingest them.
LEMMA MutatesRows ==
  ASSUME NEW c, NEW role, NEW rows, Mutate(c, role, rows)
  PROVE  Mutate(c, role, records')
BY Zenon DEF Mutate

LEMMA MutationsMutate ==
  ASSUME NEW c, NEW role,
         \/ \E topic \in Topics, scope \in Scopes :
              CreateMemory(c, role, topic, scope) \/ \E i \in Ids : SupersedeMemory(c, role, i, topic, scope)
         \/ \E i \in Ids : UpdateMemory(c, role, i) \/ ArchiveMemory(c, role, i) \/ DeleteMemory(c, role, i)
  PROVE  Mutate(c, role, records') /\ calls[c].pc = "idle"
<1>1. ASSUME NEW topic, NEW scope, CreateMemory(c, role, topic, scope)
      PROVE  Mutate(c, role, records') /\ Ready(c)
  BY <1>1, MutatesRows, Zenon DEF CreateMemory
<1>2. ASSUME NEW topic, NEW scope, NEW i, SupersedeMemory(c, role, i, topic, scope)
      PROVE  Mutate(c, role, records') /\ Ready(c)
  BY <1>2, MutatesRows, Zenon DEF SupersedeMemory
<1>3. ASSUME NEW i, UpdateMemory(c, role, i)
      PROVE  Mutate(c, role, records') /\ Ready(c)
  BY <1>3, MutatesRows, Zenon DEF UpdateMemory
<1>4. ASSUME NEW i, ArchiveMemory(c, role, i)
      PROVE  Mutate(c, role, records') /\ calls[c].pc = "idle"
  BY <1>4, MutatesRows, Zenon DEF ArchiveMemory, Ready
<1>5. ASSUME NEW i, DeleteMemory(c, role, i)
      PROVE  Mutate(c, role, records') /\ calls[c].pc = "idle"
  BY <1>5, MutatesRows, Zenon DEF DeleteMemory, Ready
<1> QED BY <1>1, <1>2, <1>3, <1>4, <1>5, Zenon DEF Ready

\* A mutation is the one step that makes a call wait for the lock.
LEMMA Mutates ==
  ASSUME TypeOK, Fresh, [Next]_vars, NEW c \in Callers, Mutation(c)
  PROVE  /\ calls' \in [Callers -> Call] /\ Moves(c, "idle", "lock")
         /\ ds' = ds /\ search' = search
<1>1. records' \in Table
  BY StepRows
<1>2. ASSUME NEW role \in Roles, Mutate(c, role, records'), calls[c].pc = "idle"
      PROVE  /\ calls' \in [Callers -> Call] /\ Moves(c, "idle", "lock")
             /\ ds' = ds /\ search' = search
  <2>1. [pc |-> "lock", role |-> role, items |-> ListActiveItems(records')] \in Call
    BY <1>1, CallTypes
  <2>2. calls' = [calls EXCEPT ![c] = [pc |-> "lock", role |-> role, items |-> ListActiveItems(records')]]
        /\ ds' = ds /\ search' = search
    BY <1>2 DEF Mutate
  <2> DEFINE x == [pc |-> "lock", role |-> role, items |-> ListActiveItems(records')]
  <2>3. x.pc = "lock"
    OBVIOUS
  <2> HIDE DEF x
  <2> QED BY <1>2, <2>1, <2>2, <2>3 DEF TypeOK, Moves, x
<1>3. \E role \in Roles : Mutate(c, role, records') /\ calls[c].pc = "idle"
  BY MutationsMutate, Zenon DEF Mutation
<1> QED BY <1>2, <1>3

\* The steps of the search, and the crash.
LEMMA SearchMoves ==
  ASSUME TypeOK
  PROVE  /\ \A s \in Stages : SearchMemories(s) =>
              /\ search' \in Search /\ UNCHANGED <<records, writes, ds, calls>>
              /\ search'.pc = "embed" /\ search'.stage = s /\ search'.found = VisibleScopeIds(s)
         /\ SearchReturns =>
              /\ search' \in Search /\ UNCHANGED <<records, writes, ds, calls>>
              /\ search.pc = "embed" /\ search'.pc = "done"
              /\ search'.answer \subseteq {i \in search.found : Active(i)}
         /\ Crash =>
              /\ search' = NoSearch /\ NoSearch \in Search /\ UNCHANGED <<records, writes>>
              /\ ds' \in Dataset /\ ds'.lock \notin Callers
              /\ calls' = [c \in Callers |-> IdleCall] /\ IdleCall \in Call /\ IdleCall.pc = "idle"
<1>1. \A s \in Stages : SearchMemories(s) =>
        /\ search' \in Search /\ UNCHANGED <<records, writes, ds, calls>>
        /\ search'.pc = "embed" /\ search'.stage = s /\ search'.found = VisibleScopeIds(s)
  BY DEF SearchMemories, Search, VisibleScopeIds
<1>2. ASSUME SearchReturns
      PROVE  /\ search' \in Search /\ UNCHANGED <<records, writes, ds, calls>>
             /\ search.pc = "embed" /\ search'.pc = "done"
             /\ search'.answer \subseteq {i \in search.found : Active(i)}
  <2> DEFINE live == {i \in {i \in search.found : ds.chunks[i] # Absent} : Active(i)}
  <2>1. search' = [search EXCEPT !.pc = "done", !.found = {}, !.answer = live]
    BY <1>2 DEF SearchReturns
  <2>2. search \in Search /\ live \subseteq {i \in search.found : Active(i)} /\ live \subseteq Ids
    BY DEF TypeOK, Search
  <2> HIDE DEF live
  <2>3. search' \in Search /\ search'.pc = "done" /\ search'.answer = live
    BY <2>1, <2>2 DEF Search
  <2> QED BY <1>2, <2>2, <2>3 DEF SearchReturns
<1>3. ASSUME Crash
      PROVE  /\ search' = NoSearch /\ NoSearch \in Search /\ UNCHANGED <<records, writes>>
             /\ ds' \in Dataset /\ ds'.lock \notin Callers
             /\ calls' = [c \in Callers |-> IdleCall] /\ IdleCall \in Call /\ IdleCall.pc = "idle"
  <2>1. NoSearch \in Search
    BY DEF NoSearch, Search
  <2>2. ds \in Dataset
    BY DEF TypeOK
  <2>3. ds' \in Dataset /\ ds'.lock \notin Callers
    BY <1>3, <2>2, HoldersAssumption DEF Crash, Dataset
  <2> QED BY <1>3, <2>1, <2>3, CallTypes DEF Crash
<1> QED BY <1>1, <1>2, <1>3

\* The disjuncts of a step, as the lemmas above have them.
LEMMA Steps ==
  ASSUME [Next]_vars
  PROVE  \/ \E c \in Callers : Mutation(c)
         \/ \E c \in Callers : \/ AcquireIngestLock(c) \/ IngestLocked(c) \/ EmbedFails(c)
                               \/ Publish(c) \/ FinishIngest(c) \/ ClearPending(c)
         \/ \E s \in Stages : ArchiveStage(s) \/ SearchMemories(s)
         \/ SearchReturns \/ Crash \/ UNCHANGED vars
BY DEF Next, Mutation

\* The state keeps its types.
LEMMA StepTypes ==
  ASSUME TypeOK, Fresh, [Next]_vars PROVE TypeOK'
<1>1. records' \in Table /\ writes' \in 0..MaxWrites
  BY StepRows
<1>2. ds \in Dataset /\ calls \in [Callers -> Call] /\ search \in Search
  BY DEF TypeOK
<1>3. ASSUME NEW c \in Callers, Mutation(c)
      PROVE  ds' \in Dataset /\ calls' \in [Callers -> Call] /\ search' \in Search
  BY <1>2, <1>3, Mutates
<1>4. ASSUME NEW c \in Callers,
             \/ AcquireIngestLock(c) \/ IngestLocked(c) \/ EmbedFails(c)
             \/ Publish(c) \/ FinishIngest(c) \/ ClearPending(c)
      PROVE  ds' \in Dataset /\ calls' \in [Callers -> Call] /\ search' \in Search
  BY <1>2, <1>4, IngestMoves
<1>5. ASSUME NEW s \in Stages, ArchiveStage(s) \/ SearchMemories(s)
      PROVE  ds' \in Dataset /\ calls' \in [Callers -> Call] /\ search' \in Search
  BY <1>2, <1>5, SearchMoves DEF ArchiveStage
<1>6. CASE SearchReturns
  <2>1. ds' \in Dataset /\ calls' \in [Callers -> Call] /\ search' \in Search
    BY <1>2, <1>6, SearchMoves
  <2> QED BY <1>1, <2>1 DEF TypeOK, Table
<1>7. CASE Crash
  <2>1. ds' \in Dataset /\ calls' \in [Callers -> Call] /\ search' \in Search
    BY <1>7, SearchMoves
  <2> QED BY <1>1, <2>1 DEF TypeOK, Table
<1>8. CASE UNCHANGED vars
  BY <1>1, <1>2, <1>8 DEF vars, TypeOK, Table
<1> QED
  BY <1>1, <1>3, <1>4, <1>5, <1>6, <1>7, <1>8, Steps DEF TypeOK, Table

\* The lock passes from nobody to a call, and back when the call has done.
LEMMA StepLock ==
  ASSUME TypeOK, Fresh, LockIsOfTheIngest, [Next]_vars PROVE LockIsOfTheIngest'
<1>1. \A c \in Callers : calls[c].pc \in {"embed", "finish"} <=> ds.lock = c
  BY DEF LockIsOfTheIngest
<1>2. Nobody \notin Callers /\ Dead \notin Callers
  BY HoldersAssumption
<1>3. ASSUME NEW c \in Callers, NEW from, NEW to, Moves(c, from, to), ds'.lock = ds.lock,
             from \in {"embed", "finish"} <=> to \in {"embed", "finish"}
      PROVE  LockIsOfTheIngest'
  BY <1>1, <1>3 DEF Moves, LockIsOfTheIngest
<1>4. ASSUME NEW c \in Callers, NEW from, NEW to, Moves(c, from, to), ds'.lock = Nobody,
             from \in {"embed", "finish"}, to \notin {"embed", "finish"}
      PROVE  LockIsOfTheIngest'
  BY <1>1, <1>2, <1>4 DEF Moves, LockIsOfTheIngest
<1>5. ASSUME NEW c \in Callers, AcquireIngestLock(c) PROVE LockIsOfTheIngest'
  BY <1>1, <1>2, <1>5, IngestMoves DEF Moves, LockIsOfTheIngest
<1>6. ASSUME NEW c \in Callers, IngestLocked(c) \/ Publish(c) \/ ClearPending(c) PROVE LockIsOfTheIngest'
  BY <1>3, <1>6, IngestMoves
<1>7. ASSUME NEW c \in Callers, EmbedFails(c) \/ FinishIngest(c) PROVE LockIsOfTheIngest'
  BY <1>4, <1>7, IngestMoves
<1>8. ASSUME NEW c \in Callers, Mutation(c) PROVE LockIsOfTheIngest'
  BY <1>3, <1>8, Mutates
<1>9. CASE Crash
  BY <1>9, SearchMoves DEF LockIsOfTheIngest
<1>10. CASE ds' = ds /\ calls' = calls
  BY <1>10 DEF LockIsOfTheIngest
<1>11. (\E s \in Stages : ArchiveStage(s) \/ SearchMemories(s)) \/ SearchReturns \/ UNCHANGED vars
         => ds' = ds /\ calls' = calls
  BY DEF ArchiveStage, SearchMemories, SearchReturns, vars
<1> QED BY <1>5, <1>6, <1>7, <1>8, <1>9, <1>10, <1>11, Steps

\* What a search has found is old enough to stay what it is: a memory that is
\* still there is in the scope it was found in.
FoundInScope ==
  search.pc = "embed" => \A i \in search.found :
    i <= writes /\ (IsRow(i) => records[i].scope \in {Project, StageScope(search.stage)})

\* No id is used twice.
LEMMA StepFound ==
  ASSUME TypeOK, Fresh, FoundInScope, [Next]_vars PROVE FoundInScope'
<1>0. writes \in Nat /\ Ids \subseteq Nat /\ search.found \subseteq Ids
  BY BoundAssumption DEF TypeOK, Ids, Search
<1>1. ASSUME search' = search PROVE FoundInScope'
  <2>1. writes' \in {writes, writes + 1} /\ (Carries({}) \/ Carries({writes + 1}))
    BY StepRows DEF Adds
  <2>2. ASSUME NEW i \in search.found, search.pc = "embed"
        PROVE  i <= writes' /\ (IsRow(i)' => records'[i].scope \in {Project, StageScope(search.stage)})
    <3>1. i \in Ids /\ i <= writes /\ (records[i] # NoRow => records[i].scope \in {Project, StageScope(search.stage)})
      BY <1>0, <2>2 DEF FoundInScope, IsRow
    <3>2. i \in Ids \ {writes + 1} /\ i <= writes'
      BY <1>0, <2>1, <3>1
    <3>3. records'[i] # NoRow => records[i] # NoRow /\ records'[i].scope = records[i].scope
      BY <2>1, <3>2 DEF Carries, Retires, SameMemory
    <3> QED BY <3>1, <3>2, <3>3 DEF IsRow
  <2> QED BY <1>1, <2>2 DEF FoundInScope
<1>2. ASSUME NEW s \in Stages, SearchMemories(s) PROVE FoundInScope'
  <2>1. /\ UNCHANGED <<records, writes>>
        /\ search'.stage = s /\ search'.found = VisibleScopeIds(s)
    BY <1>2, SearchMoves
  <2>2. \A i \in VisibleScopeIds(s) : i <= writes /\ records[i].scope \in {Project, StageScope(s)}
    BY <1>0 DEF VisibleScopeIds, Active, IsRow, Fresh
  <2> QED BY <2>1, <2>2 DEF FoundInScope
<1>3. CASE SearchReturns
  BY <1>3, SearchMoves DEF FoundInScope
<1>4. CASE Crash
  BY <1>4, SearchMoves DEF FoundInScope, NoSearch
<1>5. ASSUME NEW c \in Callers, Mutation(c) PROVE search' = search
  BY <1>5, Mutates
<1>6. ASSUME NEW c \in Callers,
             \/ AcquireIngestLock(c) \/ IngestLocked(c) \/ EmbedFails(c)
             \/ Publish(c) \/ FinishIngest(c) \/ ClearPending(c)
      PROVE  search' = search
  BY <1>6, IngestMoves
<1>7. (\E s \in Stages : ArchiveStage(s)) \/ UNCHANGED vars => search' = search
  BY DEF ArchiveStage, vars
<1> QED BY <1>1, <1>2, <1>3, <1>4, <1>5, <1>6, <1>7, Steps

\* The search that answers finds its memories again, each in scope.
LEMMA SearchAnswers ==
  ASSUME TypeOK, Fresh, FoundInScope, [Next]_vars, search.pc = "embed", search'.pc = "done",
         NEW i \in search'.answer
  PROVE  /\ records[i] # NoRow /\ records[i].status = "active"
         /\ records[i].scope # Project => records[i].scope.stage = search.stage
<1>1. SearchReturns
  <2>1. search' # search
    OBVIOUS
  <2>2. \A c \in Callers : ~Mutation(c)
    BY <2>1, Mutates
  <2>3. \A c \in Callers :
          ~(\/ AcquireIngestLock(c) \/ IngestLocked(c) \/ EmbedFails(c)
            \/ Publish(c) \/ FinishIngest(c) \/ ClearPending(c))
    BY <2>1, IngestMoves
  <2>4. ~(\E s \in Stages : ArchiveStage(s)) /\ ~UNCHANGED vars
    BY <2>1 DEF ArchiveStage, vars
  <2>5. \A s \in Stages : ~SearchMemories(s)
    BY SearchMoves
  <2>6. ~Crash
    BY SearchMoves DEF NoSearch
  <2> QED BY <2>2, <2>3, <2>4, <2>5, <2>6, Steps
<1>2. i \in search.found /\ Active(i)
  BY <1>1, SearchMoves
<1>3. records[i].scope \in {Project, StageScope(search.stage)}
  BY <1>2 DEF FoundInScope, Active
<1>4. StageScope(search.stage).stage = search.stage
  BY DEF StageScope
<1> QED BY <1>2, <1>3, <1>4 DEF Active, IsRow

(***************************************************************************)
(* What a role may write.                                                  *)
(***************************************************************************)

\* The memory is one the role may write.
InScope(role, row) ==
  /\ role \in Workers => row.scope = StageScope(CallerStage)
  /\ role = "librarian" => row.scope = Project /\ row.topic \in RagTopics

\* The access matrix leaves workers and the librarian creations and updates
\* in their scope, and nothing else.
LEMMA Access ==
  ASSUME NEW role
  PROVE  /\ \A op \in {"create", "update"} : \A row :
              CheckScope(role, op, row.scope) /\ TopicAllowed(role, row.topic) => InScope(role, row)
         /\ \A op \in {"supersede", "archive", "delete"} : \A row : CanCall(role, op) => InScope(role, row)
<1>1. ASSUME role \in Workers \cup {"librarian"}
      PROVE  /\ \A op \in {"create", "update"} : CellFor(role, op) = "scoped"
             /\ \A op \in {"supersede", "archive", "delete"} : CellFor(role, op) = "no"
  BY <1>1 DEF CellFor, Workers, Owners
<1>2. "librarian" \notin Workers
  BY DEF Workers
<1>3. CASE role \in Workers \cup {"librarian"}
  BY <1>1, <1>2, <1>3 DEF CheckScope, TopicAllowed, CanCall, InScope
<1>4. CASE role \notin Workers \cup {"librarian"}
  BY <1>4 DEF InScope
<1> QED BY <1>3, <1>4

\* The rows a step changes, before and after, are the role's.
ChangesInScope(role) ==
  \A i \in Ids : records'[i] # records[i] =>
    /\ records[i] # NoRow => InScope(role, records[i])
    /\ records'[i] # NoRow => InScope(role, records'[i])

\* A mutation in the name of a role changes rows of its scope.
LEMMA MutationsInScope ==
  ASSUME TypeOK, Fresh, NEW c \in Callers, NEW role \in Roles
  PROVE  /\ \A topic \in Topics, scope \in Scopes : CreateMemory(c, role, topic, scope) => ChangesInScope(role)
         /\ \A topic \in Topics, scope \in Scopes, i \in Ids :
              SupersedeMemory(c, role, i, topic, scope) => ChangesInScope(role)
         /\ \A i \in Ids : UpdateMemory(c, role, i) \/ ArchiveMemory(c, role, i) \/ DeleteMemory(c, role, i)
              => ChangesInScope(role)
<1>0. records \in Table /\ writes \in Nat /\ Ids \subseteq Nat
  BY BoundAssumption DEF TypeOK, Table, Ids
<1>1. ASSUME NEW op \in {"supersede", "archive", "delete"}, CanCall(role, op) PROVE ChangesInScope(role)
  BY <1>1, Access DEF ChangesInScope
<1>2. ASSUME NEW topic \in Topics, NEW scope \in Scopes, CreateMemory(c, role, topic, scope)
      PROVE  ChangesInScope(role)
  <2> DEFINE n == writes + 1
  <2>1. /\ CheckScope(role, "create", scope) /\ TopicAllowed(role, topic)
        /\ records' = PutRecord(records, n, topic, scope, Absent)
    BY <1>2 DEF CreateMemory, MayCreate, Mutate
  <2>2. \A i \in Ids : i # n => records'[i] = records[i]
    BY <1>0, <2>1 DEF PutRecord, Table
  <2>3. n \in Ids => records[n] = NoRow
    BY <1>0 DEF Fresh
  <2>4. records'[n].topic = topic /\ records'[n].scope = scope
    BY <1>2, TableMoves DEF IsNew
  <2>5. InScope(role, records'[n])
    BY <2>1, <2>4, Access
  <2> QED BY <2>2, <2>3, <2>5 DEF ChangesInScope
<1>3. ASSUME NEW i \in Ids, UpdateMemory(c, role, i) PROVE ChangesInScope(role)
  <2>1. /\ CheckScope(role, "update", records[i].scope) /\ TopicAllowed(role, records[i].topic)
        /\ records' = [records EXCEPT ![i].body = writes + 1, ![i].pending = TRUE]
    BY <1>3 DEF UpdateMemory, MayUpdate, Mutate
  <2>2. \A k \in Ids : k # i => records'[k] = records[k]
    BY <1>0, <2>1 DEF Table
  <2>3. records'[i] # NoRow => SameMemory(records'[i], records[i])
    BY <1>3, TableMoves DEF Carries, Retires
  <2>4. InScope(role, records[i])
    BY <2>1, Access
  <2>5. records'[i] # NoRow => InScope(role, records'[i])
    BY <2>3, <2>4 DEF InScope, SameMemory
  <2> QED BY <2>2, <2>4, <2>5 DEF ChangesInScope
<1>4. \A i \in Ids : /\ ArchiveMemory(c, role, i) => CanCall(role, "archive")
                     /\ DeleteMemory(c, role, i) => CanCall(role, "delete")
  BY DEF ArchiveMemory, DeleteMemory, HasTool
<1>5. \A topic \in Topics, scope \in Scopes, i \in Ids :
        SupersedeMemory(c, role, i, topic, scope) => CanCall(role, "supersede")
  BY DEF SupersedeMemory, MaySupersede, HasTool
<1> QED BY <1>1, <1>2, <1>3, <1>4, <1>5

\* The call that begins to wait for the lock has made the step's mutation.
LEMMA StepScope ==
  ASSUME TypeOK, Fresh, [Next]_vars, NEW c \in Callers, calls[c].pc = "idle", calls'[c].pc = "lock"
  PROVE  ChangesInScope(calls'[c].role)
<1>1. Mutation(c)
  <2>1. \A e \in Callers : Mutation(e) => e = c
    BY Mutates DEF Moves
  <2>2. \A e \in Callers :
          ~(\/ AcquireIngestLock(e) \/ IngestLocked(e) \/ EmbedFails(e)
            \/ Publish(e) \/ FinishIngest(e) \/ ClearPending(e))
    BY IngestMoves DEF Moves
  <2>3. calls' # calls
    OBVIOUS
  <2>4. ~(\E s \in Stages : ArchiveStage(s) \/ SearchMemories(s)) /\ ~SearchReturns /\ ~UNCHANGED vars
    BY <2>3 DEF ArchiveStage, SearchMemories, SearchReturns, vars
  <2>5. ~Crash
    BY SearchMoves
  <2> QED BY <2>1, <2>2, <2>4, <2>5, Steps
<1>2. \A role \in Roles : Mutate(c, role, records') => calls'[c].role = role
  BY DEF Mutate, TypeOK
<1>3. PICK role \in Roles :
        /\ \/ \E topic \in Topics, scope \in Scopes :
                CreateMemory(c, role, topic, scope) \/ \E i \in Ids : SupersedeMemory(c, role, i, topic, scope)
           \/ \E i \in Ids : UpdateMemory(c, role, i) \/ ArchiveMemory(c, role, i) \/ DeleteMemory(c, role, i)
        /\ Mutate(c, role, records')
  BY <1>1, MutationsMutate, Zenon DEF Mutation
<1>4. ChangesInScope(role)
  BY <1>3, MutationsInScope
<1> QED BY <1>2, <1>3, <1>4

(***************************************************************************)
(* The theorems.                                                           *)
(***************************************************************************)

\* The inductive invariant.
IInv ==
  /\ TypeOK /\ Fresh /\ DuplicatesComeFromSupersession
  /\ CopiesAgree /\ LinesForward /\ LockIsOfTheIngest /\ FoundInScope

\* It holds of an empty store.
LEMMA InitInv ==
  ASSUME Init PROVE IInv
<1>1. records \in Table /\ \A i \in Ids : records[i] = NoRow
  BY DEF Init, Table
<1>2. writes \in 0..MaxWrites
  BY BoundAssumption DEF Init
<1>3. ds \in Dataset /\ ds.lock = Nobody
  BY DEF Init, EmptyDataset, Dataset, Holding
<1>4. calls \in [Callers -> Call] /\ \A c \in Callers : calls[c].pc = "idle"
  BY CallTypes DEF Init
<1>5. search \in Search /\ search.pc = "idle"
  BY DEF Init, NoSearch, Search
<1>6. TypeOK
  BY <1>1, <1>2, <1>3, <1>4, <1>5 DEF TypeOK, Table
<1>7. Fresh /\ CopiesAgree /\ LinesForward /\ DuplicatesComeFromSupersession
  BY <1>1 DEF Fresh, CopiesAgree, LinesForward, DuplicatesComeFromSupersession, Active, IsRow
<1>8. LockIsOfTheIngest
  BY <1>3, <1>4, HoldersAssumption DEF LockIsOfTheIngest
<1>9. FoundInScope
  BY <1>5 DEF FoundInScope
<1> QED BY <1>6, <1>7, <1>8, <1>9 DEF IInv

\* And every step keeps it.
LEMMA StepInv ==
  ASSUME IInv, [Next]_vars PROVE IInv'
BY StepTypes, StepFresh, StepDuplicates, StepCopies, StepLines, StepLock, StepFound DEF IInv

\* The state keeps its types, whatever the calls do.
THEOREM Invariance == Spec => []IInv
<1>1. Init => IInv
  BY InitInv
<1>2. IInv /\ [Next]_vars => IInv'
  BY StepInv
<1> QED BY <1>1, <1>2, PTL DEF Spec

\* Two active memories share topic and scope only where the younger was written
\* as the replacement of another: creations refuse the topic and nothing
\* brings a retired memory back.
THEOREM DuplicatesAreReplacements == Spec => []DuplicatesComeFromSupersession
<1>1. IInv => DuplicatesComeFromSupersession
  BY DEF IInv
<1> QED BY <1>1, Invariance, PTL

\* The status in the column and the one inside record_json agree on whether a
\* memory is archived, through any updates, replacements and archivings.
THEOREM StatusCopiesAgree == Spec => []CopiesAgree
<1>1. IInv => CopiesAgree
  BY DEF IInv
<1> QED BY <1>1, Invariance, PTL

\* The list tool leaves out the archived memories alone (listMemories).
THEOREM ListOfUnarchived == Spec => []ListShowsTheUnarchived
<1>1. IInv => ListShowsTheUnarchived
  BY ListFollowsStatus DEF IInv
<1> QED BY <1>1, Invariance, PTL

\* An id leads to a live memory of its line or to none, through any sequence of
\* replacements, promotions, archivings and deletions (walkSupersedeChainRow);
\* a live memory is found by its id, and by its topic unless a stage's memory of
\* the topic or the twin of a replacement hides it (getMemory).
THEOREM LiveMemoriesFound == Spec => []LiveMemoriesAreFound
<1>1. IInv => LiveMemoriesAreFound
  BY LiveAreFound DEF IInv
<1> QED BY <1>1, Invariance, PTL

\* The lock is held by exactly the call that is inside the ingest.
THEOREM LockFollowsTheIngest == Spec => []LockIsOfTheIngest
<1>1. IInv => LockIsOfTheIngest
  BY DEF IInv
<1> QED BY <1>1, Invariance, PTL

\* A search answers with memories that are active and in its scope when it answers.
THEOREM SearchesAnswerLive == Spec => AnswersAreLive
<1>1. IInv /\ [Next]_vars => [search.pc = "embed" /\ search'.pc = "done" =>
         \A i \in search'.answer :
             /\ records[i] # NoRow /\ records[i].status = "active"
             /\ records[i].scope # Project => records[i].scope.stage = search.stage]_vars
  BY SearchAnswers DEF IInv
<1> QED BY <1>1, Invariance, PTL DEF Spec, AnswersAreLive

\* A worker's mutation touches only memories of its stage, a librarian's only
\* project memories of its topics.
THEOREM ScopesHold == Spec => WritesStayInScope
<1>1. ASSUME IInv, [Next]_vars
      PROVE  \A c \in Callers : calls[c].pc = "idle" /\ calls'[c].pc = "lock" =>
               \A i \in Ids : \A row \in {records[i], records'[i]} :
                 records'[i] # records[i] /\ row # NoRow =>
                   /\ calls'[c].role \in Workers => row.scope = StageScope(CallerStage)
                   /\ calls'[c].role = "librarian" => row.scope = Project /\ row.topic \in RagTopics
  <2>1. \A c \in Callers : calls[c].pc = "idle" /\ calls'[c].pc = "lock" => ChangesInScope(calls'[c].role)
    BY <1>1, StepScope DEF IInv
  <2> QED BY <2>1 DEF ChangesInScope, InScope
<1> QED BY <1>1, Invariance, PTL DEF Spec, WritesStayInScope
=============================================================================
