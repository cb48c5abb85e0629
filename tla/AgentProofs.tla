----------------------------- MODULE AgentProofs -----------------------------
(***************************************************************************)
(* Proofs about what an agent does with a conversation, about the shell its *)
(* tools run commands in and about the chats users reach it through, for    *)
(* any notes, limits, timeouts and numbers of agents.                       *)
(***************************************************************************)
EXTENDS AgentLoop, Shell, Chat, SequenceTheorems, FiniteSetTheorems, WellFoundedInduction, TLAPS

(***************************************************************************)
(* Places in a set of positions                                            *)
(***************************************************************************)

\* How many members of S are not beyond i.
UpTo(S, i) == {j \in S : j <= i}
Place(S, i) == Cardinality(UpTo(S, i))

\* A set of numbers that is not empty has a least one.
LEMMA LeastOf ==
  ASSUME NEW S \in SUBSET Nat, S # {}
  PROVE  \E i \in S : \A j \in S : i <= j
<1>1. PICK i \in S : \A j \in S : <<j, i>> \notin OpToRel(<, Nat)
  BY WFMin, NatLessThanWellFounded, Zenon
<1>2. \A j \in S : ~(j < i)
  BY <1>1, Zenon DEF OpToRel
<1>3. \A j \in S : i \in Nat /\ j \in Nat
  OBVIOUS
<1> QED BY <1>2, <1>3

LEMMA PlacesGrow ==
  ASSUME NEW n \in Nat, NEW S, \A j \in S : j \in 1 .. n
  PROVE  /\ IsFiniteSet(S) /\ Cardinality(S) \in Nat
         /\ Place(S, 0) = 0
         /\ \A i \in 0 .. n : Place(S, i) \in 0 .. Cardinality(S)
         /\ \A i \in 1 .. n : Place(S, i) = IF i \in S THEN Place(S, i - 1) + 1 ELSE Place(S, i - 1)
         /\ Place(S, n) = Cardinality(S)
<1>1. IsFiniteSet(1 .. n)
  BY FS_Interval
<1>2. IsFiniteSet(S) /\ Cardinality(S) \in Nat
  <2>1. S \subseteq 1 .. n
    OBVIOUS
  <2> QED BY <1>1, <2>1, FS_Subset, FS_CardinalityType
<1>3. \A i \in 0 .. n : IsFiniteSet(UpTo(S, i)) /\ Place(S, i) \in 0 .. Cardinality(S)
  <2> TAKE i \in 0 .. n
  <2>1. UpTo(S, i) \subseteq S
    BY DEF UpTo
  <2>2. IsFiniteSet(UpTo(S, i)) /\ Cardinality(UpTo(S, i)) <= Cardinality(S)
    BY <1>2, <2>1, FS_Subset
  <2> QED BY <1>2, <2>2, FS_CardinalityType DEF Place
<1>4. Place(S, 0) = 0
  <2>1. UpTo(S, 0) = {}
    BY DEF UpTo
  <2> QED BY <2>1, FS_EmptySet DEF Place
<1>5. ASSUME NEW i \in 1 .. n
      PROVE  Place(S, i) = IF i \in S THEN Place(S, i - 1) + 1 ELSE Place(S, i - 1)
  <2>1. CASE i \in S
    <3>0. \A j \in S : (j <= i <=> j <= i - 1 \/ j = i)
      OBVIOUS
    <3>1. UpTo(S, i) = UpTo(S, i - 1) \cup {i} /\ i \notin UpTo(S, i - 1)
      <4>1. i \in S /\ i \in Nat /\ ~(i <= i - 1)
        BY <2>1
      <4>2. \A j : j \in UpTo(S, i) <=> j \in UpTo(S, i - 1) \cup {i}
        BY <3>0, <4>1 DEF UpTo
      <4>3. i \notin UpTo(S, i - 1)
        BY <4>1 DEF UpTo
      <4> QED BY <4>2, <4>3
    <3>2. IsFiniteSet(UpTo(S, i - 1))
      BY <1>3
    <3> QED BY <2>1, <3>1, <3>2, FS_AddElement DEF Place
  <2>2. CASE i \notin S
    <3>1. UpTo(S, i) = UpTo(S, i - 1)
      BY <2>2 DEF UpTo
    <3> QED BY <2>2, <3>1 DEF Place
  <2> QED BY <2>1, <2>2
<1>6. Place(S, n) = Cardinality(S)
  <2>1. UpTo(S, n) = S
    BY DEF UpTo
  <2> QED BY <2>1 DEF Place
<1> QED BY <1>2, <1>3, <1>4, <1>5, <1>6

\* Members of S have different places, neighbours have neighbouring ones, and
\* every place is that of a member.
LEMMA Places ==
  ASSUME NEW n \in Nat, NEW S, \A j \in S : j \in 1 .. n
  PROVE  /\ \A i \in S : Place(S, i) \in 1 .. Cardinality(S)
         /\ \A i, j \in S : i < j => Place(S, i) < Place(S, j)
         /\ \A i \in S : i + 1 \in S => Place(S, i + 1) = Place(S, i) + 1
         /\ \A k \in 1 .. Cardinality(S) : \E i \in S : Place(S, i) = k
<1> USE PlacesGrow
<1>1. \A i \in S : Place(S, i) \in 1 .. Cardinality(S)
  <2> TAKE i \in S
  <2>1. i \in 1 .. n /\ i - 1 \in 0 .. n /\ i \in 0 .. n
    OBVIOUS
  <2>2. /\ Place(S, i) = Place(S, i - 1) + 1
        /\ Place(S, i - 1) \in 0 .. Cardinality(S) /\ Place(S, i) \in 0 .. Cardinality(S)
        /\ Cardinality(S) \in Nat
    BY <2>1
  <2> QED BY <2>2
<1>2. ASSUME NEW i \in S, NEW j \in S, i < j PROVE Place(S, i) < Place(S, j)
  <2>1. UpTo(S, i) \subseteq UpTo(S, j - 1)
    BY <1>2 DEF UpTo
  <2>2. j - 1 \in 0 .. n /\ i \in 0 .. n /\ j \in 1 .. n
    OBVIOUS
  <2>3. IsFiniteSet(UpTo(S, j - 1))
    BY FS_Subset DEF UpTo
  <2>4. Place(S, i) <= Place(S, j - 1)
    BY <2>1, <2>3, FS_Subset DEF Place
  <2>5. Place(S, j) = Place(S, j - 1) + 1
    BY <2>2
  <2>6. /\ Place(S, i) \in 0 .. Cardinality(S) /\ Place(S, j - 1) \in 0 .. Cardinality(S)
        /\ Cardinality(S) \in Nat
    BY <2>2
  <2> QED BY <2>4, <2>5, <2>6
<1>3. ASSUME NEW i \in S, i + 1 \in S PROVE Place(S, i + 1) = Place(S, i) + 1
  BY <1>3
<1>4. ASSUME NEW k \in 1 .. Cardinality(S) PROVE \E i \in S : Place(S, i) = k
  <2> DEFINE T == {i \in 0 .. n : Place(S, i) >= k}
  <2>1. n \in T /\ T \subseteq Nat
    OBVIOUS
  <2> HIDE DEF T
  <2>2. PICK i \in T : \A j \in T : i <= j
    BY <2>1, LeastOf
  <2> USE DEF T
  <2>3. i # 0
    BY <2>2
  <2>4. i \in 1 .. n /\ i - 1 \in 0 .. n /\ i - 1 \notin T
    BY <2>2, <2>3
  <2> QED BY <2>2, <2>4
<1> QED BY <1>1, <1>2, <1>3, <1>4

(***************************************************************************)
(* What an agent's messages are                                            *)
(***************************************************************************)

Messages == [kind : {"text", "call", "result"}, round : Nat, notes : SUBSET Note, tokens : Nat]

\* The messages that are no half of a broken round.
Intact(ms) == {i \in DOMAIN ms : ~Dangling(ms, i)}

\* The messages a run adds are messages.
LEMMA MessageTypes ==
  /\ Text \in Messages /\ Text.kind = "text"
  /\ \A notes \in SUBSET Note :
       NoteMessage(notes) \in Messages /\ NoteMessage(notes).kind = "text" /\ NoteMessage(notes).notes = notes
  /\ \A r \in Nat : /\ ToolCall(r) \in Messages /\ ToolCall(r).kind = "call" /\ ToolCall(r).round = r
  /\ \A r, t \in Nat : /\ ToolResult(r, t) \in Messages
                       /\ ToolResult(r, t).kind = "result" /\ ToolResult(r, t).round = r
BY DEF Messages, Text, NoteMessage, ToolCall, ToolResult, Message

\* An intact call is followed by its results, which are intact, and intact
\* results follow their call.
LEMMA IntactRounds ==
  ASSUME NEW ms \in Seq(Messages), NEW i \in Intact(ms)
  PROVE  /\ i \in 1 .. Len(ms)
         /\ ms[i].kind = "call" => /\ i + 1 \in Intact(ms) /\ ms[i + 1].kind = "result"
                                   /\ ms[i].round = ms[i + 1].round
         /\ ms[i].kind = "result" => /\ i - 1 \in Intact(ms) /\ ms[i - 1].kind = "call"
                                     /\ ms[i - 1].round = ms[i].round
<1>1. i \in 1 .. Len(ms) /\ ~Dangling(ms, i)
  BY DEF Intact
<1>2. ASSUME ms[i].kind = "call"
      PROVE  i + 1 \in Intact(ms) /\ ms[i + 1].kind = "result" /\ ms[i].round = ms[i + 1].round
  <2>1. Answered(ms, i)
    BY <1>1, <1>2 DEF Dangling
  <2>2. i + 1 \in 1 .. Len(ms) /\ ms[i + 1].kind = "result" /\ ms[i].round = ms[i + 1].round
    BY <1>1, <2>1 DEF Answered
  <2>3. (i + 1) - 1 = i
    BY <1>1
  <2>4. ~Dangling(ms, i + 1)
    BY <2>1, <2>2, <2>3 DEF Dangling
  <2> QED BY <2>2, <2>4 DEF Intact
<1>3. ASSUME ms[i].kind = "result"
      PROVE  i - 1 \in Intact(ms) /\ ms[i - 1].kind = "call" /\ ms[i - 1].round = ms[i].round
  <2>1. Answered(ms, i - 1)
    BY <1>1, <1>3 DEF Dangling
  <2>2. (i - 1) + 1 = i
    BY <1>1
  <2>3. i - 1 \in 1 .. Len(ms) /\ ms[i - 1].kind = "call" /\ ms[i - 1].round = ms[i].round
    BY <1>1, <2>1, <2>2 DEF Answered
  <2>4. ~Dangling(ms, i - 1)
    BY <2>1, <2>3 DEF Dangling
  <2> QED BY <2>3, <2>4 DEF Intact
<1> QED BY <1>1, <1>2, <1>3

\* What is well formed, said of the messages themselves.
LEMMA WellFormedRounds ==
  ASSUME NEW ms \in Seq(Messages)
  PROVE  WellFormed(ms) <=>
           \A i \in 1 .. Len(ms) :
             /\ ms[i].kind = "call" => /\ i < Len(ms) /\ ms[i + 1].kind = "result"
                                       /\ ms[i].round = ms[i + 1].round
             /\ ms[i].kind = "result" => /\ 1 < i /\ ms[i - 1].kind = "call"
                                         /\ ms[i - 1].round = ms[i].round
<1> DEFINE Fine(i) == /\ ms[i].kind = "call" => /\ i < Len(ms) /\ ms[i + 1].kind = "result"
                                                /\ ms[i].round = ms[i + 1].round
                      /\ ms[i].kind = "result" => /\ 1 < i /\ ms[i - 1].kind = "call"
                                                  /\ ms[i - 1].round = ms[i].round
<1>1. ASSUME NEW i \in 1 .. Len(ms) PROVE ~Dangling(ms, i) <=> Fine(i)
  <2>1. (i - 1) + 1 = i
    OBVIOUS
  <2>2. ms[i].kind # "call" \/ ms[i].kind # "result"
    OBVIOUS
  <2>3. Answered(ms, i) <=> (i < Len(ms) /\ ms[i].kind = "call" /\ ms[i + 1].kind = "result"
                              /\ ms[i].round = ms[i + 1].round)
    BY DEF Answered
  <2>4. Answered(ms, i - 1) <=> (1 < i /\ ms[i - 1].kind = "call" /\ ms[i].kind = "result"
                                  /\ ms[i - 1].round = ms[i].round)
    BY <2>1 DEF Answered
  <2> QED BY <2>2, <2>3, <2>4 DEF Dangling
<1>2. DOMAIN ms = 1 .. Len(ms)
  OBVIOUS
<1> HIDE DEF Fine
<1>3. WellFormed(ms) <=> \A i \in 1 .. Len(ms) : Fine(i)
  BY <1>1, <1>2 DEF WellFormed
<1> QED BY <1>3 DEF Fine

\* What is left of a conversation is whole: a round that is kept stays together.
LEMMA AtomicIsWellFormed ==
  ASSUME NEW ms \in Seq(Messages)
  PROVE  Atomic(ms) \in Seq(Messages) /\ WellFormed(Atomic(ms))
<1> DEFINE S == Intact(ms)
           N == Cardinality(S)
           At(k) == CHOOSE i \in S : Place(S, i) = k
           a == [k \in 1 .. N |-> ms[At(k)]]
<1>1. Atomic(ms) = a
  BY DEF Atomic, Intact, Place, UpTo
<1>2. Len(ms) \in Nat /\ \A j \in S : j \in 1 .. Len(ms)
  BY DEF Intact
<1>3. N \in Nat
  BY <1>2, PlacesGrow
<1> HIDE DEF S
<1>4. \A k \in 1 .. N : At(k) \in S /\ Place(S, At(k)) = k
  BY <1>2, Places
<1>5. \A i \in S : Place(S, i) \in 1 .. N /\ At(Place(S, i)) = i
  <2> TAKE i \in S
  <2>1. Place(S, i) \in 1 .. N
    BY <1>2, Places
  <2>2. At(Place(S, i)) \in S /\ Place(S, At(Place(S, i))) = Place(S, i)
    BY <1>4, <2>1
  <2>3. \A p, q \in S : p < q => Place(S, p) < Place(S, q)
    BY <1>2, Places
  <2> HIDE DEF At
  <2>4. At(Place(S, i)) \in Nat /\ i \in Nat /\ Place(S, i) \in Nat
    BY <1>2, <1>3, <2>1, <2>2
  <2>5. ~(At(Place(S, i)) < i) /\ ~(i < At(Place(S, i)))
    BY <2>2, <2>3, <2>4
  <2> QED BY <2>1, <2>4, <2>5
<1> HIDE DEF At
<1>6. a \in Seq(Messages) /\ Len(a) = N
  <2>1. \A k \in 1 .. N : ms[At(k)] \in Messages
    BY <1>2, <1>4
  <2> QED BY <1>3, <2>1
<1>7. \A k \in 1 .. N : a[k] = ms[At(k)]
  OBVIOUS
<1>8. \A i \in S : i + 1 \in S => Place(S, i + 1) = Place(S, i) + 1
  BY <1>2, Places
<1> HIDE DEF a, N
<1>9. ASSUME NEW k \in 1 .. N, a[k].kind = "call"
      PROVE  k < Len(a) /\ a[k + 1].kind = "result" /\ a[k].round = a[k + 1].round
  <2>1. /\ At(k) \in Intact(ms) /\ Place(S, At(k)) = k
        /\ ms[At(k)].kind = "call"
    BY <1>4, <1>7, <1>9 DEF S
  <2>2. At(k) + 1 \in S /\ ms[At(k) + 1].kind = "result" /\ ms[At(k)].round = ms[At(k) + 1].round
    BY <2>1, IntactRounds DEF S
  <2>3. Place(S, At(k) + 1) = k + 1
    BY <1>4, <1>8, <2>1, <2>2
  <2>4. k + 1 \in 1 .. N /\ At(k + 1) = At(k) + 1
    BY <1>5, <2>2, <2>3
  <2>5. a[k + 1] = ms[At(k) + 1] /\ a[k] = ms[At(k)]
    BY <1>7, <2>4
  <2> QED BY <1>3, <1>6, <2>2, <2>4, <2>5
<1>10. ASSUME NEW k \in 1 .. N, a[k].kind = "result"
       PROVE  1 < k /\ a[k - 1].kind = "call" /\ a[k - 1].round = a[k].round
  <2>1. /\ At(k) \in Intact(ms) /\ Place(S, At(k)) = k
        /\ ms[At(k)].kind = "result"
    BY <1>4, <1>7, <1>10 DEF S
  <2>2. At(k) - 1 \in S /\ ms[At(k) - 1].kind = "call" /\ ms[At(k) - 1].round = ms[At(k)].round
    BY <2>1, IntactRounds DEF S
  <2>3. At(k) = (At(k) - 1) + 1 /\ At(k) \in S
    BY <1>2, <1>4
  <2>4. Place(S, At(k)) = Place(S, At(k) - 1) + 1
    BY <1>8, <2>2, <2>3
  <2>5. Place(S, At(k) - 1) = k - 1
    BY <1>3, <1>5, <2>1, <2>2, <2>4
  <2>6. k - 1 \in 1 .. N /\ At(k - 1) = At(k) - 1
    BY <1>5, <2>2, <2>5
  <2>7. a[k - 1] = ms[At(k) - 1] /\ a[k] = ms[At(k)]
    BY <1>7, <2>6
  <2> QED BY <1>3, <2>2, <2>6, <2>7
<1>11. WellFormed(a)
  BY <1>6, <1>9, <1>10, WellFormedRounds
<1> QED BY <1>1, <1>6, <1>11

\* A conversation that goes on with whole rounds stays whole.
LEMMA WholeRoundsJoin ==
  ASSUME NEW ms \in Seq(Messages), NEW ns \in Seq(Messages), WellFormed(ms), WellFormed(ns)
  PROVE  ms \o ns \in Seq(Messages) /\ WellFormed(ms \o ns)
<1> DEFINE all == ms \o ns
           m == Len(ms)
<1>1. all \in Seq(Messages) /\ Len(all) = m + Len(ns) /\ m \in Nat /\ Len(ns) \in Nat
  OBVIOUS
<1>2. \A i \in 1 .. m : all[i] = ms[i]
  OBVIOUS
<1>3. \A i \in 1 .. Len(ns) : all[m + i] = ns[i]
  OBVIOUS
<1> HIDE DEF all
<1>4. ASSUME NEW i \in 1 .. Len(all), all[i].kind = "call"
      PROVE  i < Len(all) /\ all[i + 1].kind = "result" /\ all[i].round = all[i + 1].round
  <2>1. CASE i \in 1 .. m
    <3>1. ms[i].kind = "call"
      BY <1>2, <1>4, <2>1
    <3>2. i < m /\ ms[i + 1].kind = "result" /\ ms[i].round = ms[i + 1].round
      BY <2>1, <3>1, WellFormedRounds
    <3>3. i + 1 \in 1 .. m
      BY <1>1, <2>1, <3>2
    <3>4. all[i] = ms[i] /\ all[i + 1] = ms[i + 1]
      BY <1>2, <2>1, <3>3
    <3> QED BY <1>1, <2>1, <3>2, <3>4
  <2>2. CASE i \notin 1 .. m
    <3> DEFINE k == i - m
    <3>1. k \in 1 .. Len(ns) /\ i = m + k
      BY <1>1, <2>2
    <3> HIDE DEF k
    <3>2. all[i] = ns[k]
      BY <1>3, <3>1
    <3>3. k < Len(ns) /\ ns[k + 1].kind = "result" /\ ns[k].round = ns[k + 1].round
      BY <1>4, <3>1, <3>2, WellFormedRounds
    <3> HIDE DEF m
    <3>4. k + 1 \in 1 .. Len(ns) /\ i + 1 = m + (k + 1)
      <4>1. k < Len(ns)
        BY <3>3
      <4> HIDE <3>3
      <4> QED BY <1>1, <3>1, <4>1
    <3>5. all[i + 1] = ns[k + 1]
      BY <1>3, <3>4
    <3> QED BY <1>1, <3>1, <3>2, <3>3, <3>5
  <2> QED BY <2>1, <2>2
<1>5. ASSUME NEW i \in 1 .. Len(all), all[i].kind = "result"
      PROVE  1 < i /\ all[i - 1].kind = "call" /\ all[i - 1].round = all[i].round
  <2>1. CASE i \in 1 .. m
    <3>1. ms[i].kind = "result"
      BY <1>2, <1>5, <2>1
    <3>2. 1 < i /\ ms[i - 1].kind = "call" /\ ms[i - 1].round = ms[i].round
      BY <2>1, <3>1, WellFormedRounds
    <3>3. i - 1 \in 1 .. m
      BY <1>1, <2>1, <3>2
    <3>4. all[i] = ms[i] /\ all[i - 1] = ms[i - 1]
      BY <1>2, <2>1, <3>3
    <3> QED BY <3>2, <3>4
  <2>2. CASE i \notin 1 .. m
    <3> DEFINE k == i - m
    <3>1. k \in 1 .. Len(ns) /\ i = m + k
      BY <1>1, <2>2
    <3> HIDE DEF k
    <3>2. all[i] = ns[k]
      BY <1>3, <3>1
    <3>3. 1 < k /\ ns[k - 1].kind = "call" /\ ns[k - 1].round = ns[k].round
      BY <1>5, <3>1, <3>2, WellFormedRounds
    <3>4. k - 1 \in 1 .. Len(ns) /\ i - 1 = m + (k - 1)
      BY <1>1, <3>1, <3>3
    <3>5. all[i - 1] = ns[k - 1]
      BY <1>3, <3>4
    <3> QED BY <1>1, <3>1, <3>2, <3>3, <3>5
  <2> QED BY <2>1, <2>2
<1>6. WellFormed(all)
  BY <1>1, <1>4, <1>5, WellFormedRounds
<1> QED BY <1>1, <1>6 DEF all

\* So does the end of one, from a message that is no result.
LEMMA EndIsWhole ==
  ASSUME NEW ms \in Seq(Messages), WellFormed(ms),
         NEW i \in 1 .. Len(ms), ms[i].kind # "result"
  PROVE  From(ms, i) \in Seq(Messages) /\ WellFormed(From(ms, i))
<1> DEFINE end == From(ms, i)
           n == Len(ms)
<1>1. end \in Seq(Messages) /\ Len(end) = n - i + 1 /\ n \in Nat
  BY DEF From
<1>2. \A k \in 1 .. Len(end) : end[k] = ms[i + k - 1] /\ i + k - 1 \in 1 .. n
  BY DEF From
<1> HIDE DEF end
<1>3. ASSUME NEW k \in 1 .. Len(end), end[k].kind = "call"
      PROVE  k < Len(end) /\ end[k + 1].kind = "result" /\ end[k].round = end[k + 1].round
  <2> DEFINE p == i + k - 1
  <2>1. p \in 1 .. n /\ ms[p].kind = "call" /\ end[k] = ms[p]
    BY <1>2, <1>3
  <2>2. p < n /\ ms[p + 1].kind = "result" /\ ms[p].round = ms[p + 1].round
    BY <2>1, WellFormedRounds
  <2>3. k + 1 \in 1 .. Len(end) /\ i + (k + 1) - 1 = p + 1
    BY <1>1, <2>2
  <2> QED BY <1>1, <1>2, <2>1, <2>2, <2>3
<1>4. ASSUME NEW k \in 1 .. Len(end), end[k].kind = "result"
      PROVE  1 < k /\ end[k - 1].kind = "call" /\ end[k - 1].round = end[k].round
  <2> DEFINE p == i + k - 1
  <2>1. p \in 1 .. n /\ ms[p].kind = "result" /\ end[k] = ms[p]
    BY <1>2, <1>4
  <2>2. ms[p - 1].kind = "call" /\ ms[p - 1].round = ms[p].round
    BY <2>1, WellFormedRounds
  <2>3. 1 < k
    <3>1. k = 1 => p = i
      BY <1>1
    <3> HIDE DEF p
    <3>2. k # 1
      BY <2>1, <3>1
    <3> QED BY <1>1, <3>2
  <2>4. k - 1 \in 1 .. Len(end) /\ i + (k - 1) - 1 = p - 1
    BY <1>1, <2>3
  <2> QED BY <1>2, <2>1, <2>2, <2>3, <2>4
<1>5. WellFormed(end)
  BY <1>1, <1>3, <1>4, WellFormedRounds
<1> QED BY <1>1, <1>5 DEF end

\* A set of positions has a greatest one.
LEMMA GreatestOf ==
  ASSUME NEW n \in Nat, NEW S, \A j \in S : j \in 1 .. n, S # {}
  PROVE  \E i \in S : \A j \in S : j <= i
<1> DEFINE T == {k \in 0 .. n : n - k \in S}
<1>1. T # {}
  <2>1. PICK j \in S : TRUE
    OBVIOUS
  <2>2. n - j \in 0 .. n /\ n - (n - j) = j
    OBVIOUS
  <2>3. n - j \in T
    BY <2>2
  <2> QED BY <2>3
<1>2. T \in SUBSET Nat
  OBVIOUS
<1>3. PICK k \in T : \A l \in T : k <= l
  <2> HIDE DEF T
  <2> QED BY <1>1, <1>2, LeastOf
<1>4. ASSUME NEW j \in S PROVE j <= n - k
  <2>1. n - j \in T
    OBVIOUS
  <2>2. k <= n - j /\ k \in Nat
    BY <1>3, <2>1
  <2> QED BY <2>2
<1> QED BY <1>3, <1>4

\* What a failed summary keeps is whole.
LEMMA KeptIsWellFormed ==
  ASSUME NEW ms \in Seq(Messages)
  PROVE  Kept(ms).rounds \in Seq(Messages) /\ WellFormed(Kept(ms).rounds)
<1> DEFINE atomic == Atomic(ms)
           starts == {i \in DOMAIN atomic : atomic[i].kind # "result"}
           fits == {i \in starts : Tokens(From(atomic, i)) <= Threshold - Margin}
<1>1. atomic \in Seq(Messages) /\ WellFormed(atomic)
  BY AtomicIsWellFormed
<1> HIDE DEF atomic
<1>2. \A i \in starts : i \in 1 .. Len(atomic)
  BY <1>1
<1>3. \A i \in starts : From(atomic, i) \in Seq(Messages) /\ WellFormed(From(atomic, i))
  BY <1>1, <1>2, EndIsWhole
<1>4. <<>> \in Seq(Messages) /\ WellFormed(<<>>)
  BY DEF WellFormed
<1>5. starts # {} => Max(starts) \in starts
  <2> HIDE DEF starts
  <2>0. Len(atomic) \in Nat
    BY <1>1
  <2>1. starts # {} => \E i \in starts : \A j \in starts : j <= i
    BY <1>2, <2>0, GreatestOf
  <2>2. \A i, j \in starts : j <= i <=> i >= j
    BY <1>1, <1>2
  <2> QED BY <2>1, <2>2 DEF Max
<1>6. fits # {} => Min(fits) \in fits
  <2>1. fits \in SUBSET Nat
    BY <1>1, <1>2
  <2> HIDE DEF fits
  <2>2. fits # {} => \E i \in fits : \A j \in fits : i <= j
    BY <2>1, LeastOf
  <2> QED BY <2>1, <2>2 DEF Min
<1>7. fits \subseteq starts
  OBVIOUS
<1>8. Kept(ms) = CASE starts = {} -> [rounds |-> <<>>, oversized |-> FALSE]
                   [] starts # {} /\ fits = {} -> [rounds |-> From(atomic, Max(starts)), oversized |-> TRUE]
                   [] OTHER -> [rounds |-> From(atomic, Min(fits)), oversized |-> FALSE]
  BY DEF Kept, atomic
<1> HIDE DEF starts, fits
<1>9. CASE starts = {}
  <2>1. Kept(ms) = [rounds |-> <<>>, oversized |-> FALSE]
    BY <1>8, <1>9, Zenon
  <2>2. \A r, o : [rounds |-> r, oversized |-> o].rounds = r
    OBVIOUS
  <2>3. Kept(ms).rounds = <<>>
    BY <2>1, <2>2, Zenon
  <2> QED BY <1>4, <2>3, Zenon
<1>10. CASE starts # {} /\ fits = {}
  BY <1>3, <1>5, <1>8, <1>10
<1>11. CASE starts # {} /\ fits # {}
  BY <1>3, <1>6, <1>7, <1>8, <1>11
<1> QED BY <1>9, <1>10, <1>11

\* A text, and a call with its results, are whole by themselves.
LEMMA WholePieces ==
  /\ \A m \in Messages : m.kind = "text" => <<m>> \in Seq(Messages) /\ WellFormed(<<m>>)
  /\ \A m, r \in Messages : m.kind = "call" /\ r.kind = "result" /\ m.round = r.round
       => <<m, r>> \in Seq(Messages) /\ WellFormed(<<m, r>>)
<1>1. ASSUME NEW m \in Messages, m.kind = "text"
      PROVE  <<m>> \in Seq(Messages) /\ WellFormed(<<m>>)
  <2>1. <<m>> \in Seq(Messages) /\ Len(<<m>>) = 1 /\ <<m>>[1] = m
    OBVIOUS
  <2>2. \A i \in 1 .. Len(<<m>>) : i = 1
    BY <2>1
  <2> QED BY <1>1, <2>1, <2>2, WellFormedRounds
<1>2. ASSUME NEW m \in Messages, NEW r \in Messages,
             m.kind = "call", r.kind = "result", m.round = r.round
      PROVE  <<m, r>> \in Seq(Messages) /\ WellFormed(<<m, r>>)
  <2> DEFINE both == <<m, r>>
  <2>1. both \in Seq(Messages) /\ Len(both) = 2 /\ both[1] = m /\ both[2] = r
    OBVIOUS
  <2> HIDE DEF both
  <2>2. \A i \in 1 .. Len(both) : i = 1 \/ i = 2
    BY <2>1
  <2>3. both[1 + 1] = r /\ both[2 - 1] = m
    BY <2>1
  <2>4. WellFormed(both)
    BY <1>2, <2>1, <2>2, <2>3, WellFormedRounds
  <2> QED BY <2>1, <2>4 DEF both
<1> QED BY <1>1, <1>2

\* A longer conversation carries the notes of the shorter one.
LEMMA CarriedGrows ==
  ASSUME NEW ms \in Seq(Messages), NEW ns \in Seq(Messages)
  PROVE  Carried(ms \o ns) = Carried(ms) \cup Carried(ns)
<1> DEFINE all == ms \o ns
           m == Len(ms)
<1>1. all \in Seq(Messages) /\ Len(all) = m + Len(ns) /\ m \in Nat /\ Len(ns) \in Nat
  OBVIOUS
<1>2. \A i \in 1 .. m : i \in 1 .. Len(all) /\ all[i] = ms[i]
  OBVIOUS
<1>3. \A i \in 1 .. Len(ns) : m + i \in 1 .. Len(all) /\ all[m + i] = ns[i]
  OBVIOUS
<1>4. \A i \in 1 .. Len(all) : i \in 1 .. m \/ (i - m \in 1 .. Len(ns) /\ i = m + (i - m))
  BY <1>1
<1>5. DOMAIN all = 1 .. Len(all) /\ DOMAIN ms = 1 .. m /\ DOMAIN ns = 1 .. Len(ns)
  BY <1>1
<1> HIDE DEF all, m
<1>6. Carried(all) \subseteq Carried(ms) \cup Carried(ns)
  <2> SUFFICES ASSUME NEW i \in 1 .. Len(all)
               PROVE  all[i].notes \subseteq Carried(ms) \cup Carried(ns)
    BY <1>5 DEF Carried
  <2>1. CASE i \in 1 .. m
    BY <1>2, <1>5, <2>1 DEF Carried
  <2>2. CASE i - m \in 1 .. Len(ns) /\ i = m + (i - m)
    <3> DEFINE k == i - m
    <3>1. k \in 1 .. Len(ns) /\ all[i] = ns[k]
      BY <1>3, <2>2
    <3> HIDE DEF k
    <3> QED BY <1>5, <3>1 DEF Carried
  <2> QED BY <1>4, <2>1, <2>2
<1>7. Carried(ms) \subseteq Carried(all)
  <2> SUFFICES ASSUME NEW i \in 1 .. m PROVE ms[i].notes \subseteq Carried(all)
    BY <1>5 DEF Carried
  <2> QED BY <1>2, <1>5 DEF Carried
<1>8. Carried(ns) \subseteq Carried(all)
  <2> SUFFICES ASSUME NEW i \in 1 .. Len(ns) PROVE ns[i].notes \subseteq Carried(all)
    BY <1>5 DEF Carried
  <2> QED BY <1>3, <1>5 DEF Carried
<1> QED BY <1>6, <1>7, <1>8 DEF all

LEMMA CarriedOfOne ==
  \A m \in Messages : Carried(<<m>>) = m.notes
<1> TAKE m \in Messages
<1>1. DOMAIN <<m>> = {1} /\ <<m>>[1] = m
  OBVIOUS
<1> QED BY <1>1 DEF Carried

(***************************************************************************)
(* The inductive invariant                                                 *)
(***************************************************************************)

Frames == [at : {"loop", "hook"}, turn : Nat, round : Nat, repairing : BOOLEAN]

Typed ==
  /\ sessions \in Nat \ {0}
  /\ messages \in Seq(Messages) /\ frames \in Seq(Frames)
  /\ pendingRound \in Nat /\ rounds \in Nat

\* The loop is the outermost caller; a hook's turn is a hook's.
Stacked == frames # <<>> /\ frames[1].at = "loop" /\ (pc = "turn" => Top.at = "hook")

\* The round of a call in the making is that of its caller.
Filed == pc \in {"check", "flight", "backoff"} => pendingRound = Top.round

\* The messages before a call whose tools run.
Before(ms) ==
  \E front \in Seq(Messages), call \in Messages :
    ms = front \o <<call>> /\ call.kind = "call" /\ (torn \/ WellFormed(front))

\* A conversation is whole but for the call whose tools run; what a compaction
\* is about to replace may be anything.
WholeRounds == IF pc = "tools" THEN Before(messages) ELSE pc = "summary" \/ torn \/ WellFormed(messages)

ConvInv == Typed /\ Stacked /\ Filed /\ WholeRounds

\* What WithTop, Pop and a new hook make of the callers.
LEMMA CallersChange ==
  ASSUME NEW fs \in Seq(Frames), fs # <<>>, fs[1].at = "loop"
  PROVE  /\ Len(fs) \in Nat \ {0} /\ fs[Len(fs)] \in Frames
         /\ \A f \in Frames : f.at = fs[Len(fs)].at =>
              LET gs == [fs EXCEPT ![Len(fs)] = f]
              IN  gs \in Seq(Frames) /\ gs # <<>> /\ gs[1].at = "loop" /\ gs[Len(gs)] = f
         /\ fs[Len(fs)].at = "hook" =>
              LET gs == SubSeq(fs, 1, Len(fs) - 1)
              IN  gs \in Seq(Frames) /\ gs # <<>> /\ gs[1].at = "loop"
         /\ \A f \in Frames :
              LET gs == Append(fs, f)
              IN  gs \in Seq(Frames) /\ gs # <<>> /\ gs[1].at = "loop" /\ gs[Len(gs)] = f
<1>1. Len(fs) \in Nat \ {0} /\ fs[Len(fs)] \in Frames
  OBVIOUS
<1>2. ASSUME NEW f \in Frames, f.at = fs[Len(fs)].at
      PROVE  LET gs == [fs EXCEPT ![Len(fs)] = f]
             IN  gs \in Seq(Frames) /\ gs # <<>> /\ gs[1].at = "loop" /\ gs[Len(gs)] = f
  <2> DEFINE gs == [fs EXCEPT ![Len(fs)] = f]
  <2>1. gs \in Seq(Frames) /\ Len(gs) = Len(fs)
    BY <1>1
  <2>2. gs[Len(fs)] = f /\ (Len(fs) # 1 => gs[1] = fs[1])
    BY <1>1
  <2> QED BY <1>1, <1>2, <2>1, <2>2
<1>3. ASSUME fs[Len(fs)].at = "hook"
      PROVE  LET gs == SubSeq(fs, 1, Len(fs) - 1)
             IN  gs \in Seq(Frames) /\ gs # <<>> /\ gs[1].at = "loop"
  <2>1. Len(fs) > 1
    BY <1>1, <1>3
  <2> DEFINE gs == SubSeq(fs, 1, Len(fs) - 1)
  <2>2. gs \in Seq(Frames) /\ Len(gs) = Len(fs) - 1 /\ gs[1] = fs[1]
    BY <1>1, <2>1
  <2>3. Len(gs) \in Nat \ {0}
    BY <1>1, <2>1, <2>2
  <2> HIDE DEF gs
  <2>4. gs # <<>>
    BY <2>3
  <2> QED BY <2>2, <2>4 DEF gs
<1>4. ASSUME NEW f \in Frames
      PROVE  LET gs == Append(fs, f)
             IN  gs \in Seq(Frames) /\ gs # <<>> /\ gs[1].at = "loop" /\ gs[Len(gs)] = f
  <2> DEFINE gs == Append(fs, f)
  <2>1. gs \in Seq(Frames) /\ Len(gs) = Len(fs) + 1 /\ gs[1] = fs[1] /\ gs[Len(fs) + 1] = f
    BY <1>1
  <2> QED BY <1>1, <2>1
<1> QED BY <1>1, <1>2, <1>3, <1>4, Zenon

\* Callers of callLLM are what the loop and compact make them.
LEMMA FrameTypes ==
  /\ LoopFrame \in Frames /\ LoopFrame.at = "loop"
  /\ [LoopFrame EXCEPT !.at = "hook"] \in Frames /\ [LoopFrame EXCEPT !.at = "hook"].at = "hook"
  /\ \A f \in Frames :
       /\ \A b \in BOOLEAN : /\ [f EXCEPT !.repairing = b] \in Frames
                             /\ [f EXCEPT !.repairing = b].at = f.at
                             /\ [f EXCEPT !.repairing = b].round = f.round
       /\ \A r \in Nat : /\ [f EXCEPT !.round = r] \in Frames
                         /\ [f EXCEPT !.round = r].at = f.at /\ [f EXCEPT !.round = r].round = r
<1>1. /\ LoopFrame \in Frames /\ LoopFrame.at = "loop"
      /\ [LoopFrame EXCEPT !.at = "hook"] \in Frames /\ [LoopFrame EXCEPT !.at = "hook"].at = "hook"
  BY DEF Frames, LoopFrame
<1>2. ASSUME NEW f \in Frames
      PROVE  /\ \A b \in BOOLEAN : /\ [f EXCEPT !.repairing = b] \in Frames
                                   /\ [f EXCEPT !.repairing = b].at = f.at
                                   /\ [f EXCEPT !.repairing = b].round = f.round
             /\ \A r \in Nat : /\ [f EXCEPT !.round = r] \in Frames
                               /\ [f EXCEPT !.round = r].at = f.at /\ [f EXCEPT !.round = r].round = r
  BY DEF Frames
<1> QED BY <1>1, <1>2, Zenon

\* A turn of the hook begins a round of its own.
LEMMA TurnTypes ==
  ASSUME NEW f \in Frames, NEW r \in Nat
  PROVE  LET g == [f EXCEPT !.turn = @ + 1, !.round = r, !.repairing = FALSE]
         IN  g \in Frames /\ g.at = f.at /\ g.round = r
<1> DEFINE g == [f EXCEPT !.turn = @ + 1, !.round = r, !.repairing = FALSE]
<1>1. f.turn + 1 \in Nat
  BY DEF Frames
<1>2. g \in Frames
  BY <1>1 DEF Frames
<1>3. g.at = f.at /\ g.round = r
  BY DEF Frames
<1> QED BY <1>2, <1>3

\* What is said next keeps a whole conversation whole.
LEMMA TextsJoin ==
  ASSUME NEW ms \in Seq(Messages), NEW m \in Messages, m.kind = "text"
  PROVE  /\ Append(ms, m) \in Seq(Messages) /\ ms \o <<m>> \in Seq(Messages)
         /\ WellFormed(ms) => WellFormed(Append(ms, m)) /\ WellFormed(ms \o <<m>>)
<1>1. <<m>> \in Seq(Messages) /\ WellFormed(<<m>>)
  BY WholePieces
<1>2. Append(ms, m) = ms \o <<m>>
  OBVIOUS
<1>3. ms \o <<m>> \in Seq(Messages)
  BY <1>1
<1>4. WellFormed(ms) => WellFormed(ms \o <<m>>)
  BY <1>1, WholeRoundsJoin
<1> QED BY <1>2, <1>3, <1>4

\* The results of the call whose tools ran make it whole.
LEMMA ResultsJoin ==
  ASSUME NEW ms \in Seq(Messages), Before(ms), NEW t \in Nat
  PROVE  LET rs == <<ToolResult(ms[Len(ms)].round, t)>>
         IN  /\ rs \in Seq(Messages) /\ ms \o rs \in Seq(Messages)
             /\ Append(ms, ToolResult(ms[Len(ms)].round, t)) = ms \o rs
             /\ torn \/ WellFormed(ms \o rs)
<1>1. PICK front \in Seq(Messages), call \in Messages :
        ms = front \o <<call>> /\ call.kind = "call" /\ (torn \/ WellFormed(front))
  BY DEF Before
<1>2. ms[Len(ms)] = call
  BY <1>1
<1> DEFINE r == ToolResult(call.round, t)
<1>3. r \in Messages /\ r.kind = "result" /\ r.round = call.round
  <2>1. call.round \in Nat
    BY DEF Messages
  <2> QED BY <2>1, MessageTypes
<1> HIDE DEF r
<1>4. <<call, r>> \in Seq(Messages) /\ WellFormed(<<call, r>>)
  BY <1>1, <1>3, WholePieces
<1>5. <<r>> \in Seq(Messages) /\ ms \o <<r>> \in Seq(Messages) /\ Append(ms, r) = ms \o <<r>>
  BY <1>3
<1>6. ms \o <<r>> = front \o <<call, r>>
  BY <1>1, <1>3
<1>7. torn \/ WellFormed(ms \o <<r>>)
  BY <1>1, <1>4, <1>6, WholeRoundsJoin
<1> QED BY <1>2, <1>5, <1>7 DEF r

(***************************************************************************)
(* What a step makes of a conversation                                     *)
(***************************************************************************)

\* The caller that waits, and what replaces it.
LEMMA TopChanges ==
  ASSUME Typed, Stacked
  PROVE  /\ Len(frames) \in Nat \ {0} /\ Top \in Frames /\ Top.round \in Nat
         /\ Top.at # "loop" => Top.at = "hook"
         /\ \A f \in Frames : f.at = Top.at /\ WithTop(f) =>
              frames' \in Seq(Frames) /\ frames' # <<>> /\ frames'[1].at = "loop" /\ Top' = f
         /\ Top.at = "hook" /\ Pop => frames' \in Seq(Frames) /\ frames' # <<>> /\ frames'[1].at = "loop"
         /\ \A f \in Frames : frames' = Append(frames, f) =>
              frames' \in Seq(Frames) /\ frames' # <<>> /\ frames'[1].at = "loop" /\ Top' = f
<1>1. frames \in Seq(Frames) /\ frames # <<>> /\ frames[1].at = "loop"
  BY DEF Typed, Stacked
<1>2. Len(frames) \in Nat \ {0} /\ Top \in Frames
  BY <1>1, CallersChange DEF Top
<1>3. Top.round \in Nat /\ (Top.at # "loop" => Top.at = "hook")
  BY <1>2 DEF Frames
<1>4. ASSUME NEW f \in Frames, f.at = Top.at, WithTop(f)
      PROVE  frames' \in Seq(Frames) /\ frames' # <<>> /\ frames'[1].at = "loop" /\ Top' = f
  BY <1>1, <1>4, CallersChange DEF Top, WithTop
<1>5. ASSUME Top.at = "hook", Pop
      PROVE  frames' \in Seq(Frames) /\ frames' # <<>> /\ frames'[1].at = "loop"
  BY <1>1, <1>5, CallersChange DEF Top, Pop
<1>6. ASSUME NEW f \in Frames, frames' = Append(frames, f)
      PROVE  frames' \in Seq(Frames) /\ frames' # <<>> /\ frames'[1].at = "loop" /\ Top' = f
  BY <1>1, <1>6, CallersChange DEF Top
<1> QED BY <1>2, <1>3, <1>4, <1>5, <1>6

\* Steps that leave the conversation and its callers alone.
LEMMA QuietSteps ==
  ASSUME ConvInv, sessions' \in Nat \ {0}, UNCHANGED <<messages, pendingRound, rounds, frames, torn>>,
         \/ pc' = pc
         \/ /\ pc \notin {"tools", "summary"} /\ pc' \notin {"tools", "turn"}
            /\ pc' \in {"check", "flight", "backoff"} => pc \in {"check", "flight", "backoff"}
  PROVE  ConvInv'
<1>1. Typed' /\ Stacked'
  BY DEF ConvInv, Typed, Stacked, Top
<1>2. Filed'
  BY DEF ConvInv, Filed, Top
<1>3. WholeRounds'
  BY DEF ConvInv, WholeRounds, Before
<1> QED BY <1>1, <1>2, <1>3 DEF ConvInv

LEMMA EndRunGoes ==
  ASSUME NEW how, EndRun(how)
  PROVE  pc' \in {"ack", "done"}
BY DEF EndRun, Goes

\* A call that is given up leaves what was said.
LEMMA FailureKeepsConversation ==
  ASSUME ConvInv, CallFails, UNCHANGED <<sessions, torn>>, pc \in {"check", "flight", "backoff"}
  PROVE  ConvInv'
<1>1. Typed /\ Stacked
  BY DEF ConvInv
<1>2. /\ pc' \in {"ack", "done", "summary"}
      /\ frames' \in Seq(Frames) /\ frames' # <<>> /\ frames'[1].at = "loop"
  <2>1. CASE Top.at = "loop"
    <3>1. frames' = frames /\ pc' \in {"ack", "done"}
      BY <2>1, EndRunGoes DEF CallFails
    <3> QED BY <1>1, <3>1 DEF Typed, Stacked
  <2>2. CASE Top.at # "loop"
    <3>1. Pop /\ pc' = "summary" /\ Top.at = "hook"
      BY <1>1, <2>2, TopChanges DEF CallFails, Goes
    <3> QED BY <1>1, <3>1, TopChanges
  <2> QED BY <2>1, <2>2
<1>3. pendingRound' = 0 /\ messages' = messages /\ rounds' = rounds
  BY DEF CallFails
<1>4. Typed' /\ Stacked' /\ Filed'
  BY <1>1, <1>2, <1>3 DEF Typed, Stacked, Filed, Top
<1>5. WholeRounds'
  BY <1>2, <1>3 DEF ConvInv, WholeRounds
<1> QED BY <1>4, <1>5 DEF ConvInv

LEMMA FreshIsWhole ==
  ASSUME Fresh, sessions' \in Nat \ {0}
  PROVE  ConvInv'
<1>1. messages' = <<Text>> /\ pendingRound' = 0 /\ rounds' = 0 /\ pc' = "top" /\ frames' = <<LoopFrame>>
  BY DEF Fresh, FreshConversation
<1>2. <<Text>> \in Seq(Messages) /\ WellFormed(<<Text>>)
  BY MessageTypes, WholePieces
<1>3. <<LoopFrame>> \in Seq(Frames) /\ <<LoopFrame>> # <<>> /\ <<LoopFrame>>[1].at = "loop"
  <2>1. LoopFrame \in Frames /\ LoopFrame.at = "loop"
    BY FrameTypes
  <2>2. \A f \in Frames : <<f>> \in Seq(Frames) /\ <<f>> # <<>> /\ <<f>>[1] = f
    OBVIOUS
  <2> QED BY <2>1, <2>2, Zenon
<1>4. Typed' /\ Stacked' /\ Filed'
  BY <1>1, <1>2, <1>3 DEF Typed, Stacked, Filed
<1>5. WholeRounds'
  BY <1>1, <1>2 DEF WholeRounds
<1> QED BY <1>4, <1>5 DEF ConvInv

LEMMA BeginTurnStep == ASSUME ConvInv, BeginTurn PROVE ConvInv'
<1>1. Typed /\ Stacked /\ WholeRounds /\ pc = "top"
  BY DEF ConvInv, BeginTurn
<1>2. [Top EXCEPT !.repairing = FALSE] \in Frames /\ [Top EXCEPT !.repairing = FALSE].at = Top.at
  BY <1>1, TopChanges, FrameTypes
<1>3. frames' \in Seq(Frames) /\ frames' # <<>> /\ frames'[1].at = "loop"
  BY <1>1, <1>2, TopChanges DEF BeginTurn
<1>4. /\ pc' \in {"hook", "drain"}
      /\ sessions' = sessions /\ messages' = messages /\ pendingRound' = pendingRound /\ rounds' = rounds
      /\ torn' = torn
  BY DEF BeginTurn, Goes, Rest, conv, ghosts
<1>5. Typed' /\ Stacked' /\ Filed'
  BY <1>1, <1>3, <1>4 DEF Typed, Stacked, Filed
<1>6. WholeRounds'
  BY <1>1, <1>4 DEF WholeRounds
<1> QED BY <1>5, <1>6 DEF ConvInv

LEMMA PushNotesStep == ASSUME ConvInv, PushNotes PROVE ConvInv'
<1>1. Typed /\ Stacked /\ WholeRounds /\ pc = "push"
  BY DEF ConvInv, PushNotes
<1>2. pc' = "check" /\ sessions' = sessions /\ torn' = torn
  BY DEF PushNotes, Goes, ghosts
<1>3. messages' \in Seq(Messages) /\ (WellFormed(messages) => WellFormed(messages'))
  <2> DEFINE pulled == IF role = "planner" THEN Deliverable(seen) ELSE {}
  <2>1. messages' = IF pulled = {} THEN messages ELSE Append(messages, NoteMessage(pulled))
    BY DEF PushNotes
  <2>2. pulled \in SUBSET Note
    BY DEF Deliverable
  <2> HIDE DEF pulled
  <2>3. NoteMessage(pulled) \in Messages /\ NoteMessage(pulled).kind = "text"
    BY <2>2, MessageTypes
  <2>4. messages \in Seq(Messages)
    BY <1>1 DEF Typed
  <2> QED BY <2>1, <2>3, <2>4, TextsJoin
<1>4. /\ pendingRound' \in Nat /\ rounds' \in Nat
      /\ frames' \in Seq(Frames) /\ frames' # <<>> /\ frames'[1].at = "loop"
      /\ pendingRound' = Top.round'
  <2>1. CASE Top.repairing
    <3>1. pendingRound' = Top.round /\ rounds' = rounds /\ frames' = frames
      BY <2>1 DEF PushNotes, StartRound, Restored
    <3>2. Top.round' = Top.round /\ Top.round \in Nat
      BY <1>1, <3>1, TopChanges DEF Top
    <3> QED BY <1>1, <3>1, <3>2 DEF Typed, Stacked
  <2>2. CASE ~Top.repairing
    <3> DEFINE f == [Top EXCEPT !.round = rounds + 1]
    <3>1. pendingRound' = rounds + 1 /\ rounds' = rounds + 1 /\ WithTop(f)
      BY <2>2 DEF PushNotes, StartRound
    <3>2. rounds + 1 \in Nat /\ Top \in Frames
      BY <1>1, TopChanges DEF Typed
    <3>3. f \in Frames /\ f.at = Top.at /\ f.round = rounds + 1
      BY <3>2 DEF Frames
    <3> HIDE DEF f
    <3>4. frames' \in Seq(Frames) /\ frames' # <<>> /\ frames'[1].at = "loop" /\ Top' = f
      BY <1>1, <3>1, <3>3, TopChanges
    <3> QED BY <3>1, <3>2, <3>3, <3>4
  <2> QED BY <2>1, <2>2
<1>5. Typed' /\ Stacked' /\ Filed'
  BY <1>1, <1>2, <1>3, <1>4 DEF Typed, Stacked, Filed
<1>6. WholeRounds'
  BY <1>1, <1>2, <1>3 DEF WholeRounds
<1> QED BY <1>5, <1>6 DEF ConvInv

LEMMA ContextErrorStep == ASSUME ConvInv, ContextError PROVE ConvInv'
<1>1. Typed /\ Stacked /\ WholeRounds /\ pc = "flight" /\ sessions' = sessions /\ torn' = torn
  BY DEF ConvInv, ContextError, Rest, ghosts
<1>2. CASE StopReached
  BY <1>1, <1>2, FailureKeepsConversation DEF ContextError
<1>3. CASE ~StopReached
  <2>1. [Top EXCEPT !.repairing = TRUE] \in Frames /\ [Top EXCEPT !.repairing = TRUE].at = Top.at
    BY <1>1, TopChanges, FrameTypes
  <2>2. frames' \in Seq(Frames) /\ frames' # <<>> /\ frames'[1].at = "loop"
    BY <1>1, <1>3, <2>1, TopChanges DEF ContextError
  <2>3. pc' = "hook" /\ messages' = messages /\ pendingRound' = pendingRound /\ rounds' = rounds
    BY <1>3 DEF ContextError, Goes, conv
  <2>4. Typed' /\ Stacked' /\ Filed'
    BY <1>1, <2>2, <2>3 DEF Typed, Stacked, Filed
  <2>5. WholeRounds'
    BY <1>1, <2>3 DEF WholeRounds
  <2> QED BY <2>4, <2>5 DEF ConvInv
<1> QED BY <1>2, <1>3

LEMMA BeginCompactionStep == ASSUME ConvInv, BeginCompaction PROVE ConvInv'
<1>1. Typed /\ Stacked /\ WholeRounds /\ pc = "hook"
  BY DEF ConvInv, BeginCompaction
<1>2. sessions' = sessions /\ torn' = torn /\ pendingRound' = pendingRound /\ rounds' = rounds
  BY DEF BeginCompaction, Rest, ghosts
<1>3. CASE role = "planner"
  <2>1. /\ pc' = "turn" /\ messages' = Append(messages, Text)
        /\ frames' = Append(frames, [LoopFrame EXCEPT !.at = "hook"])
    BY <1>3 DEF BeginCompaction, Goes
  <2>2. /\ frames' \in Seq(Frames) /\ frames' # <<>> /\ frames'[1].at = "loop" /\ Top'.at = "hook"
    BY <1>1, <2>1, FrameTypes, TopChanges
  <2>3. messages' \in Seq(Messages) /\ (WellFormed(messages) => WellFormed(messages'))
    BY <1>1, <2>1, MessageTypes, TextsJoin DEF Typed
  <2>4. Typed' /\ Stacked' /\ Filed'
    BY <1>1, <1>2, <2>1, <2>2, <2>3 DEF Typed, Stacked, Filed
  <2>5. WholeRounds'
    BY <1>1, <1>2, <2>1, <2>3 DEF WholeRounds
  <2> QED BY <2>4, <2>5 DEF ConvInv
<1>4. CASE role # "planner"
  <2>1. pc' = "summary" /\ messages' = messages /\ frames' = frames
    BY <1>4 DEF BeginCompaction, Goes
  <2>2. Typed' /\ Stacked' /\ Filed'
    BY <1>1, <1>2, <2>1 DEF Typed, Stacked, Filed
  <2>3. WholeRounds'
    BY <2>1 DEF WholeRounds
  <2> QED BY <2>2, <2>3 DEF ConvInv
<1> QED BY <1>3, <1>4

LEMMA HookTurnStep == ASSUME ConvInv, HookTurn PROVE ConvInv'
<1>1. Typed /\ Stacked /\ WholeRounds /\ pc = "turn" /\ Top.at = "hook"
  BY DEF ConvInv, HookTurn, Stacked
<1>2. sessions' = sessions /\ torn' = torn /\ messages' = messages
  BY DEF HookTurn, Rest, ghosts
<1>3. CASE Top.turn < MaxHookTurns /\ ~cancelled
  <2> DEFINE f == [Top EXCEPT !.turn = @ + 1, !.round = rounds + 1, !.repairing = FALSE]
  <2>1. rounds' = rounds + 1 /\ pendingRound' = rounds + 1 /\ WithTop(f) /\ pc' = "check"
    BY <1>3 DEF HookTurn, Goes
  <2>2. rounds + 1 \in Nat /\ Top \in Frames
    BY <1>1, TopChanges DEF Typed
  <2>3. f \in Frames /\ f.at = Top.at /\ f.round = rounds + 1
    BY <2>2, TurnTypes
  <2> HIDE DEF f
  <2>4. frames' \in Seq(Frames) /\ frames' # <<>> /\ frames'[1].at = "loop" /\ Top' = f
    BY <1>1, <2>1, <2>3, TopChanges
  <2>5. Typed' /\ Stacked' /\ Filed'
    BY <1>1, <1>2, <2>1, <2>2, <2>3, <2>4 DEF Typed, Stacked, Filed
  <2>6. WholeRounds'
    BY <1>1, <1>2, <2>1 DEF WholeRounds
  <2> QED BY <2>5, <2>6 DEF ConvInv
<1>4. CASE ~(Top.turn < MaxHookTurns /\ ~cancelled)
  <2>1. Pop /\ pc' = "summary" /\ rounds' = rounds /\ pendingRound' = pendingRound
    BY <1>4 DEF HookTurn, Goes
  <2>2. frames' \in Seq(Frames) /\ frames' # <<>> /\ frames'[1].at = "loop"
    BY <1>1, <2>1, TopChanges
  <2>3. Typed' /\ Stacked' /\ Filed'
    BY <1>1, <1>2, <2>1, <2>2 DEF Typed, Stacked, Filed
  <2>4. WholeRounds'
    BY <2>1 DEF WholeRounds
  <2> QED BY <2>3, <2>4 DEF ConvInv
<1> QED BY <1>3, <1>4

\* Compactions leave a whole conversation, whatever they found.
LEMMA ReplacedStep ==
  ASSUME ConvInv, NEW history \in Seq(Messages), WellFormed(history), Replace(history),
         UNCHANGED <<sessions, frames, rounds>>, pc' = "drain"
  PROVE  ConvInv'
<1>1. messages' \in Seq(Messages) /\ WellFormed(messages') /\ pendingRound' = 0
  BY MessageTypes, TextsJoin DEF Replace
<1>2. Typed' /\ Stacked' /\ Filed'
  BY <1>1 DEF ConvInv, Typed, Stacked, Filed
<1>3. WholeRounds'
  BY <1>1 DEF WholeRounds
<1> QED BY <1>2, <1>3 DEF ConvInv

LEMMA CompactionSteps == ASSUME ConvInv, Summarize \/ FallBack PROVE ConvInv'
<1>1. <<Text>> \in Seq(Messages) /\ WellFormed(<<Text>>)
  BY MessageTypes, WholePieces
<1>2. CASE Summarize
  <2>1. Replace(<<Text>>) /\ UNCHANGED <<sessions, frames, rounds>> /\ pc' = "drain"
    BY <1>2 DEF Summarize, Goes
  <2> QED BY <1>1, <2>1, ReplacedStep
<1>3. CASE FallBack
  <2> DEFINE history == <<Text>> \o Kept(messages).rounds
  <2>1. Replace(history) /\ UNCHANGED <<sessions, frames, rounds>> /\ pc' = "drain"
    BY <1>3 DEF FallBack, Goes
  <2>2. Kept(messages).rounds \in Seq(Messages) /\ WellFormed(Kept(messages).rounds)
    BY KeptIsWellFormed DEF ConvInv, Typed
  <2>3. history \in Seq(Messages) /\ WellFormed(history)
    BY <1>1, <2>2, WholeRoundsJoin
  <2> HIDE DEF history
  <2> QED BY <2>1, <2>3, ReplacedStep
<1> QED BY <1>2, <1>3

\* Texts answered, and a prompt that repairs an answer.
LEMMA TextInLoopStep == ASSUME ConvInv, TextInLoop PROVE ConvInv'
<1>1. /\ Typed /\ Stacked /\ WholeRounds /\ pc = "flight"
      /\ sessions' = sessions /\ torn' = torn /\ frames' = frames /\ rounds' = rounds
  BY DEF ConvInv, TextInLoop, Rest
<1>2. /\ pendingRound' = 0 /\ pc' \in {"ack", "done", "top"}
      /\ messages' = messages \o <<Text>> \/ messages' = messages \o Append(<<Text>>, Text)
  <2>1. CASE role = "worker" => evidence /\ artifact
    <3>1. Push(<<Text>>) /\ EndRun("text")
      BY <2>1 DEF TextInLoop
    <3> QED BY <3>1, EndRunGoes DEF Push
  <2>2. CASE ~(role = "worker" => evidence /\ artifact)
    <3>1. Refuse(<<Text>>)
      BY <2>2 DEF TextInLoop
    <3>2. CASE TooMany(invalid + 1)
      <4>1. Push(<<Text>>) /\ EndRun("error")
        BY <3>1, <3>2 DEF Refuse
      <4> QED BY <4>1, EndRunGoes DEF Push
    <3>3. CASE ~TooMany(invalid + 1)
      BY <3>1, <3>3 DEF Refuse, Push, Goes
    <3> QED BY <3>2, <3>3
  <2> QED BY <2>1, <2>2
<1>3. messages \in Seq(Messages) /\ <<Text>> \in Seq(Messages) /\ WellFormed(<<Text>>)
  BY <1>1, MessageTypes, WholePieces DEF Typed
<1>4. Append(<<Text>>, Text) \in Seq(Messages) /\ WellFormed(Append(<<Text>>, Text))
  BY <1>3, MessageTypes, TextsJoin
<1>5. messages' \in Seq(Messages) /\ (WellFormed(messages) => WellFormed(messages'))
  <2>1. \A ns \in Seq(Messages) :
          WellFormed(ns) => messages \o ns \in Seq(Messages)
                            /\ (WellFormed(messages) => WellFormed(messages \o ns))
    BY <1>3, WholeRoundsJoin
  <2> QED BY <1>2, <1>3, <1>4, <2>1
<1>6. Typed' /\ Stacked' /\ Filed'
  BY <1>1, <1>2, <1>5 DEF Typed, Stacked, Filed
<1>7. WholeRounds'
  BY <1>1, <1>2, <1>5 DEF WholeRounds
<1> QED BY <1>6, <1>7 DEF ConvInv

LEMMA TextInHookStep == ASSUME ConvInv, TextInHook PROVE ConvInv'
<1>1. /\ Typed /\ Stacked /\ Top.at = "hook" /\ Pop /\ pc' = "summary"
      /\ sessions' = sessions /\ rounds' = rounds /\ pendingRound' = 0 /\ messages' = messages \o <<Text>>
  BY DEF ConvInv, TextInHook, Rest, Push, Goes
<1>2. messages' \in Seq(Messages)
  BY <1>1, MessageTypes, TextsJoin DEF Typed
<1>3. frames' \in Seq(Frames) /\ frames' # <<>> /\ frames'[1].at = "loop"
  BY <1>1, TopChanges
<1>4. Typed' /\ Stacked' /\ Filed'
  BY <1>1, <1>2, <1>3 DEF Typed, Stacked, Filed
<1>5. WholeRounds'
  BY <1>1 DEF WholeRounds
<1> QED BY <1>4, <1>5 DEF ConvInv

LEMMA CallToolsStep == ASSUME ConvInv, CallTools PROVE ConvInv'
<1> DEFINE call == ToolCall(pendingRound)
<1>1. /\ Typed /\ Stacked /\ WholeRounds /\ pc = "flight" /\ pc' = "tools"
      /\ sessions' = sessions /\ torn' = torn /\ frames' = frames /\ rounds' = rounds
      /\ pendingRound' = 0 /\ messages' = messages \o <<call>>
  BY DEF ConvInv, CallTools, Rest, Push, Goes
<1>2. call \in Messages /\ call.kind = "call"
  BY <1>1, MessageTypes DEF Typed
<1> HIDE DEF call
<1>3. messages' \in Seq(Messages) /\ messages \in Seq(Messages)
  BY <1>1, <1>2 DEF Typed
<1>4. Typed' /\ Stacked' /\ Filed'
  BY <1>1, <1>3 DEF Typed, Stacked, Filed
<1>5. torn' \/ WellFormed(messages)
  BY <1>1 DEF WholeRounds
<1>6. Before(messages)'
  BY <1>1, <1>2, <1>3, <1>5 DEF Before
<1>7. WholeRounds'
  BY <1>1, <1>6 DEF WholeRounds
<1> QED BY <1>4, <1>7 DEF ConvInv

LEMMA ToolsThrowStep == ASSUME ConvInv, ToolsThrow PROVE ConvInv'
<1>1. /\ Typed /\ Stacked
      /\ sessions' = sessions /\ messages' = messages /\ pendingRound' = pendingRound /\ rounds' = rounds
  BY DEF ConvInv, ToolsThrow, Rest, conv
<1>2. \/ pc' = "summary" /\ Top.at = "hook" /\ Pop
      \/ pc' = "done" /\ torn' = TRUE /\ frames' = frames
  BY DEF ToolsThrow, Goes
<1>3. frames' \in Seq(Frames) /\ frames' # <<>> /\ frames'[1].at = "loop"
  BY <1>1, <1>2, TopChanges DEF Typed, Stacked
<1>4. Typed' /\ Stacked' /\ Filed'
  BY <1>1, <1>2, <1>3 DEF Typed, Stacked, Filed
<1>5. WholeRounds'
  BY <1>2 DEF WholeRounds
<1> QED BY <1>4, <1>5 DEF ConvInv

\* A batch in a hook or in the loop, with the prompt that follows a plan_done
\* that is refused.
LEMMA ToolsStep ==
  ASSUME ConvInv, NEW b \in Batches, ToolsInHook(b) \/ ToolsInLoop(b) PROVE ConvInv'
<1> DEFINE rs == Results(b)
<1>1. /\ Typed /\ Stacked /\ WholeRounds /\ pc = "tools"
      /\ sessions' = sessions /\ torn' = torn /\ frames' = frames
      /\ rounds' = rounds /\ pendingRound' = pendingRound
  BY DEF ConvInv, ToolsInHook, ToolsInLoop, Rest, ghosts
<1>2. b.tokens \in Nat
  BY MarginAssumption DEF Batches
<1>3. messages \in Seq(Messages) /\ Before(messages)
  BY <1>1 DEF WholeRounds, Typed
<1>4. rs \in Seq(Messages) /\ messages \o rs \in Seq(Messages) /\ (torn \/ WellFormed(messages \o rs))
  BY <1>2, <1>3, ResultsJoin DEF Results
<1>5. /\ pc' = "turn" => Top.at = "hook"
      /\ pc' \in {"turn", "ack", "done", "top"}
      /\ \/ messages' = messages \o rs
         \/ messages' = messages \o rs \o (IF b.ends THEN <<Text>> ELSE <<>>)
  <2>1. CASE ToolsInHook(b)
    BY <2>1 DEF ToolsInHook, Goes
  <2>2. CASE ToolsInLoop(b)
    <3>1. CASE b.ends /\ evidence
      <4>1. messages' = messages \o rs /\ EndRun("terminal")
        BY <2>2, <3>1 DEF ToolsInLoop
      <4> QED BY <4>1, EndRunGoes
    <3>2. CASE ~(b.ends /\ evidence)
      BY <2>2, <3>2 DEF ToolsInLoop, Goes
    <3> QED BY <3>1, <3>2
  <2> QED BY <2>1, <2>2
<1> HIDE DEF rs
<1>6. messages' \in Seq(Messages) /\ (torn \/ WellFormed(messages'))
  <2> DEFINE all == messages \o rs
  <2>1. all \in Seq(Messages) /\ (torn \/ WellFormed(all))
    BY <1>4
  <2> HIDE DEF all
  <2>2. all \o <<Text>> \in Seq(Messages) /\ (torn \/ WellFormed(all \o <<Text>>))
    BY <2>1, MessageTypes, TextsJoin
  <2>3. all \o <<>> = all
    BY <2>1
  <2>4. messages' = all \/ messages' = all \o <<Text>> \/ messages' = all \o <<>>
    BY <1>5 DEF all
  <2> QED BY <2>1, <2>2, <2>3, <2>4
<1>7. Typed' /\ Filed'
  BY <1>1, <1>5, <1>6 DEF Typed, Filed
<1>8. Stacked'
  BY <1>1, <1>5 DEF Stacked, Top
<1>9. WholeRounds'
  BY <1>1, <1>5, <1>6 DEF WholeRounds
<1> QED BY <1>7, <1>8, <1>9 DEF ConvInv

LEMMA ToolsAbortedStep == ASSUME ConvInv, ToolsAborted PROVE ConvInv'
<1>1. /\ Typed /\ Stacked /\ WholeRounds /\ pc = "tools"
      /\ sessions' = sessions /\ torn' = torn /\ rounds' = rounds /\ pendingRound' = pendingRound
      /\ messages' = Append(messages, ToolResult(messages[Len(messages)].round, 1))
  BY DEF ConvInv, ToolsAborted, Rest, ghosts
<1>2. messages \in Seq(Messages) /\ Before(messages)
  BY <1>1 DEF WholeRounds, Typed
<1>3. messages' \in Seq(Messages) /\ (torn \/ WellFormed(messages'))
  BY <1>1, <1>2, ResultsJoin
<1>4. \/ pc' = "summary" /\ Top.at = "hook" /\ Pop
      \/ pc' \in {"ack", "done"} /\ frames' = frames
  <2>1. CASE Top.at = "hook"
    BY <2>1 DEF ToolsAborted, Goes
  <2>2. CASE Top.at # "hook"
    BY <2>2, EndRunGoes DEF ToolsAborted
  <2> QED BY <2>1, <2>2
<1>5. frames' \in Seq(Frames) /\ frames' # <<>> /\ frames'[1].at = "loop"
  BY <1>1, <1>4, TopChanges DEF Typed, Stacked
<1>6. Typed' /\ Stacked' /\ Filed'
  BY <1>1, <1>3, <1>4, <1>5 DEF Typed, Stacked, Filed
<1>7. WholeRounds'
  BY <1>1, <1>3, <1>4 DEF WholeRounds
<1> QED BY <1>6, <1>7 DEF ConvInv

\* A nudge, or the next task, is one more text.
LEMMA OneMoreText ==
  ASSUME ConvInv, pc \in {"ack", "done"}, pc' \in {"top", "done"}, sessions' \in Nat \ {0},
         UNCHANGED <<frames, pendingRound, rounds, torn>>,
         messages' = messages \/ messages' = Append(messages, Text)
  PROVE  ConvInv'
<1>1. messages' \in Seq(Messages) /\ (WellFormed(messages) => WellFormed(messages'))
  <2>1. messages \in Seq(Messages)
    BY DEF ConvInv, Typed
  <2>2. Append(messages, Text) \in Seq(Messages) /\ (WellFormed(messages) => WellFormed(Append(messages, Text)))
    BY <2>1, MessageTypes, TextsJoin
  <2> QED BY <2>1, <2>2
<1>2. Typed' /\ Stacked' /\ Filed'
  BY <1>1 DEF ConvInv, Typed, Stacked, Filed
<1>3. WholeRounds'
  BY <1>1 DEF ConvInv, WholeRounds
<1> QED BY <1>2, <1>3 DEF ConvInv

LEMMA ConvInit == Init => ConvInv
<1> SUFFICES ASSUME Init PROVE ConvInv
  OBVIOUS
<1>1. messages = <<Text>> /\ pendingRound = 0 /\ rounds = 0 /\ sessions = 1 /\ pc = "top" /\ frames = <<LoopFrame>>
  BY DEF Init
<1>2. <<Text>> \in Seq(Messages) /\ WellFormed(<<Text>>)
  BY MessageTypes, WholePieces
<1>3. <<LoopFrame>> \in Seq(Frames) /\ <<LoopFrame>> # <<>> /\ <<LoopFrame>>[1].at = "loop"
  <2>1. LoopFrame \in Frames /\ LoopFrame.at = "loop"
    BY FrameTypes
  <2>2. \A f \in Frames : <<f>> \in Seq(Frames) /\ <<f>> # <<>> /\ <<f>>[1] = f
    OBVIOUS
  <2> QED BY <2>1, <2>2, Zenon
<1>4. Typed /\ Stacked /\ Filed
  BY <1>1, <1>2, <1>3 DEF Typed, Stacked, Filed
<1>5. WholeRounds
  BY <1>1, <1>2 DEF WholeRounds
<1> QED BY <1>4, <1>5 DEF ConvInv

LEMMA ConvStep == ConvInv /\ [Next]_vars => ConvInv'
<1> SUFFICES ASSUME ConvInv, [Next]_vars PROVE ConvInv'
  OBVIOUS
<1>0. sessions \in Nat \ {0} /\ sessions + 1 \in Nat \ {0}
  BY DEF ConvInv, Typed
<1>1. CASE StopAtTop
  <2>1. pc = "top" /\ pc' \in {"ack", "done"}
    BY <1>1, EndRunGoes DEF StopAtTop
  <2> QED BY <1>0, <1>1, <2>1, QuietSteps DEF StopAtTop, Rest, conv, ghosts
<1>2. CASE BeginTurn
  BY <1>2, BeginTurnStep
<1>3. CASE ReadNotes
  BY <1>0, <1>3, QuietSteps DEF ReadNotes, Rest, conv, ghosts, Goes
<1>4. CASE PushNotes
  BY <1>4, PushNotesStep
<1>5. CASE SendRequest
  BY <1>0, <1>5, QuietSteps DEF SendRequest, Rest, conv, ghosts, Goes
<1>6. CASE GiveUpCall
  BY <1>6, FailureKeepsConversation DEF GiveUpCall, Rest, ghosts
<1>7. CASE TransientError
  BY <1>0, <1>7, QuietSteps DEF TransientError, Rest, conv, ghosts, Goes
<1>8. CASE BackoffEnds
  BY <1>0, <1>8, QuietSteps DEF BackoffEnds, Rest, conv, ghosts, Goes
<1>9. CASE FinalError
  BY <1>9, FailureKeepsConversation DEF FinalError, Rest, ghosts
<1>10. CASE ContextError
  BY <1>10, ContextErrorStep
<1>11. CASE BeginCompaction
  BY <1>11, BeginCompactionStep
<1>12. CASE HookTurn
  BY <1>12, HookTurnStep
<1>13. CASE Summarize \/ FallBack
  BY <1>13, CompactionSteps
<1>14. CASE TextInLoop
  BY <1>14, TextInLoopStep
<1>15. CASE TextInHook
  BY <1>15, TextInHookStep
<1>16. CASE CallTools
  BY <1>16, CallToolsStep
<1>17. CASE ToolsThrow
  BY <1>17, ToolsThrowStep
<1>18. CASE ToolsAborted
  BY <1>18, ToolsAbortedStep
<1>19. CASE \E b \in Batches : ToolsInHook(b) \/ ToolsInLoop(b)
  BY <1>19, ToolsStep
<1>20. CASE \E n \in Note : AckVolatile(n) \/ AckRead(n)
  <2>1. PICK n \in Note : AckVolatile(n) \/ AckRead(n)
    BY <1>20
  <2> QED BY <1>0, <2>1, QuietSteps DEF AckVolatile, AckRead, Rest, conv, ghosts
<1>21. CASE AckWrite
  BY <1>0, <1>21, QuietSteps DEF AckWrite, conv, ghosts
<1>22. CASE AfterRun
  <2>1. /\ pc = "ack" /\ pc' \in {"top", "done"}
        /\ messages' = messages \/ messages' = Append(messages, Text)
    BY <1>22 DEF AfterRun, Acking, Goes
  <2>2. sessions' = sessions /\ UNCHANGED <<frames, pendingRound, rounds, torn>>
    BY <1>22 DEF AfterRun, Rest, ghosts
  <2> QED BY <1>0, <2>1, <2>2, OneMoreText
<1>23. CASE NextPlanner
  BY <1>0, <1>23, FreshIsWhole DEF NextPlanner
<1>24. CASE NextTask
  <2>1. /\ pc = "done" /\ pc' = "top" /\ sessions' = sessions + 1 /\ messages' = Append(messages, Text)
        /\ UNCHANGED <<frames, pendingRound, rounds, torn>>
    BY <1>24 DEF NextTask, Goes, ghosts
  <2> QED BY <1>0, <2>1, OneMoreText
<1>25. CASE \E expired \in SUBSET Note : StartAgain(expired)
  BY <1>25, FreshIsWhole DEF StartAgain
<1>26. CASE Cancel \/ Abort
  BY <1>0, <1>26, QuietSteps DEF Cancel, Abort, conv, ghosts
<1>27. CASE \E n \in Note : User(n)
  <2>1. PICK n \in Note : User(n)
    BY <1>27
  <2> QED BY <1>0, <2>1, QuietSteps DEF User, conv, ghosts
<1>28. CASE UNCHANGED vars
  BY <1>0, <1>28, QuietSteps DEF vars, conv, ghosts
<1>29. CASE Step
  BY <1>1, <1>2, <1>3, <1>4, <1>5, <1>6, <1>7, <1>8, <1>9, <1>10, <1>11, <1>12, <1>13, <1>14, <1>15,
     <1>16, <1>17, <1>18, <1>19, <1>20, <1>21, <1>22, <1>29, Zenon DEF Step
<1> QED BY <1>23, <1>24, <1>25, <1>26, <1>27, <1>28, <1>29, Zenon DEF Next

LEMMA ConvInvariant == Spec => []ConvInv
<1> QED BY ConvInit, ConvStep, PTL DEF Spec

\* Whatever errors, compactions, hooks, repairs and aborts there were, a
\* request holds every tool call with its results, unless the batch that owed
\* them has thrown, and its answer is filed under the round the call began
\* (callLLM, compact, processToolCalls, startRound, restorePendingRound).
THEOREM RequestsAreWhole == Spec => []RequestsAreWellFormed
<1>1. ConvInv => RequestsAreWellFormed
  BY DEF ConvInv, Filed, WholeRounds, RequestsAreWellFormed
<1> QED BY <1>1, ConvInvariant, PTL

(***************************************************************************)
(* The first planner of a process and its notes                            *)
(***************************************************************************)

First == sessions = 1 /\ role = "planner"

\* What the manager takes for delivered is in the conversation.
Noted == First => delivered \subseteq Carried(messages)

\* Where nothing is under way, what is delivered was in an answered request;
\* so was what is left to acknowledge, unless the run failed; and only after a
\* failure an unseen note is deleted.
Told ==
  /\ role # "planner" => pc # "ack" /\ unseen = {}
  /\ First => (pc \in {"top", "tools"} => delivered \subseteq shown)
  /\ First => (pc = "ack" /\ exit # "error" => delivered \subseteq shown /\ ack.left \subseteq shown)
  /\ First => (unseen # {} => exit = "error" /\ pc \in {"ack", "done"})

NotesInv == Noted /\ Told

\* The conversation goes on.
GoesOn == messages' = messages \/ \E ns \in Seq(Messages) : messages' = messages \o ns

LEMMA GoingOnKeepsNotes ==
  ASSUME ConvInv, NotesInv, GoesOn, UNCHANGED <<role, sessions>>, delivered' \subseteq delivered
  PROVE  Noted'
<1>1. Carried(messages) \subseteq Carried(messages')
  BY CarriedGrows DEF GoesOn, ConvInv, Typed
<1> QED BY <1>1 DEF NotesInv, Noted, First

LEMMA OneTextGoesOn ==
  ASSUME ConvInv, NEW m \in Messages, messages' = Append(messages, m) \/ messages' = messages \o <<m>>
  PROVE  GoesOn
<1>1. messages \in Seq(Messages)
  BY DEF ConvInv, Typed
<1>2. Append(messages, m) = messages \o <<m>> /\ <<m>> \in Seq(Messages)
  BY <1>1
<1> QED BY <1>2 DEF GoesOn

\* A run that ends leaves what was delivered to acknowledge.
LEMMA EndsTell ==
  ASSUME NotesInv, NEW how, EndRun(how), UNCHANGED <<role, sessions, delivered, unseen>>,
         pc \notin {"ack", "done"}, how = "error" \/ (First => delivered \subseteq shown')
  PROVE  Told'
<1>1. /\ exit' = how /\ pc' = (IF role = "planner" THEN "ack" ELSE "done")
      /\ role = "planner" => ack'.left = delivered
  BY DEF EndRun, Goes
<1>2. unseen = {} \/ ~First
  BY DEF NotesInv, Told
<1>3. role # "planner" => unseen = {}
  BY DEF NotesInv, Told
<1> QED BY <1>1, <1>2, <1>3 DEF Told, First

\* A run that goes on tells before it returns to its loop.
LEMMA RunsTell ==
  ASSUME NotesInv, UNCHANGED <<role, sessions, unseen>>,
         pc \notin {"ack", "done"}, pc' \notin {"ack", "done"},
         pc' \in {"top", "tools"} => (First => delivered' \subseteq shown')
  PROVE  Told'
<1>1. unseen = {} \/ ~First
  BY DEF NotesInv, Told
<1> QED BY <1>1 DEF NotesInv, Told, First

\* Where nothing of a run moves, notes may still go.
LEMMA OthersTell ==
  ASSUME NotesInv, UNCHANGED <<role, sessions, pc, exit, shown, unseen, messages>>,
         delivered' \subseteq delivered, ack'.left \subseteq ack.left
  PROVE  NotesInv'
<1>1. Noted'
  BY DEF NotesInv, Noted, First
<1>2. Told'
  BY DEF NotesInv, Told, First
<1> QED BY <1>1, <1>2 DEF NotesInv

LEMMA FreshTells ==
  ASSUME Fresh, delivered' = {} \/ sessions' # 1
  PROVE  NotesInv'
<1>1. pc' = "top" /\ unseen' = {}
  BY DEF Fresh
<1>2. Noted'
  BY DEF Noted, First
<1>3. Told'
  BY <1>1 DEF Told, First
<1> QED BY <1>2, <1>3 DEF NotesInv

LEMMA FailureTells ==
  ASSUME ConvInv, NotesInv, CallFails, UNCHANGED <<role, sessions, delivered, shown, unseen>>,
         pc \in {"check", "flight", "backoff"}
  PROVE  NotesInv'
<1>1. Noted'
  BY GoingOnKeepsNotes DEF CallFails, GoesOn
<1>2. EndRun("error") \/ pc' = "summary"
  BY DEF CallFails, Goes
<1>3. Told'
  BY <1>2, EndsTell, RunsTell
<1> QED BY <1>1, <1>3 DEF NotesInv

\* An answered request showed what was delivered.
LEMMA ShowsDelivered ==
  ASSUME NotesInv, Shows
  PROVE  First => delivered \subseteq shown'
BY DEF NotesInv, Noted, Shows

LEMMA NotesStart == Init => NotesInv
<1> SUFFICES ASSUME Init PROVE NotesInv
  OBVIOUS
<1>1. delivered = {} /\ unseen = {} /\ pc = "top"
  BY DEF Init, NotesInit
<1> QED BY <1>1 DEF NotesInv, Noted, Told

LEMMA PushNotesTells == ASSUME ConvInv, NotesInv, PushNotes PROVE NotesInv'
<1> DEFINE pulled == IF role = "planner" THEN Deliverable(seen) ELSE {}
<1>1. /\ delivered' = delivered \cup pulled
      /\ messages' = IF pulled = {} THEN messages ELSE Append(messages, NoteMessage(pulled))
      /\ pc = "push" /\ pc' = "check" /\ UNCHANGED <<role, sessions, shown, unseen>>
  BY DEF PushNotes, Goes, ghosts
<1>2. pulled \in SUBSET Note
  BY DEF Deliverable
<1> HIDE DEF pulled
<1>3. NoteMessage(pulled) \in Messages /\ NoteMessage(pulled).notes = pulled
  BY <1>2, MessageTypes
<1>4. messages \in Seq(Messages)
  BY DEF ConvInv, Typed
<1>5. Carried(messages) \cup pulled \subseteq Carried(messages')
  <2>1. Append(messages, NoteMessage(pulled)) = messages \o <<NoteMessage(pulled)>>
        /\ <<NoteMessage(pulled)>> \in Seq(Messages)
    BY <1>3, <1>4
  <2>2. Carried(<<NoteMessage(pulled)>>) = pulled
    BY <1>3, CarriedOfOne
  <2>3. Carried(Append(messages, NoteMessage(pulled))) = Carried(messages) \cup pulled
    BY <1>4, <2>1, <2>2, CarriedGrows
  <2> QED BY <1>1, <2>3
<1>6. Noted'
  BY <1>1, <1>5 DEF NotesInv, Noted, First
<1>7. Told'
  BY <1>1, RunsTell
<1> QED BY <1>6, <1>7 DEF NotesInv

LEMMA CompactionsTell == ASSUME NotesInv, Summarize \/ FallBack PROVE NotesInv'
<1>1. /\ pc = "summary" /\ pc' = "drain" /\ UNCHANGED <<role, sessions, shown, unseen>>
      /\ role = "planner" => delivered' = {}
  BY DEF Summarize, FallBack, Goes, ContextReset
<1>2. Noted'
  BY <1>1 DEF Noted, First
<1>3. Told'
  BY <1>1, RunsTell
<1> QED BY <1>2, <1>3 DEF NotesInv

LEMMA TextTells == ASSUME ConvInv, NotesInv, TextInLoop PROVE NotesInv'
<1>1. pc = "flight" /\ UNCHANGED <<role, sessions, delivered, unseen>> /\ (First => delivered \subseteq shown')
  BY ShowsDelivered DEF TextInLoop, Rest, noteVars
<1>2. /\ \E ns \in Seq(Messages) : messages' = messages \o ns
      /\ (\E how : EndRun(how)) \/ pc' = "top"
  <2>1. <<Text>> \in Seq(Messages) /\ Append(<<Text>>, Text) \in Seq(Messages)
    BY MessageTypes
  <2>2. CASE role = "worker" => evidence /\ artifact
    BY <2>1, <2>2 DEF TextInLoop, Push
  <2>3. CASE ~(role = "worker" => evidence /\ artifact)
    BY <2>1, <2>3 DEF TextInLoop, Refuse, Push, Goes
  <2> QED BY <2>2, <2>3
<1>3. Noted'
  BY <1>1, <1>2, GoingOnKeepsNotes DEF GoesOn
<1>4. Told'
  BY <1>1, <1>2, EndsTell, RunsTell
<1> QED BY <1>3, <1>4 DEF NotesInv

LEMMA ToolsTell == ASSUME ConvInv, NotesInv, NEW b \in Batches, ToolsInHook(b) \/ ToolsInLoop(b) PROVE NotesInv'
<1>1. /\ pc = "tools" /\ UNCHANGED <<role, sessions, delivered, shown, unseen>>
      /\ First => delivered \subseteq shown'
  BY DEF NotesInv, Told, ToolsInHook, ToolsInLoop, Rest, ghosts, noteVars
<1>2. GoesOn
  <2>1. b.tokens \in Nat /\ messages \in Seq(Messages) /\ Before(messages)
    BY <1>1, MarginAssumption DEF Batches, ConvInv, Typed, WholeRounds
  <2>2. Results(b) \in Seq(Messages)
    BY <2>1, ResultsJoin DEF Results
  <2>3. \A ms, rs, ts \in Seq(Messages) : ms \o rs \o ts = ms \o (rs \o ts) /\ rs \o ts \in Seq(Messages)
    OBVIOUS
  <2>4. <<Text>> \in Seq(Messages) /\ <<>> \in Seq(Messages)
    BY MessageTypes
  <2>5. \/ messages' = messages \o Results(b)
        \/ messages' = messages \o Results(b) \o <<Text>>
        \/ messages' = messages \o Results(b) \o <<>>
    BY DEF ToolsInHook, ToolsInLoop
  <2>6. \E ts \in Seq(Messages) : messages' = messages \o (Results(b) \o ts)
    <3>1. \A rs \in Seq(Messages) : rs = rs \o <<>>
      OBVIOUS
    <3>2. Results(b) = Results(b) \o <<>>
      BY <2>2, <3>1
    <3>3. messages \o Results(b) \o <<Text>> = messages \o (Results(b) \o <<Text>>)
          /\ messages \o Results(b) \o <<>> = messages \o (Results(b) \o <<>>)
      BY <2>1, <2>2, <2>3, <2>4
    <3> QED BY <2>4, <2>5, <3>2, <3>3, Zenon
  <2>7. \A ts \in Seq(Messages) : Results(b) \o ts \in Seq(Messages)
    BY <2>2
  <2> QED BY <2>6, <2>7, Zenon DEF GoesOn
<1>3. (\E how : EndRun(how)) \/ pc' \in {"top", "turn"}
  BY DEF ToolsInHook, ToolsInLoop, Goes
<1>4. Noted'
  BY <1>1, <1>2, GoingOnKeepsNotes
<1>5. Told'
  BY <1>1, <1>3, EndsTell, RunsTell
<1> QED BY <1>4, <1>5 DEF NotesInv

LEMMA AbortedToolsTell == ASSUME ConvInv, NotesInv, ToolsAborted PROVE NotesInv'
<1>1. /\ pc = "tools" /\ UNCHANGED <<role, sessions, delivered, shown, unseen>>
      /\ First => delivered \subseteq shown'
  BY DEF NotesInv, Told, ToolsAborted, Rest, ghosts, noteVars
<1>2. GoesOn
  <2>1. messages \in Seq(Messages) /\ Before(messages)
    BY <1>1 DEF ConvInv, Typed, WholeRounds
  <2> DEFINE rs == <<ToolResult(messages[Len(messages)].round, 1)>>
  <2>2. rs \in Seq(Messages) /\ messages' = messages \o rs
    BY <2>1, ResultsJoin DEF ToolsAborted
  <2> HIDE DEF rs
  <2> QED BY <2>2 DEF GoesOn
<1>3. EndRun("abort") \/ pc' = "summary"
  BY DEF ToolsAborted, Goes
<1>4. Noted'
  BY <1>1, <1>2, GoingOnKeepsNotes
<1>5. Told'
  BY <1>1, <1>3, EndsTell, RunsTell
<1> QED BY <1>4, <1>5 DEF NotesInv

\* A volatile note that no answered request held is deleted after a failure.
LEMMA AckVolatileTells == ASSUME NotesInv, NEW n \in Note, AckVolatile(n) PROVE NotesInv'
<1>1. /\ pc = "ack" /\ n \in ack.left /\ UNCHANGED <<role, sessions, pc, exit, shown, messages>>
      /\ ack'.left \subseteq ack.left /\ delivered' \subseteq delivered
      /\ unseen' \subseteq unseen \cup ({n} \ shown)
  <2>1. /\ pc = "ack" /\ n \in ack.left /\ UNCHANGED <<role, sessions, pc, exit, shown, messages>>
        /\ ack' = [ack EXCEPT !.left = @ \ {n}]
    BY DEF AckVolatile, Acking, conv
  <2>2. ack'.left \subseteq ack.left
    BY <2>1
  <2>3. delivered' \subseteq delivered /\ unseen' \subseteq unseen \cup ({n} \ shown)
    BY DEF AckVolatile
  <2> QED BY <2>1, <2>2, <2>3
<1>2. role = "planner"
  BY <1>1 DEF NotesInv, Told
<1>3. Noted'
  BY <1>1 DEF NotesInv, Noted, First
<1>4. First /\ exit # "error" => unseen' = {}
  BY <1>1 DEF NotesInv, Told
<1>5. Told'
  BY <1>1, <1>2, <1>4 DEF NotesInv, Told, First
<1> QED BY <1>3, <1>5 DEF NotesInv

LEMMA AfterRunTells == ASSUME ConvInv, NotesInv, AfterRun PROVE NotesInv'
<1>1. pc = "ack" /\ UNCHANGED <<role, sessions, delivered, shown, unseen>>
  BY DEF AfterRun, Acking, Rest, ghosts, noteVars
<1>2. role = "planner"
  BY <1>1 DEF NotesInv, Told
<1>3. GoesOn
  BY MessageTypes, OneTextGoesOn DEF AfterRun, GoesOn
<1>4. \/ pc' = "done" /\ exit # "text" /\ exit' = exit
      \/ pc' \in {"top", "done"} /\ exit = "text"
  BY DEF AfterRun, Goes
<1>5. Noted'
  BY <1>1, <1>3, GoingOnKeepsNotes
<1>6. Told'
  BY <1>1, <1>2, <1>4 DEF NotesInv, Told, First
<1> QED BY <1>5, <1>6 DEF NotesInv

LEMMA NextTaskTells == ASSUME ConvInv, NextTask PROVE (NotesInv => NotesInv')
<1> SUFFICES ASSUME NotesInv PROVE NotesInv'
  OBVIOUS
<1>1. pc' = "top" /\ sessions' = sessions + 1 /\ UNCHANGED <<role, unseen>> /\ role # "planner"
  BY DEF NextTask, Goes, ghosts
<1>2. sessions' # 1
  BY <1>1 DEF ConvInv, Typed
<1> QED BY <1>1, <1>2 DEF NotesInv, Noted, Told, First

LEMMA NotesStep == ConvInv /\ NotesInv /\ [Next]_vars => NotesInv'
<1> SUFFICES ASSUME ConvInv, NotesInv, [Next]_vars PROVE NotesInv'
  OBVIOUS
<1> USE DEF Rest, conv, ghosts, noteVars
<1>1. CASE StopAtTop
  <2>1. /\ pc = "top" /\ UNCHANGED <<role, sessions, delivered, shown, unseen, messages>>
        /\ \E how : EndRun(how)
    BY <1>1 DEF StopAtTop
  <2>2. First => delivered \subseteq shown'
    BY <2>1 DEF NotesInv, Told
  <2>3. Told'
    BY <2>1, <2>2, EndsTell
  <2>4. Noted'
    BY <2>1, GoingOnKeepsNotes DEF GoesOn
  <2> QED BY <2>3, <2>4 DEF NotesInv
<1>2. CASE BeginTurn \/ ReadNotes \/ SendRequest \/ TransientError \/ BackoffEnds
  <2>1. /\ pc \in {"top", "drain", "check", "flight", "backoff"}
        /\ pc' \in {"hook", "drain", "push", "flight", "backoff", "check"}
        /\ UNCHANGED <<role, sessions, delivered, shown, unseen, messages>>
    BY <1>2 DEF BeginTurn, ReadNotes, SendRequest, TransientError, BackoffEnds, Goes
  <2>2. Told'
    BY <2>1, RunsTell
  <2>3. Noted'
    BY <2>1, GoingOnKeepsNotes DEF GoesOn
  <2> QED BY <2>2, <2>3 DEF NotesInv
<1>3. CASE PushNotes
  BY <1>3, PushNotesTells
<1>4. CASE GiveUpCall \/ FinalError
  BY <1>4, FailureTells DEF GiveUpCall, FinalError
<1>5. CASE ContextError
  <2>1. pc = "flight" /\ UNCHANGED <<role, sessions, delivered, shown, unseen>>
    BY <1>5 DEF ContextError
  <2>2. CASE StopReached
    BY <1>5, <2>1, <2>2, FailureTells DEF ContextError
  <2>3. CASE ~StopReached
    <3>1. pc' = "hook" /\ messages' = messages
      BY <1>5, <2>3 DEF ContextError, Goes
    <3>2. Noted'
      BY <2>1, <3>1, GoingOnKeepsNotes DEF GoesOn
    <3>3. Told'
      BY <2>1, <3>1, RunsTell
    <3> QED BY <3>2, <3>3 DEF NotesInv
  <2> QED BY <2>2, <2>3
<1>6. CASE BeginCompaction \/ HookTurn
  <2>1. /\ pc \in {"hook", "turn"} /\ pc' \in {"turn", "summary", "check"}
        /\ UNCHANGED <<role, sessions, delivered, shown, unseen>>
        /\ messages' = messages \/ messages' = Append(messages, Text)
    BY <1>6 DEF BeginCompaction, HookTurn, Goes
  <2>2. GoesOn
    BY <2>1, MessageTypes, OneTextGoesOn DEF GoesOn
  <2>3. Noted'
    BY <2>1, <2>2, GoingOnKeepsNotes
  <2>4. Told'
    BY <2>1, RunsTell
  <2> QED BY <2>3, <2>4 DEF NotesInv
<1>7. CASE Summarize \/ FallBack
  BY <1>7, CompactionsTell
<1>8. CASE TextInLoop
  BY <1>8, TextTells
<1>9. CASE TextInHook \/ CallTools
  <2>1. /\ pc = "flight" /\ pc' \in {"summary", "tools"} /\ Shows
        /\ UNCHANGED <<role, sessions, delivered, unseen>>
        /\ messages' = messages \o <<Text>> \/ messages' = messages \o <<ToolCall(pendingRound)>>
    BY <1>9 DEF TextInHook, CallTools, Push, Goes
  <2>2. pendingRound \in Nat
    BY DEF ConvInv, Typed
  <2>3. GoesOn
    BY <2>1, <2>2, MessageTypes, OneTextGoesOn
  <2>4. Noted'
    BY <2>1, <2>3, GoingOnKeepsNotes
  <2>5. Told'
    BY <2>1, ShowsDelivered, RunsTell
  <2> QED BY <2>4, <2>5 DEF NotesInv
<1>10. CASE ToolsThrow
  <2>1. /\ pc = "tools" /\ UNCHANGED <<role, sessions, delivered, shown, unseen, messages>>
        /\ pc' = "summary" \/ (pc' = "done" /\ exit' = "threw")
    BY <1>10 DEF ToolsThrow, Goes
  <2>2. Noted'
    BY <2>1, GoingOnKeepsNotes DEF GoesOn
  <2>3. Told'
    BY <2>1 DEF NotesInv, Told, First
  <2> QED BY <2>2, <2>3 DEF NotesInv
<1>11. CASE ToolsAborted
  BY <1>11, AbortedToolsTell
<1>12. CASE \E b \in Batches : ToolsInHook(b) \/ ToolsInLoop(b)
  BY <1>12, ToolsTell
<1>13. CASE \E n \in Note : AckVolatile(n) \/ AckRead(n)
  <2>1. PICK n \in Note : AckVolatile(n) \/ AckRead(n)
    BY <1>13
  <2>2. CASE AckRead(n)
    <3>1. UNCHANGED <<role, sessions, pc, exit, shown, unseen, messages, delivered>> /\ ack'.left \subseteq ack.left
      BY <2>2 DEF AckRead
    <3> QED BY <3>1, OthersTell
  <2> QED BY <2>1, <2>2, AckVolatileTells
<1>14. CASE AckWrite
  <2>1. UNCHANGED <<role, sessions, pc, exit, shown, unseen, messages, delivered>> /\ ack'.left \subseteq ack.left
    BY <1>14 DEF AckWrite
  <2> QED BY <2>1, OthersTell
<1>15. CASE AfterRun
  BY <1>15, AfterRunTells
<1>16. CASE NextPlanner
  <2>1. Fresh /\ sessions' # 1
    BY <1>16 DEF NextPlanner, ConvInv, Typed
  <2> QED BY <2>1, FreshTells
<1>17. CASE NextTask
  BY <1>17, NextTaskTells
<1>18. CASE \E expired \in SUBSET Note : StartAgain(expired)
  <2>1. Fresh /\ delivered' = {}
    BY <1>18 DEF StartAgain, StartUp
  <2> QED BY <2>1, FreshTells
<1>19. CASE Cancel \/ Abort \/ UNCHANGED vars
  <2>1. UNCHANGED <<role, sessions, pc, exit, shown, unseen, messages, delivered, ack>>
    BY <1>19 DEF Cancel, Abort, vars
  <2> QED BY <2>1, OthersTell
<1>20. CASE \E n \in Note : User(n)
  <2>1. PICK n \in Note : User(n)
    BY <1>20
  <2>2. /\ UNCHANGED <<role, sessions, pc, exit, shown, unseen, messages, ack>>
        /\ delivered' \subseteq delivered
    BY <2>1 DEF User, CreateUserNote, AcknowledgeNote, DeleteNote
  <2> QED BY <2>2, OthersTell
<1>21. CASE Step
  BY <1>1, <1>2, <1>3, <1>4, <1>5, <1>6, <1>7, <1>8, <1>9, <1>10, <1>11, <1>12, <1>13, <1>14, <1>15,
     <1>21, Zenon DEF Step
<1> QED BY <1>16, <1>17, <1>18, <1>19, <1>20, <1>21, Zenon DEF Next

LEMMA NotesInvariant == Spec => []NotesInv
<1> QED BY ConvInvariant, NotesStart, NotesStep, PTL DEF Spec

\* What the first planner's manager takes for delivered is in every request it
\* sends, through compactions, repairs and what users do to their notes
\* meanwhile (pullDeliverables, onContextReset, acknowledgeNotes).
THEOREM DeliveredNotesAreSent == Spec => []FirstPlannerHasItsNotes
<1>1. NotesInv => FirstPlannerHasItsNotes
  BY DEF NotesInv, Noted, First, FirstPlannerHasItsNotes, DeliveredIsInContext
<1> QED BY <1>1, NotesInvariant, PTL

\* The first planner deletes no volatile note that no answered request held,
\* unless the run it was drained for failed (run, acknowledgeNotes).
THEOREM NothingIsDeletedUnseen == Spec => []UnseenOnlyAfterFailure
<1>1. NotesInv => UnseenOnlyAfterFailure
  BY DEF NotesInv, Told, First, UnseenOnlyAfterFailure
<1> QED BY <1>1, NotesInvariant, PTL

(***************************************************************************)
(* What the loop counts                                                    *)
(* A counter reaches its cap only in the step that ends the run, and no    *)
(* run goes on from there: a refused worker and a stalled planner are done. *)
(***************************************************************************)

Marks ==
  /\ role \in Roles /\ exit \in Exits
  /\ pc \in {"top", "hook", "turn", "summary", "drain", "push", "check", "flight", "backoff",
             "tools", "ack", "done"}
  /\ repair \in BOOLEAN /\ evidence \in BOOLEAN /\ artifact \in BOOLEAN
  /\ cancelled \in BOOLEAN /\ aborted \in BOOLEAN /\ torn \in BOOLEAN
  /\ compaction \in [count : Nat, fallbacks : Nat, oversized : BOOLEAN]

Caps ==
  /\ sessions \in 1 .. MaxSessions
  /\ invalid \in 0 .. MaxInvalid /\ badCalls \in 0 .. MaxInvalidCalls /\ nudges \in 0 .. MaxNudges
  /\ role = "worker" /\ invalid = MaxInvalid => pc = "done" /\ exit = "error"
  /\ role # "worker" => invalid <= 1
  /\ nudges = MaxNudges => pc = "done" /\ role = "planner"
  /\ pc = "ack" => role = "planner"

Within ==
  /\ \A i \in DOMAIN frames : frames[i].turn <= MaxHookTurns /\ frames[i].round <= rounds
  /\ pendingRound <= rounds

NoteSets == NotesTypeOK /\ shown \subseteq Note /\ unseen \subseteq Note

\* Compactions are counted in records of one type.
LEMMA CompactionTypes ==
  ASSUME NEW c \in [count : Nat, fallbacks : Nat, oversized : BOOLEAN]
  PROVE  /\ NoCompactions \in [count : Nat, fallbacks : Nat, oversized : BOOLEAN]
         /\ [count |-> c.count + 1, fallbacks |-> 0, oversized |-> FALSE]
              \in [count : Nat, fallbacks : Nat, oversized : BOOLEAN]
         /\ \A b \in BOOLEAN : [c EXCEPT !.fallbacks = @ + 1, !.oversized = @ \/ b]
                                 \in [count : Nat, fallbacks : Nat, oversized : BOOLEAN]
<1>1. NoCompactions \in [count : Nat, fallbacks : Nat, oversized : BOOLEAN]
  BY DEF NoCompactions
<1>2. c.count + 1 \in Nat /\ c.fallbacks + 1 \in Nat /\ c.oversized \in BOOLEAN
  OBVIOUS
<1>3. [count |-> c.count + 1, fallbacks |-> 0, oversized |-> FALSE]
        \in [count : Nat, fallbacks : Nat, oversized : BOOLEAN]
  BY <1>2
<1>4. ASSUME NEW b \in BOOLEAN
      PROVE  [c EXCEPT !.fallbacks = @ + 1, !.oversized = @ \/ b]
               \in [count : Nat, fallbacks : Nat, oversized : BOOLEAN]
  BY <1>2
<1> QED BY <1>1, <1>3, <1>4

\* Whether the rounds a fallback keeps are too long is a Boolean.
LEMMA KeptIsJudged == Kept(messages).oversized \in BOOLEAN
BY DEF Kept

LEMMA MarksStart == Init => Marks
<1>1. NoCompactions \in [count : Nat, fallbacks : Nat, oversized : BOOLEAN] /\ "none" \in Exits
  BY DEF NoCompactions, Exits
<1>2. Init => /\ role \in Roles /\ pc = "top" /\ exit = "none" /\ compaction = NoCompactions
              /\ repair = FALSE /\ evidence = FALSE /\ artifact = FALSE
              /\ cancelled = FALSE /\ aborted = FALSE /\ torn = FALSE
  BY Zenon DEF Init
<1> QED BY <1>1, <1>2 DEF Marks

\* A signal, or nothing.
LEMMA SignalsKeepMarks ==
  ASSUME Marks, UNCHANGED <<role, exit, pc, repair, evidence, artifact, torn, compaction>>,
         cancelled' \in BOOLEAN, aborted' \in BOOLEAN
  PROVE  Marks'
BY DEF Marks

\* A step of the loop, of its callers or of others keeps the marks' types.
LEMMA MarksStep == Marks /\ [Next]_vars => Marks'
<1> SUFFICES ASSUME Marks, [Next]_vars PROVE Marks'
  OBVIOUS
<1> USE DEF Marks, Rest, conv, judged, signals, ghosts, Exits, Goes
<1>1. ASSUME NEW how \in Exits, EndRun(how)
      PROVE  exit' \in Exits /\ pc' \in {"ack", "done"}
  BY <1>1 DEF EndRun
<1>2. CASE StopAtTop
  BY <1>1, <1>2 DEF StopAtTop
<1>3. CASE BeginTurn \/ ReadNotes \/ PushNotes \/ SendRequest \/ TransientError \/ BackoffEnds
  BY <1>3 DEF BeginTurn, ReadNotes, PushNotes, StartRound, SendRequest, TransientError, BackoffEnds
<1>4. ASSUME CallFails
      PROVE  exit' \in Exits /\ pc' \in {"ack", "done", "summary"} /\ repair' = repair
  BY <1>1, <1>4 DEF CallFails
<1>5. CASE GiveUpCall \/ FinalError
  BY <1>4, <1>5 DEF GiveUpCall, FinalError
<1>6. CASE ContextError
  BY <1>4, <1>6 DEF ContextError
<1>7. CASE BeginCompaction \/ HookTurn
  BY <1>7 DEF BeginCompaction, HookTurn
<1>8. CASE Summarize
  BY <1>8, CompactionTypes DEF Summarize
<1>9. CASE FallBack
  <2>1. compaction' \in [count : Nat, fallbacks : Nat, oversized : BOOLEAN]
    BY <1>9, CompactionTypes, KeptIsJudged DEF FallBack
  <2> QED BY <1>9, <2>1 DEF FallBack
<1>10. CASE TextInLoop
  <2>1. exit' \in Exits /\ pc' \in {"ack", "done", "top"} /\ repair' \in BOOLEAN
    BY <1>1, <1>10 DEF TextInLoop, Refuse
  <2> QED BY <1>10, <2>1 DEF TextInLoop
<1>11. CASE TextInHook \/ CallTools
  BY <1>11 DEF TextInHook, CallTools
<1>12. CASE ToolsThrow
  BY <1>12 DEF ToolsThrow
<1>13. CASE ToolsAborted
  BY <1>1, <1>13 DEF ToolsAborted
<1>14. ASSUME NEW b \in Batches, ToolsInHook(b) PROVE Marks'
  BY <1>14 DEF ToolsInHook
<1>15. ASSUME NEW b \in Batches, ToolsInLoop(b) PROVE Marks'
  <2>1. exit' \in Exits /\ pc' \in {"ack", "done", "top"} /\ repair' \in BOOLEAN
    BY <1>1, <1>15 DEF ToolsInLoop, Batches
  <2>2. evidence' \in BOOLEAN /\ artifact' \in BOOLEAN
    BY <1>15 DEF ToolsInLoop, Batches
  <2> QED BY <1>15, <2>1, <2>2 DEF ToolsInLoop
<1>16. ASSUME NEW n \in Note, AckVolatile(n) \/ AckRead(n) PROVE Marks'
  BY <1>16 DEF AckVolatile, AckRead
<1>17. CASE AckWrite \/ AfterRun
  BY <1>17 DEF AckWrite, AfterRun
<1>18. CASE Fresh /\ role' = role
  BY <1>18 DEF Fresh, FreshConversation, NoCompactions
<1>19. CASE NextTask
  BY <1>19 DEF NextTask
<1>20. CASE Cancel \/ Abort \/ UNCHANGED vars \/ \E n \in Note : User(n)
  <2>1. UNCHANGED <<role, exit, pc, repair, evidence, artifact, torn, compaction>>
    BY <1>20, Zenon DEF Cancel, Abort, User, vars
  <2>2. cancelled' \in {TRUE, cancelled} /\ aborted' \in {TRUE, aborted}
    BY <1>20 DEF Cancel, Abort, User, vars
  <2>3. cancelled' \in BOOLEAN /\ aborted' \in BOOLEAN
    BY <2>2
  <2> QED BY <2>1, <2>3, SignalsKeepMarks
<1>21. CASE NextPlanner \/ \E expired \in SUBSET Note : StartAgain(expired)
  BY <1>18, <1>21 DEF NextPlanner, StartAgain
<1>22. CASE Step
  BY <1>2, <1>3, <1>5, <1>6, <1>7, <1>8, <1>9, <1>10, <1>11, <1>12, <1>13, <1>14, <1>15, <1>16, <1>17,
     <1>22, Zenon DEF Step
<1> QED BY <1>19, <1>20, <1>21, <1>22, Zenon DEF Next

LEMMA CapsStart == Init => Caps
BY LimitsAssumption DEF Init, Caps

\* A step that counts nothing: a run that is not done has reached no cap.
LEMMA CapsStay ==
  ASSUME Caps, UNCHANGED <<role, sessions, invalid, badCalls, nudges>>,
         pc # "done" \/ UNCHANGED <<pc, exit>>, pc' = "ack" => role = "planner"
  PROVE  Caps'
BY DEF Caps

\* Only a planner acknowledges.
LEMMA OnlyPlannersAcknowledge ==
  ASSUME NEW how, EndRun(how)
  PROVE  exit' = how /\ pc' = IF role = "planner" THEN "ack" ELSE "done"
BY DEF EndRun, Goes

LEMMA CapsStep == Caps /\ [Next]_vars => Caps'
<1> SUFFICES ASSUME Caps, [Next]_vars PROVE Caps'
  OBVIOUS
<1> USE DEF Rest, conv, judged, signals, ghosts, Goes
<1>1. CASE StopAtTop
  BY <1>1, OnlyPlannersAcknowledge, CapsStay DEF StopAtTop
<1>2. CASE BeginTurn \/ ReadNotes \/ PushNotes \/ SendRequest \/ TransientError \/ BackoffEnds
  BY <1>2, CapsStay DEF BeginTurn, ReadNotes, PushNotes, SendRequest, TransientError, BackoffEnds
<1>3. ASSUME CallFails PROVE pc' = "ack" => role = "planner"
  BY <1>3, OnlyPlannersAcknowledge DEF CallFails
<1>4. CASE GiveUpCall \/ FinalError
  BY <1>3, <1>4, CapsStay DEF GiveUpCall, FinalError
<1>5. CASE ContextError
  BY <1>3, <1>5, CapsStay DEF ContextError
<1>6. CASE BeginCompaction \/ HookTurn \/ Summarize \/ FallBack
  BY <1>6, CapsStay DEF BeginCompaction, HookTurn, Summarize, FallBack
<1>7. CASE TextInLoop
  <2>1. pc = "flight" /\ UNCHANGED <<role, sessions, badCalls, nudges>>
    BY <1>7 DEF TextInLoop
  <2>2. CASE role = "worker" => evidence /\ artifact
    <3>1. invalid' = 0 /\ EndRun("text")
      BY <1>7, <2>2 DEF TextInLoop
    <3> QED BY <2>1, <3>1, OnlyPlannersAcknowledge, LimitsAssumption DEF Caps
  <2>3. CASE ~(role = "worker" => evidence /\ artifact)
    <3>1. role = "worker" /\ invalid' = invalid + 1
          /\ IF invalid + 1 >= MaxInvalid THEN EndRun("error") ELSE pc' = "top"
      BY <1>7, <2>3 DEF TextInLoop, Refuse, TooMany
    <3>2. invalid < MaxInvalid
      BY <2>1, <3>1, LimitsAssumption DEF Caps
    <3>3. CASE invalid + 1 >= MaxInvalid
      BY <2>1, <3>1, <3>2, <3>3, OnlyPlannersAcknowledge, LimitsAssumption DEF Caps
    <3>4. CASE ~(invalid + 1 >= MaxInvalid)
      BY <2>1, <3>1, <3>2, <3>4, LimitsAssumption DEF Caps
    <3> QED BY <3>3, <3>4
  <2> QED BY <2>2, <2>3
<1>8. CASE TextInHook \/ CallTools
  BY <1>8, CapsStay DEF TextInHook, CallTools
<1>9. CASE ToolsThrow
  <2>1. /\ pc = "tools" /\ badCalls' = MaxInvalidCalls /\ pc' \in {"summary", "done"}
        /\ UNCHANGED <<role, sessions, invalid, nudges>>
    BY <1>9 DEF ToolsThrow
  <2> QED BY <2>1, LimitsAssumption DEF Caps
<1>10. CASE ToolsAborted
  BY <1>10, OnlyPlannersAcknowledge, CapsStay DEF ToolsAborted
<1>11. ASSUME NEW b \in Batches, Counted(b) PROVE badCalls' \in 0 .. MaxInvalidCalls
  BY <1>11, LimitsAssumption DEF Caps, Counted
<1>12. ASSUME NEW b \in Batches, ToolsInHook(b) PROVE Caps'
  <2>1. pc = "tools" /\ pc' = "turn" /\ Counted(b) /\ UNCHANGED <<role, sessions, invalid, nudges>>
    BY <1>12 DEF ToolsInHook
  <2> QED BY <1>11, <2>1 DEF Caps
<1>13. ASSUME NEW b \in Batches, ToolsInLoop(b) PROVE Caps'
  <2>1. /\ pc = "tools" /\ Counted(b) /\ UNCHANGED <<role, sessions, nudges>>
        /\ b.ends => role = "planner"
    BY <1>13 DEF ToolsInLoop, RealBatch
  <2>2. pc' = "top" \/ EndRun("terminal")
    BY <1>13 DEF ToolsInLoop
  <2>3. invalid' \in {0, invalid} \/ (invalid' = 1 /\ role = "planner")
    BY <1>13, <2>1 DEF ToolsInLoop, Batches
  <2>4. pc' = "ack" => role = "planner"
    BY <2>2, OnlyPlannersAcknowledge
  <2>5. badCalls' \in 0 .. MaxInvalidCalls
    BY <1>11, <2>1
  <2> QED BY <2>1, <2>3, <2>4, <2>5, LimitsAssumption DEF Caps
<1>14. ASSUME NEW n \in Note, AckVolatile(n) \/ AckRead(n) PROVE Caps'
  <2>1. UNCHANGED <<role, sessions, invalid, badCalls, nudges, pc, exit>>
    BY <1>14 DEF AckVolatile, AckRead
  <2> QED BY <2>1 DEF Caps
<1>15. CASE AckWrite
  <2>1. UNCHANGED <<role, sessions, invalid, badCalls, nudges, pc, exit>>
    BY <1>15 DEF AckWrite
  <2> QED BY <2>1 DEF Caps
<1>16. CASE AfterRun
  <2>1. pc = "ack" /\ UNCHANGED <<role, sessions, invalid, badCalls>>
    BY <1>16 DEF AfterRun, Acking
  <2>2. \/ nudges' = nudges + 1 /\ nudges + 1 >= MaxNudges /\ pc' = "done"
        \/ nudges' = nudges + 1 /\ ~(nudges + 1 >= MaxNudges) /\ pc' = "top"
        \/ nudges' = nudges /\ pc' = "done"
    BY <1>16 DEF AfterRun
  <2> QED BY <2>1, <2>2, LimitsAssumption DEF Caps
<1>17. ASSUME Fresh, role' = role, sessions' \in 1 .. MaxSessions PROVE Caps'
  BY <1>17, LimitsAssumption DEF Fresh, Caps
<1>18. CASE NextPlanner
  <2>1. Fresh /\ role' = role /\ sessions < MaxSessions /\ sessions' = sessions + 1
    BY <1>18 DEF NextPlanner
  <2>2. sessions' \in 1 .. MaxSessions
    BY <2>1, LimitsAssumption DEF Caps
  <2> QED BY <1>17, <2>1, <2>2
<1>19. CASE \E expired \in SUBSET Note : StartAgain(expired)
  <2>1. Fresh /\ role' = role /\ sessions' = 1
    BY <1>19 DEF StartAgain
  <2> QED BY <1>17, <2>1, LimitsAssumption
<1>20. CASE NextTask
  <2>1. /\ pc = "done" /\ sessions < MaxSessions /\ sessions' = sessions + 1 /\ pc' = "top"
        /\ (role = "worker" /\ exit = "text") \/ role = "chat"
        /\ UNCHANGED <<role, invalid, badCalls, nudges>>
    BY <1>20 DEF NextTask
  <2> QED BY <2>1, LimitsAssumption DEF Caps
<1>21. CASE Cancel \/ Abort \/ UNCHANGED vars \/ \E n \in Note : User(n)
  <2>1. UNCHANGED <<role, sessions, invalid, badCalls, nudges, pc, exit>>
    BY <1>21 DEF Cancel, Abort, User, vars
  <2> QED BY <2>1 DEF Caps
<1>22. CASE Step
  BY <1>1, <1>2, <1>4, <1>5, <1>6, <1>7, <1>8, <1>9, <1>10, <1>12, <1>13, <1>14, <1>15, <1>16,
     <1>22, Zenon DEF Step
<1> QED BY <1>18, <1>19, <1>20, <1>21, <1>22, Zenon DEF Next

\* Callers keep to the turns of a hook and to the rounds begun, when the one
\* that changes does.
LEMMA WithinStays ==
  ASSUME Typed, Stacked, Within, rounds' \in Nat, rounds <= rounds', pendingRound' <= rounds',
         \/ frames' = frames \/ Pop
         \/ \E f \in Frames : /\ WithTop(f) \/ frames' = Append(frames, f)
                              /\ f.turn <= MaxHookTurns /\ f.round <= rounds'
  PROVE  Within'
<1>1. frames \in Seq(Frames) /\ Len(frames) \in Nat \ {0} /\ rounds \in Nat
  BY TopChanges DEF Typed
<1>2. \A i \in 1 .. Len(frames) : frames[i] \in Frames /\ frames[i].round \in Nat
  <2>1. \A i \in 1 .. Len(frames) : frames[i] \in Frames
    BY <1>1
  <2>2. \A f \in Frames : f.round \in Nat
    BY DEF Frames
  <2> QED BY <2>1, <2>2, Zenon
<1>3. \A i \in 1 .. Len(frames) : frames[i].turn <= MaxHookTurns /\ frames[i].round <= rounds'
  BY <1>1, <1>2 DEF Within
<1>4. CASE frames' = frames
  BY <1>1, <1>3, <1>4 DEF Within
<1>5. CASE Pop
  <2>1. DOMAIN frames' = 1 .. Len(frames) - 1 /\ \A i \in 1 .. Len(frames) - 1 : frames'[i] = frames[i]
    BY <1>1, <1>5 DEF Pop
  <2> QED BY <1>1, <1>3, <2>1 DEF Within
<1>6. ASSUME NEW f \in Frames, WithTop(f), f.turn <= MaxHookTurns, f.round <= rounds'
      PROVE  Within'
  <2>1. /\ DOMAIN frames' = 1 .. Len(frames)
        /\ \A i \in 1 .. Len(frames) : frames'[i] = IF i = Len(frames) THEN f ELSE frames[i]
    BY <1>1, <1>6 DEF WithTop
  <2> QED BY <1>3, <1>6, <2>1 DEF Within
<1>7. ASSUME NEW f \in Frames, frames' = Append(frames, f), f.turn <= MaxHookTurns, f.round <= rounds'
      PROVE  Within'
  <2>1. /\ DOMAIN frames' = 1 .. Len(frames) + 1
        /\ \A i \in 1 .. Len(frames) + 1 : frames'[i] = IF i = Len(frames) + 1 THEN f ELSE frames[i]
    BY <1>1, <1>7
  <2>2. \A i \in 1 .. Len(frames) + 1 : i = Len(frames) + 1 \/ i \in 1 .. Len(frames)
    BY <1>1
  <2> QED BY <1>3, <1>7, <2>1, <2>2 DEF Within
<1> QED BY <1>4, <1>5, <1>6, <1>7

\* A call that fails drops at most its caller.
LEMMA FailureStaysWithin ==
  ASSUME ConvInv, Within, CallFails
  PROVE  Within'
<1>1. Typed /\ Stacked /\ rounds \in Nat
  BY DEF ConvInv, Typed
<1>2. rounds' = rounds /\ pendingRound' = 0 /\ (frames' = frames \/ Pop)
  BY DEF CallFails
<1> QED BY <1>1, <1>2, WithinStays

\* A new agent, and the first one, are within.
LEMMA OneCallerIsWithin ==
  /\ Init => Within
  /\ Fresh => Within'
<1>1. DOMAIN <<LoopFrame>> = {1} /\ <<LoopFrame>>[1] = LoopFrame
  OBVIOUS
<1>2. LoopFrame.turn = 0 /\ LoopFrame.round = 0
  BY DEF LoopFrame
<1> HIDE DEF LoopFrame
<1>3. Init => Within
  BY <1>1, <1>2, LimitsAssumption DEF Init, Within
<1>4. Fresh => Within'
  BY <1>1, <1>2, LimitsAssumption DEF Fresh, FreshConversation, Within
<1> QED BY <1>3, <1>4

LEMMA WithinStep == ConvInv /\ Within /\ [Next]_vars => Within'
<1> SUFFICES ASSUME ConvInv, Within, [Next]_vars PROVE Within'
  OBVIOUS
<1> USE DEF Rest, conv, Goes
<1>0. /\ Typed /\ Stacked /\ Top \in Frames /\ rounds \in Nat /\ rounds <= rounds + 1 /\ rounds + 1 \in Nat
      /\ 0 <= rounds /\ rounds <= rounds /\ pendingRound \in Nat /\ pendingRound <= rounds
  BY TopChanges DEF ConvInv, Typed, Within
<1>1. Top.turn <= MaxHookTurns /\ Top.round <= rounds /\ Top.turn \in Nat
  <2>1. Len(frames) \in DOMAIN frames
    BY <1>0, TopChanges DEF Typed
  <2> QED BY <1>0, <2>1 DEF Within, Top, Frames
<1>2. ASSUME UNCHANGED rounds, pendingRound' \in {0, pendingRound}, frames' = frames \/ Pop
      PROVE  Within'
  BY <1>0, <1>2, WithinStays
<1>3. ASSUME NEW b \in BOOLEAN, WithTop([Top EXCEPT !.repairing = b]), UNCHANGED <<pendingRound, rounds>>
      PROVE  Within'
  <2> DEFINE f == [Top EXCEPT !.repairing = b]
  <2>1. f \in Frames /\ f.turn = Top.turn /\ f.round = Top.round
    BY <1>0 DEF Frames
  <2>2. WithTop(f)
    BY <1>3
  <2> HIDE DEF f
  <2> QED BY <1>0, <1>1, <1>3, <2>1, <2>2, WithinStays
<1>4. CASE StopAtTop \/ ReadNotes \/ SendRequest \/ TransientError \/ BackoffEnds
  BY <1>2, <1>4 DEF StopAtTop, ReadNotes, SendRequest, TransientError, BackoffEnds
<1>5. CASE BeginTurn
  BY <1>3, <1>5 DEF BeginTurn
<1>6. CASE PushNotes
  <2>1. CASE Top.repairing
    <3>1. pendingRound' = Top.round /\ UNCHANGED <<rounds, frames>>
      BY <1>6, <2>1 DEF PushNotes, StartRound, Restored
    <3> QED BY <1>0, <1>1, <3>1, WithinStays
  <2>2. CASE ~Top.repairing
    <3> DEFINE f == [Top EXCEPT !.round = rounds + 1]
    <3>1. pendingRound' = rounds + 1 /\ rounds' = rounds + 1 /\ WithTop(f)
      BY <1>6, <2>2 DEF PushNotes, StartRound
    <3>2. f \in Frames /\ f.turn = Top.turn /\ f.round = rounds + 1
      BY <1>0 DEF Frames
    <3> HIDE DEF f
    <3> QED BY <1>0, <1>1, <3>1, <3>2, WithinStays
  <2> QED BY <2>1, <2>2
<1>7. CASE GiveUpCall \/ FinalError
  BY <1>7, FailureStaysWithin DEF GiveUpCall, FinalError
<1>8. CASE ContextError
  <2>1. CASE StopReached
    BY <1>8, <2>1, FailureStaysWithin DEF ContextError
  <2>2. CASE ~StopReached
    BY <1>3, <1>8, <2>2 DEF ContextError
  <2> QED BY <2>1, <2>2
<1>9. CASE BeginCompaction
  <2>1. UNCHANGED <<pendingRound, rounds>>
    BY <1>9 DEF BeginCompaction
  <2>2. CASE role = "planner"
    <3> DEFINE f == [LoopFrame EXCEPT !.at = "hook"]
    <3>1. frames' = Append(frames, f)
      BY <1>9, <2>2 DEF BeginCompaction
    <3>2. f \in Frames /\ f.turn = 0 /\ f.round = 0
      BY DEF LoopFrame, Frames
    <3> HIDE DEF f
    <3> QED BY <1>0, <2>1, <3>1, <3>2, WithinStays, LimitsAssumption
  <2>3. CASE role # "planner"
    BY <1>2, <1>9, <2>1, <2>3 DEF BeginCompaction
  <2> QED BY <2>2, <2>3
<1>10. CASE HookTurn
  <2>1. CASE Top.turn < MaxHookTurns /\ ~cancelled
    <3> DEFINE f == [Top EXCEPT !.turn = @ + 1, !.round = rounds + 1, !.repairing = FALSE]
    <3>1. rounds' = rounds + 1 /\ pendingRound' = rounds + 1 /\ WithTop(f)
      BY <1>10, <2>1 DEF HookTurn
    <3>2. Top.turn + 1 <= MaxHookTurns /\ Top.turn + 1 \in Nat
      BY <1>1, <2>1, LimitsAssumption
    <3>3. f \in Frames /\ f.turn = Top.turn + 1 /\ f.round = rounds + 1
      BY <1>0, <3>2 DEF Frames
    <3> HIDE DEF f
    <3> QED BY <1>0, <3>1, <3>2, <3>3, WithinStays
  <2>2. CASE ~(Top.turn < MaxHookTurns /\ ~cancelled)
    BY <1>2, <1>10, <2>2 DEF HookTurn
  <2> QED BY <2>1, <2>2
<1>11. CASE Summarize \/ FallBack
  BY <1>2, <1>11 DEF Summarize, FallBack, Replace
<1>12. CASE TextInLoop
  <2>1. pendingRound' = 0 /\ UNCHANGED <<rounds, frames>>
    BY <1>12 DEF TextInLoop, Refuse, Push
  <2> QED BY <1>2, <2>1
<1>13. CASE TextInHook \/ CallTools
  BY <1>2, <1>13 DEF TextInHook, CallTools, Push
<1>14. CASE ToolsThrow \/ ToolsAborted
  BY <1>2, <1>14 DEF ToolsThrow, ToolsAborted
<1>15. CASE \E b \in Batches : ToolsInHook(b) \/ ToolsInLoop(b)
  BY <1>2, <1>15 DEF ToolsInHook, ToolsInLoop
<1>16. CASE (\E n \in Note : AckVolatile(n) \/ AckRead(n)) \/ AckWrite \/ AfterRun
  BY <1>2, <1>16 DEF AckVolatile, AckRead, AckWrite, AfterRun
<1>17. CASE NextPlanner \/ \E expired \in SUBSET Note : StartAgain(expired)
  BY <1>17, OneCallerIsWithin DEF NextPlanner, StartAgain
<1>18. CASE NextTask \/ Cancel \/ Abort \/ UNCHANGED vars \/ \E n \in Note : User(n)
  BY <1>2, <1>18 DEF NextTask, Cancel, Abort, User, vars
<1>19. CASE Step
  BY <1>4, <1>5, <1>6, <1>7, <1>8, <1>9, <1>10, <1>11, <1>12, <1>13, <1>14, <1>15, <1>16,
     <1>19, Zenon DEF Step
<1> QED BY <1>17, <1>18, <1>19, Zenon DEF Next

\* What a request carries are notes.
LEMMA CarriedAreNotes ==
  ASSUME Typed
  PROVE  Carried(messages) \subseteq Note
<1>1. \A i \in DOMAIN messages : messages[i] \in Messages
  BY DEF Typed
<1>2. \A m \in Messages : m.notes \subseteq Note
  BY DEF Messages
<1> QED BY <1>1, <1>2, Zenon DEF Carried

LEMMA NoteSetsStep == ConvInv /\ NoteSets /\ [Next]_vars => NoteSets'
<1> SUFFICES ASSUME ConvInv, NoteSets, [Next]_vars PROVE NoteSets'
  OBVIOUS
<1> USE DEF NoteSets, NotesTypeOK, NoteStates, Rest, ghosts, noteVars
<1>1. CASE \/ StopAtTop \/ BeginTurn \/ ReadNotes \/ SendRequest \/ GiveUpCall \/ TransientError
           \/ BackoffEnds \/ FinalError \/ ContextError \/ BeginCompaction \/ HookTurn
           \/ ToolsThrow \/ ToolsAborted \/ AfterRun
  BY <1>1 DEF StopAtTop, BeginTurn, ReadNotes, SendRequest, GiveUpCall, TransientError, BackoffEnds,
              FinalError, ContextError, BeginCompaction, HookTurn, ToolsThrow, ToolsAborted, AfterRun
<1>2. CASE PushNotes
  <2>1. delivered' \subseteq delivered \cup Note
    BY <1>2 DEF PushNotes, Deliverable
  <2> QED BY <1>2, <2>1 DEF PushNotes
<1>3. CASE Summarize \/ FallBack
  <2>1. delivered' \in {{}, delivered} /\ UNCHANGED <<note, shown, unseen>>
    BY <1>3 DEF Summarize, FallBack, ContextReset
  <2> QED BY <2>1
<1>4. CASE TextInLoop \/ TextInHook \/ CallTools
  <2>1. shown' = shown \cup Carried(messages) /\ UNCHANGED <<note, delivered, unseen>>
    BY <1>4 DEF TextInLoop, TextInHook, CallTools, Shows
  <2> QED BY <2>1, CarriedAreNotes DEF ConvInv
<1>5. CASE \E b \in Batches : ToolsInHook(b) \/ ToolsInLoop(b)
  BY <1>5 DEF ToolsInHook, ToolsInLoop
<1>6. ASSUME NEW n \in Note, AckVolatile(n) \/ AckRead(n) PROVE NoteSets'
  BY <1>6 DEF AckVolatile, AckRead
<1>7. CASE AckWrite
  BY <1>7 DEF AckWrite
<1>8. CASE NextPlanner \/ NextTask \/ Cancel \/ Abort \/ UNCHANGED vars
  BY <1>8 DEF NextPlanner, Fresh, NextTask, Cancel, Abort, vars
<1>9. ASSUME NEW expired \in SUBSET Note, StartAgain(expired) PROVE NoteSets'
  BY <1>9 DEF StartAgain, StartUp, Fresh
<1>10. ASSUME NEW n \in Note, User(n) PROVE NoteSets'
  BY <1>10 DEF User, CreateUserNote, AcknowledgeNote, DeleteNote
<1>11. CASE Step
  BY <1>1, <1>2, <1>3, <1>4, <1>5, <1>6, <1>7, <1>11, Zenon DEF Step
<1> QED BY <1>8, <1>9, <1>10, <1>11, Zenon DEF Next

LEMMA LoopInvariant == Spec => [](Marks /\ Caps /\ Within /\ NoteSets)
<1>1. Init => NoteSets
  BY DEF Init, NotesInit, NoteSets, NotesTypeOK, NoteStates
<1> QED BY <1>1, ConvInvariant, MarksStart, MarksStep, CapsStart, CapsStep, OneCallerIsWithin,
           WithinStep, NoteSetsStep, PTL DEF Spec

\* Refusals, nudges, invalid batches, hook turns and rounds keep to their caps
\* and everything else to its type, for any agent and any values of the caps
\* (recordInvalidFinalResponse, MAX_NUDGES, consecutiveInvalidCalls, MAX_TURNS).
THEOREM LoopIsTyped == Spec => []TypeOK
<1>1. ASSUME ConvInv, Marks, Caps, Within, NoteSets PROVE TypeOK
  <2>1. frames \in Seq(Frames) /\ frames # <<>> /\ rounds \in Nat /\ pendingRound \in Nat
    BY <1>1 DEF ConvInv, Typed, Stacked
  <2>2. \A i \in DOMAIN frames : frames[i] \in Frame
    <3> SUFFICES ASSUME NEW i \in DOMAIN frames PROVE frames[i] \in Frame
      OBVIOUS
    <3>1. frames[i] \in Frames
      BY <2>1
    <3>2. frames[i].turn <= MaxHookTurns /\ frames[i].round <= rounds
      BY <1>1 DEF Within
    <3> QED BY <2>1, <3>1, <3>2, LimitsAssumption DEF Frames, Frame
  <2>3. frames \in Seq(Frame)
    <3>1. Len(frames) \in Nat /\ DOMAIN frames = 1 .. Len(frames) /\ frames = [i \in 1 .. Len(frames) |-> frames[i]]
      BY <2>1
    <3> QED BY <2>2, <3>1
  <2>4. pendingRound \in 0 .. rounds
    BY <1>1, <2>1 DEF Within
  <2> QED BY <1>1, <2>1, <2>3, <2>4, Zenon DEF TypeOK, Marks, Caps, NoteSets
<1> QED BY <1>1, ConvInvariant, LoopInvariant, PTL

(***************************************************************************)
(* The shell tool                                                          *)
(* A call of run_command whose processes stay in their group is answered by *)
(* its handler, for every value of the timeouts and delays that             *)
(* TimesAssumption allows.  The invariant follows the call through its      *)
(* phases and bounds the clock in each; the bounds add up to less than the  *)
(* caller's timeout.                                                        *)
(***************************************************************************)

\* Before the command runs.
EarlyOnTime ==
  /\ phase = "idle" => now = 0 /\ procs = {} /\ ~unread
  /\ phase = "preparing" => since = 0 /\ now <= PrepareTime /\ procs = {} /\ ~unread
  /\ phase \in {"idle", "preparing"} => kind = "none" /\ killAt = Never

\* While it runs, before and after the first signal.
RunningOnTime ==
  phase = "running" /\ ~fled =>
    /\ since <= PrepareTime
    /\ kind = "none" => killAt = Never /\ now <= since + limit
    /\ kind # "none" => now <= since + limit + Grace
    /\ kind # "none" /\ killAt # Never =>
         now <= killAt /\ killAt <= since + limit + Grace
    /\ kind # "none" /\ killAt = Never => "leader" \notin procs

\* Once its output is closed.
FinishingOnTime ==
  phase = "finishing" /\ ~fled =>
    /\ since <= PrepareTime + InnerCap + Grace
    /\ now <= since + FinishTime

OnTime ==
  /\ limit <= InnerCap
  /\ ~fled => "fled" \notin procs
  /\ phase = "over" => answer # "none"
  /\ EarlyOnTime /\ RunningOnTime /\ FinishingOnTime

CallInv == ShellTypeOK /\ OnTime

-----------------------------------------------------------------------------
\* What the configuration's schema leaves to the handler.
LEMMA CapIsNatural == InnerCap \in Nat /\ InnerCap + Headroom = ShellTimeout
  BY TimesAssumption DEF InnerCap

\* A timeout that the caller asks for is at most the cap.
LEMMA TimeoutsAreCapped ==
  ASSUME NEW ms \in Timeouts
  PROVE  EffectiveTimeout(ms) \in Nat /\ EffectiveTimeout(ms) <= InnerCap /\ Clamp(ms) \in Nat
  BY CapIsNatural, TimesAssumption DEF EffectiveTimeout, Clamp, Shorter, Longer

\* A call begins with nothing under way.
LEMMA InitOnTime == ShellInit => CallInv
<1> SUFFICES ASSUME ShellInit PROVE CallInv
  OBVIOUS
<1>1. ShellTypeOK BY DEF ShellInit, ShellTypeOK, Process, Times, Never
<1>2. limit <= InnerCap BY CapIsNatural DEF ShellInit
<1>3. OnTime BY <1>2 DEF ShellInit, OnTime, EarlyOnTime, RunningOnTime, FinishingOnTime
<1> QED BY <1>1, <1>3 DEF CallInv

\* Every step keeps types.
LEMMA TypesStay ==
  ASSUME ShellTypeOK, [ShellNext]_shellVars
  PROVE  ShellTypeOK'
<1> USE TimesAssumption DEF ShellTypeOK, Times, Never, Process, Group, timers, output
<1>1. CASE Call BY <1>1, TimeoutsAreCapped DEF Call
<1>2. CASE Spawn BY <1>2 DEF Spawn
<1>3. CASE SpawnFails BY <1>3 DEF SpawnFails, Answer
<1>4. CASE ReadOutput BY <1>4 DEF ReadOutput
<1>5. CASE TotalTimerFires BY <1>5 DEF TotalTimerFires, Terminate
<1>6. CASE KillTimerFires BY <1>6 DEF KillTimerFires
<1>7. CASE PollTimerFires BY <1>7 DEF PollTimerFires
<1>8. CASE CheckReturns BY <1>8 DEF CheckReturns, Terminate
<1>9. CASE Close BY <1>9 DEF Close
<1>10. CASE Finish BY <1>10 DEF Finish, Answer
<1>11. CASE StreamFails BY <1>11 DEF StreamFails, Answer
<1>12. CASE Write
  <2>1. silence' \in Int /\ silence' >= 0 BY <1>12 DEF Write, Longer
  <2> QED BY <1>12, <2>1 DEF Write
<1>13. CASE \E p \in Process : Fork(p) BY <1>13 DEF Fork
<1>14. CASE \E p \in Process : End(p) BY <1>14 DEF End
<1>15. CASE CallerTimesOut BY <1>15 DEF CallerTimesOut
<1>16. CASE Tick BY <1>16 DEF Tick
<1>17. CASE UNCHANGED shellVars BY <1>17 DEF shellVars
<1> QED
  BY <1>1, <1>2, <1>3, <1>4, <1>5, <1>6, <1>7, <1>8, <1>9, <1>10, <1>11, <1>12, <1>13, <1>14,
     <1>15, <1>16, <1>17 DEF ShellNext, Handler, Command

\* Every step keeps the bounds.
LEMMA BoundsStay ==
  ASSUME CallInv, [ShellNext]_shellVars
  PROVE  OnTime'
<1>0. ShellTypeOK' BY TypesStay DEF CallInv
<1> USE <1>0, CapIsNatural, TimesAssumption
    DEF CallInv, ShellTypeOK, Times, Never, OnTime, EarlyOnTime, RunningOnTime, FinishingOnTime,
        Process, Group, timers, output
<1>1. CASE Call BY <1>1, TimeoutsAreCapped DEF Call
<1>2. CASE Spawn BY <1>2 DEF Spawn
<1>3. CASE SpawnFails BY <1>3 DEF SpawnFails, Answer
<1>4. CASE ReadOutput BY <1>4 DEF ReadOutput
<1>5. CASE TotalTimerFires BY <1>5 DEF TotalTimerFires, TotalIsDue, Terminate
<1>6. CASE KillTimerFires BY <1>6 DEF KillTimerFires, KillIsDue
<1>7. CASE PollTimerFires BY <1>7 DEF PollTimerFires, PollIsDue
<1>8. CASE CheckReturns BY <1>8 DEF CheckReturns, Terminate
<1>9. CASE Close BY <1>9 DEF Close, IsClosed
<1>10. CASE Finish BY <1>10 DEF Finish, Answer
<1>11. CASE StreamFails BY <1>11 DEF StreamFails, Answer
<1>12. CASE Write BY <1>12 DEF Write
<1>13. CASE \E p \in Process : Fork(p) BY <1>13 DEF Fork
<1>14. CASE \E p \in Process : End(p) BY <1>14 DEF End
<1>15. CASE CallerTimesOut BY <1>15 DEF CallerTimesOut
<1>16. CASE Tick
  <2>1. CASE phase = "running"
    <3>1. CASE kind = "none" BY <1>16, <2>1, <3>1 DEF Tick, TotalIsDue
    <3>2. CASE kind # "none" /\ killAt # Never BY <1>16, <2>1, <3>2 DEF Tick, KillIsDue
    <3>3. CASE kind # "none" /\ killAt = Never BY <1>16, <2>1, <3>3 DEF Tick, IsClosed
    <3> QED BY <3>1, <3>2, <3>3
  <2>2. CASE phase = "finishing" BY <1>16, <2>2 DEF Tick
  <2>3. CASE phase = "preparing" BY <1>16, <2>3 DEF Tick
  <2>4. CASE phase = "over" BY <1>16, <2>4 DEF Tick
  <2> QED BY <1>16, <2>1, <2>2, <2>3, <2>4 DEF Tick
<1>17. CASE UNCHANGED shellVars BY <1>17 DEF shellVars
<1> QED
  BY <1>1, <1>2, <1>3, <1>4, <1>5, <1>6, <1>7, <1>8, <1>9, <1>10, <1>11, <1>12, <1>13, <1>14,
     <1>15, <1>16, <1>17 DEF ShellNext, Handler, Command

\* In every phase of a call that keeps to its group the caller still waits when
\* it is answered.
LEMMA CallersWait ==
  ASSUME CallInv, CallerIsDue
  PROVE  fled
  BY CapIsNatural, TimesAssumption
  DEF CallInv, ShellTypeOK, Times, Never, OnTime, EarlyOnTime, RunningOnTime, FinishingOnTime, CallerIsDue

\* Only the caller's timer answers with a timeout.
LEMMA OnlyTheTimerTimesOut ==
  ASSUME CallInv, [ShellNext]_shellVars, answer' = "timeout", answer # "timeout"
  PROVE  fled
<1>1. CASE CallerTimesOut BY <1>1, CallersWait DEF CallerTimesOut
<1>2. CASE SpawnFails \/ Finish \/ StreamFails
  BY <1>2 DEF SpawnFails, Finish, StreamFails, Answer
<1>3. CASE UNCHANGED answer BY <1>3
<1> QED
  BY <1>1, <1>2, <1>3 DEF ShellNext, Handler, Command, shellVars, Call, Spawn, ReadOutput, TotalTimerFires,
     KillTimerFires, PollTimerFires, CheckReturns, Close, Write, Fork, End, Tick

\* The invariant: types, and the bounds of the clock in each phase (the timers
\* of runShellCommand and their order).
THEOREM CallsKeepToTheirBounds == ShellSpec => []CallInv
<1>1. CallInv /\ [ShellNext]_shellVars => CallInv' BY TypesStay, BoundsStay DEF CallInv
<1> QED BY InitOnTime, <1>1, PTL DEF ShellSpec

\* A call of run_command is answered by its handler, with a result or an error,
\* unless a process of the command has left its group: the inner timers win
\* (WALL_CLOCK_HEADROOM_MS).
THEOREM HandlersAnswerInTime == ShellSpec => CommandsReportInTime
<1>1. CallInv /\ [ShellNext]_shellVars => [answer' = "timeout" /\ answer # "timeout" => fled]_shellVars
  BY OnlyTheTimerTimesOut
<1> QED BY CallsKeepToTheirBounds, <1>1, PTL DEF ShellSpec, CommandsReportInTime

-----------------------------------------------------------------------------
\* What the handler knows of the command's silence: output is read before the
\* clock moves on, and the silence that a write ends is remembered.
Heard ==
  phase = "running" =>
    /\ unread => spoke = now /\ silence >= now - grown
    /\ ~unread => grown = spoke

\* Every step keeps it.
LEMMA HeardStays ==
  ASSUME CallInv, Heard, [ShellNext]_shellVars
  PROVE  Heard'
<1> USE DEF CallInv, ShellTypeOK, Times, Heard, timers, output
<1>1. CASE Call \/ SpawnFails \/ Close \/ Finish \/ StreamFails
  BY <1>1 DEF Call, SpawnFails, Close, Finish, StreamFails
<1>2. CASE Spawn BY <1>2 DEF Spawn, OnTime, EarlyOnTime
<1>3. CASE ReadOutput BY <1>3 DEF ReadOutput
<1>4. CASE TotalTimerFires \/ KillTimerFires \/ PollTimerFires \/ CheckReturns
  BY <1>4 DEF TotalTimerFires, KillTimerFires, PollTimerFires, CheckReturns
<1>5. CASE Write BY <1>5 DEF Write, Longer
<1>6. CASE \E p \in Process : Fork(p) \/ End(p) BY <1>6 DEF Fork, End
<1>7. CASE CallerTimesOut BY <1>7 DEF CallerTimesOut
<1>8. CASE Tick BY <1>8 DEF Tick
<1>9. CASE UNCHANGED shellVars BY <1>9 DEF shellVars
<1> QED
  BY <1>1, <1>2, <1>3, <1>4, <1>5, <1>6, <1>7, <1>8, <1>9 DEF ShellNext, Handler, Command

\* Only a check's return ends a command for inactivity, and what it compares is
\* a silence.
LEMMA OnlyChecksFindSilence ==
  ASSUME CallInv, Heard, [ShellNext]_shellVars, kind' = "inactivity", kind = "none"
  PROVE  silence >= quiet \/ now - spoke >= quiet
<1>1. CASE CheckReturns
  BY <1>1 DEF CheckReturns, Terminate, Heard, CallInv, ShellTypeOK, Times
<1>2. CASE TotalTimerFires
  BY <1>2 DEF TotalTimerFires, Terminate
<1>3. CASE UNCHANGED kind BY <1>3
<1> QED
  BY <1>1, <1>2, <1>3 DEF ShellNext, Handler, Command, shellVars, timers, Call, Spawn, SpawnFails, ReadOutput,
     KillTimerFires, PollTimerFires, Close, Finish, StreamFails, Write, Fork, End, CallerTimesOut, Tick

\* A command is ended for inactivity only if it was silent for as long as the
\* caller allowed (checkOutputGrowth and its two stats).
THEOREM SilenceIsReal == ShellSpec => OnlySilentCommandsAreKilled
<1>1. ShellInit => Heard BY DEF ShellInit, Heard
<1>2. CallInv /\ Heard /\ [ShellNext]_shellVars => Heard' BY HeardStays
<1>3. CallInv /\ Heard /\ [ShellNext]_shellVars
        => [kind' = "inactivity" /\ kind = "none" => silence >= quiet \/ now - spoke >= quiet]_shellVars
  BY OnlyChecksFindSilence
<1> QED BY CallsKeepToTheirBounds, <1>1, <1>2, <1>3, PTL DEF ShellSpec, OnlySilentCommandsAreKilled

(***************************************************************************)
(* Chats                                                                   *)
(* Who has asked for notifications is behind a subscription of the bus.    *)
(***************************************************************************)

ChatAgents == [phase : Phases, open : BOOLEAN, early : Seq(Msg), queue : Seq(Msg), step : Steps]

\* Between the constructor's subscription and the end of run.
Live(x) == x.phase \in {"starting", "listening"}

\* Work is under way on the head of a queue, and run makes the queue.
Sound(x) ==
  /\ x \in ChatAgents
  /\ x.step # "idle" => x.queue # <<>>
  /\ x.phase \in {"none", "creating", "starting"} => x.queue = <<>>

SessionsInv ==
  /\ channel \in {"web", "telegram"} /\ bus \subseteq Agent /\ session \in Agent \cup {NoSession}
  /\ agent \in [Agent -> ChatAgents] /\ \A a \in Agent : Sound(agent[a])
  /\ channel = "telegram" => \A a \in Agent : agent[a].phase # "creating"
  /\ \A a \in bus : Live(agent[a])
  /\ \A a \in Agent : channel = "web" /\ Live(agent[a]) => a \in bus
  /\ session # NoSession => session \in bus /\ agent[session].open

\* A stored chat is without its session only while the bot boots or makes one.
BotInv ==
  /\ bot \in [at : {"off", "idle", "reading", "writing", "creating", "replying", "stopped", "failed"},
              on : Msg \cup Commands \cup {"none", "boot"}]
  /\ channel = "web" => bot.at = "off" /\ session = NoSession
  /\ bot.at = "idle" => bot.on = "none"
  /\ bot.at = "replying" => bot.on \in Commands
  /\ bot.at \in {"reading", "writing"} => bot.on \in Commands \cup {"boot"}
  /\ stored /\ ~unheard /\ session = NoSession =>
       \/ bot.at \in {"off", "stopped", "failed"} \/ bot.on = "boot"
       \/ bot.at = "creating" /\ bot.on = "subscribe"

LEMMA NewAgents ==
  /\ Sound(NoAgent) /\ NoAgent.phase = "none" /\ NoAgent.queue = <<>>
  /\ LET x == [NoAgent EXCEPT !.phase = "creating", !.open = TRUE]
     IN  Sound(x) /\ x.phase = "creating" /\ ~Live(x)
  /\ \A early \in Seq(Msg) :
       LET x == [NoAgent EXCEPT !.phase = "starting", !.open = TRUE, !.early = early]
       IN  Sound(x) /\ x.phase = "starting" /\ x.open /\ Live(x)
<1>1. NoAgent \in ChatAgents
  BY DEF NoAgent, ChatAgents, Phases, Steps
<1>2. Sound(NoAgent) /\ NoAgent.phase = "none" /\ NoAgent.queue = <<>> /\ NoAgent.step = "idle"
  BY <1>1 DEF Sound, NoAgent
<1>3. LET x == [NoAgent EXCEPT !.phase = "creating", !.open = TRUE]
      IN  Sound(x) /\ x.phase = "creating" /\ ~Live(x)
  BY <1>1, <1>2 DEF Sound, Live, ChatAgents, Phases
<1>4. ASSUME NEW early \in Seq(Msg)
      PROVE  LET x == [NoAgent EXCEPT !.phase = "starting", !.open = TRUE, !.early = early]
             IN  Sound(x) /\ x.phase = "starting" /\ x.open /\ Live(x)
  BY <1>1, <1>2 DEF Sound, Live, ChatAgents, Phases
<1> QED BY <1>2, <1>3, <1>4

\* What is said to an agent, and what it does, leaves it where it is.
LEMMA AgentsChange ==
  ASSUME NEW x, Sound(x)
  PROVE  /\ x.phase \notin {"none", "creating", "starting"} =>
              \A m \in Msg : Sound(Accept(x, m)) /\ Accept(x, m).phase = x.phase /\ Accept(x, m).open = x.open
         /\ \A m \in Msg : LET y == [x EXCEPT !.early = Append(@, m)]
                           IN  Sound(y) /\ y.phase = x.phase /\ y.open = x.open
         /\ x.queue # <<>> => \A step \in Steps : LET y == [x EXCEPT !.step = step]
                                                  IN  Sound(y) /\ y.phase = x.phase /\ y.open = x.open
         /\ x.phase = "creating" => LET y == [x EXCEPT !.phase = "starting"]
                                    IN  Sound(y) /\ Live(y) /\ y.open = x.open
<1> USE DEF Sound, Live
<1>1. x \in ChatAgents
  OBVIOUS
<1>2. ASSUME x.phase \notin {"none", "creating", "starting"}, NEW m \in Msg
      PROVE  Sound(Accept(x, m)) /\ Accept(x, m).phase = x.phase /\ Accept(x, m).open = x.open
  <2>1. CASE Len(x.queue) >= MaxPending
    BY <2>1 DEF Accept
  <2>2. CASE ~(Len(x.queue) >= MaxPending)
    <3> DEFINE y == [x EXCEPT !.queue = Append(@, m)]
    <3>1. Accept(x, m) = y
      BY <2>2 DEF Accept
    <3>2. Append(x.queue, m) \in Seq(Msg) /\ Append(x.queue, m) # <<>>
      BY DEF ChatAgents
    <3>3. y \in ChatAgents /\ y.phase = x.phase /\ y.open = x.open /\ y.queue = Append(x.queue, m)
      BY <3>2 DEF ChatAgents
    <3> QED BY <1>2, <3>1, <3>2, <3>3
  <2> QED BY <2>1, <2>2
<1>3. ASSUME NEW m \in Msg
      PROVE  LET y == [x EXCEPT !.early = Append(@, m)] IN Sound(y) /\ y.phase = x.phase /\ y.open = x.open
  <2> DEFINE y == [x EXCEPT !.early = Append(@, m)]
  <2>1. Append(x.early, m) \in Seq(Msg)
    BY DEF ChatAgents
  <2>2. y \in ChatAgents /\ y.phase = x.phase /\ y.open = x.open /\ y.queue = x.queue /\ y.step = x.step
    BY <2>1 DEF ChatAgents
  <2> QED BY <2>2
<1>4. ASSUME x.queue # <<>>, NEW step \in Steps
      PROVE  LET y == [x EXCEPT !.step = step] IN Sound(y) /\ y.phase = x.phase /\ y.open = x.open
  BY <1>1, <1>4 DEF ChatAgents
<1>5. ASSUME x.phase = "creating"
      PROVE  LET y == [x EXCEPT !.phase = "starting"] IN Sound(y) /\ Live(y) /\ y.open = x.open
  BY <1>1, <1>5 DEF ChatAgents, Phases
<1> QED BY <1>2, <1>3, <1>4, <1>5

\* So does the end of a message; only the last of an ended agent ends it.
LEMMA HandledAgents ==
  ASSUME NEW x, Sound(x), x.queue # <<>>
  PROVE  /\ Sound(Handled(x)) /\ (Live(Handled(x)) <=> Live(x)) /\ Handled(x).phase # "creating"
         /\ Live(x) => Handled(x).open = x.open
<1> USE DEF Sound, Live
<1>1. CASE x.phase = "ended" /\ Len(x.queue) = 1
  BY <1>1, NewAgents DEF Handled
<1>2. CASE ~(x.phase = "ended" /\ Len(x.queue) = 1)
  <2> DEFINE y == [x EXCEPT !.queue = Tail(@), !.step = "idle"]
  <2>1. Handled(x) = y
    BY <1>2 DEF Handled
  <2>2. Tail(x.queue) \in Seq(Msg)
    BY DEF ChatAgents
  <2>3. y \in ChatAgents /\ y.phase = x.phase /\ y.open = x.open /\ y.step = "idle"
    BY <2>2 DEF ChatAgents, Steps
  <2> QED BY <2>1, <2>3
<1> QED BY <1>1, <1>2

\* run takes over what the channel has buffered.
LEMMA ListeningAgents ==
  ASSUME NEW x, Sound(x), x.phase = "starting"
  PROVE  LET y == [x EXCEPT !.phase = "listening", !.early = <<>>,
                            !.queue = SubSeq(x.early, 1, Least(MaxPending, Len(x.early)))]
         IN  Sound(y) /\ Live(y) /\ y.open = x.open /\ y.phase = "listening"
<1> DEFINE q == SubSeq(x.early, 1, Least(MaxPending, Len(x.early)))
           y == [x EXCEPT !.phase = "listening", !.early = <<>>, !.queue = q]
<1>1. x \in ChatAgents /\ x.queue = <<>> /\ x.step = "idle"
  BY DEF Sound, ChatAgents
<1>2. q \in Seq(Msg)
  <2>1. x.early \in Seq(Msg) /\ Len(x.early) \in Nat
    BY <1>1 DEF ChatAgents
  <2>2. Least(MaxPending, Len(x.early)) \in 0 .. Len(x.early)
    BY <2>1, MaxPendingAssumption DEF Least
  <2> QED BY <2>1, <2>2
<1> HIDE DEF q
<1>3. y \in ChatAgents /\ y.phase = "listening" /\ y.open = x.open /\ y.step = "idle"
  BY <1>1, <1>2 DEF ChatAgents, Phases
<1>4. Sound(y) /\ Live(y)
  BY <1>3 DEF Sound, Live
<1> QED BY <1>3, <1>4 DEF q

\* The closing of a channel ends an agent that listens.
LEMMA ClosedAgents ==
  ASSUME NEW x, Sound(x)
  PROVE  /\ Sound(Closed(x)) /\ (Live(Closed(x)) <=> x.phase = "starting")
         /\ Closed(x).phase = "creating" => x.phase = "creating"
<1>1. CASE x.phase # "listening"
  <2>1. Closed(x) = [x EXCEPT !.open = FALSE]
    BY <1>1 DEF Closed
  <2>2. /\ Closed(x) \in ChatAgents /\ Closed(x).phase = x.phase
        /\ Closed(x).queue = x.queue /\ Closed(x).step = x.step
    BY <2>1 DEF Sound, ChatAgents
  <2> QED BY <1>1, <2>2 DEF Sound, Live
<1>2. CASE x.phase = "listening" /\ x.queue = <<>>
  BY <1>2, NewAgents DEF Closed, Live
<1>3. CASE x.phase = "listening" /\ x.queue # <<>>
  <2>1. Closed(x) = [x EXCEPT !.phase = "ended", !.open = FALSE]
    BY <1>3 DEF Closed
  <2>2. /\ Closed(x) \in ChatAgents /\ Closed(x).phase = "ended" /\ Closed(x).queue = x.queue
    BY <2>1 DEF Sound, ChatAgents, Phases
  <2> QED BY <1>3, <2>2 DEF Sound, Live
<1> QED BY <1>1, <1>2, <1>3

LEMMA ChatStarts ==
  ASSUME ChatInit PROVE SessionsInv /\ BotInv
<1>1. \A a \in Agent : agent[a] = NoAgent
  BY DEF ChatInit
<1>2. ~Live(NoAgent) /\ NoAgent \in ChatAgents
  BY NewAgents DEF Live, Sound
<1>3. agent \in [Agent -> ChatAgents]
  BY <1>2 DEF ChatInit
<1>4. SessionsInv
  BY <1>1, <1>2, <1>3, NewAgents DEF ChatInit, SessionsInv
<1>5. BotInv
  BY DEF ChatInit, BotInv, Bot
<1> QED BY <1>4, <1>5

\* A step of one agent that leaves it behind its subscription.
LEMMA OneAgentSteps ==
  ASSUME SessionsInv, NEW a \in Agent, NEW y, Sound(y), y.phase # "creating",
         Live(y) <=> Live(agent[a]), Live(y) => y.open = agent[a].open,
         agent' = [agent EXCEPT ![a] = y], UNCHANGED <<channel, bus, session>>
  PROVE  SessionsInv'
<1>1. agent' \in [Agent -> ChatAgents] /\ agent'[a] = y /\ \A b \in Agent \ {a} : agent'[b] = agent[b]
  BY DEF SessionsInv, Sound
<1>2. \A b \in Agent : Sound(agent'[b]) /\ (Live(agent'[b]) <=> Live(agent[b]))
  BY <1>1 DEF SessionsInv
<1>3. channel = "telegram" => \A b \in Agent : agent'[b].phase # "creating"
  BY <1>1 DEF SessionsInv
<1>4. session # NoSession => session \in Agent /\ Live(agent[session]) /\ agent[session].open
  BY DEF SessionsInv
<1>5. session # NoSession => agent'[session].open
  BY <1>1, <1>4
<1> QED BY <1>1, <1>2, <1>3, <1>5 DEF SessionsInv

\* An agent that is made, or taken away before it was.
LEMMA AgentsComeAndGo ==
  ASSUME SessionsInv, NEW a \in Agent, NEW y, Sound(y), ~Live(y), ~Live(agent[a]), channel = "web",
         agent' = [agent EXCEPT ![a] = y], UNCHANGED <<channel, bus, session>>
  PROVE  SessionsInv'
<1>1. agent' \in [Agent -> ChatAgents] /\ agent'[a] = y /\ \A b \in Agent \ {a} : agent'[b] = agent[b]
  BY DEF SessionsInv, Sound
<1>2. \A b \in Agent : Sound(agent'[b]) /\ (Live(agent'[b]) <=> Live(agent[b]))
  BY <1>1 DEF SessionsInv
<1>3. session # NoSession => session # a
  BY DEF SessionsInv
<1> QED BY <1>1, <1>2, <1>3 DEF SessionsInv

\* A channel that closes: its agent is behind no subscription, unless it is
\* still to listen.
LEMMA ClosingSteps ==
  ASSUME SessionsInv, NEW a \in Agent, Live(agent[a]) \/ channel = "web",
         session' # NoSession => session' = session /\ session # a /\ channel = "web",
         agent' = [agent EXCEPT ![a] = Closed(@)], Unsubscribe(a),
         session' \in Agent \cup {NoSession}, UNCHANGED channel
  PROVE  SessionsInv'
<1>1. /\ Sound(Closed(agent[a])) /\ (Live(Closed(agent[a])) <=> agent[a].phase = "starting")
      /\ Closed(agent[a]).phase = "creating" => agent[a].phase = "creating"
  BY ClosedAgents DEF SessionsInv
<1>2. /\ agent' \in [Agent -> ChatAgents] /\ agent'[a] = Closed(agent[a])
      /\ \A b \in Agent \ {a} : agent'[b] = agent[b]
  BY <1>1 DEF SessionsInv, Sound
<1>3. \A b \in Agent : Sound(agent'[b])
  BY <1>1, <1>2 DEF SessionsInv
<1>4. channel = "telegram" => \A b \in Agent : agent'[b].phase # "creating"
  BY <1>1, <1>2 DEF SessionsInv
<1>5. CASE agent[a].phase = "listening"
  <2>1. bus' = (IF channel = "web" THEN bus \ {a} ELSE {}) /\ ~Live(agent'[a])
    BY <1>1, <1>2, <1>5 DEF Unsubscribe
  <2> QED BY <1>2, <1>3, <1>4, <2>1 DEF SessionsInv
<1>6. CASE agent[a].phase # "listening"
  <2>1. bus' = bus /\ (Live(agent'[a]) <=> Live(agent[a]))
    BY <1>1, <1>2, <1>6 DEF Unsubscribe, Live
  <2> QED BY <1>2, <1>3, <1>4, <2>1 DEF SessionsInv
<1> QED BY <1>5, <1>6

\* A run that has no directory: its agent is gone, and of a Telegram chat the
\* subscription and the session.
LEMMA FailingSteps ==
  ASSUME SessionsInv, BotInv, NEW a \in Agent, RunFails(a)
  PROVE  SessionsInv'
<1>1. /\ agent' = [agent EXCEPT ![a] = NoAgent] /\ session' = NoSession /\ channel' = channel
      /\ bus' = IF channel = "web" THEN bus \ {a} ELSE {}
  BY DEF RunFails
<1>2. Sound(NoAgent) /\ NoAgent \in ChatAgents /\ NoAgent.phase = "none" /\ ~Live(NoAgent)
  BY NewAgents DEF Sound, Live
<1>3. /\ agent' \in [Agent -> ChatAgents] /\ agent'[a] = NoAgent
      /\ \A b \in Agent \ {a} : agent'[b] = agent[b]
  BY <1>1, <1>2 DEF SessionsInv
<1>4. \A b \in Agent : Sound(agent'[b])
  BY <1>2, <1>3 DEF SessionsInv
<1>5. channel = "telegram" => \A b \in Agent : agent'[b].phase # "creating"
  BY <1>2, <1>3 DEF SessionsInv
<1> QED BY <1>1, <1>2, <1>3, <1>4, <1>5 DEF SessionsInv

\* A session of the bot, or of a socket, subscribes.
LEMMA SubscribingSteps ==
  ASSUME SessionsInv, NEW a \in Agent, NEW y, Sound(y), y.phase = "starting", ~Live(agent[a]),
         agent' = [agent EXCEPT ![a] = y], Subscribe(a), UNCHANGED channel,
         \/ channel = "web" /\ session' = session
         \/ channel = "telegram" /\ session' = a /\ y.open
  PROVE  SessionsInv'
<1>1. agent' \in [Agent -> ChatAgents] /\ agent'[a] = y /\ \A b \in Agent \ {a} : agent'[b] = agent[b]
  BY DEF SessionsInv, Sound
<1>2. \A b \in Agent : Sound(agent'[b])
  BY <1>1 DEF SessionsInv
<1>3. Live(agent'[a])
  BY <1>1 DEF Live
<1>4. bus' = IF channel = "web" THEN bus \cup {a} ELSE {a}
  BY DEF Subscribe
<1>5. session # NoSession => session # a
  BY DEF SessionsInv
<1> QED BY <1>1, <1>2, <1>3, <1>4, <1>5 DEF SessionsInv

LEMMA SessionsStay ==
  ASSUME SessionsInv, BotInv, [ChatNext]_chatVars
  PROVE  SessionsInv'
<1> USE DEF telegram
<1>1. \A a \in Agent : Sound(agent[a]) /\ agent[a].queue \in Seq(Msg)
  BY DEF SessionsInv, Sound, ChatAgents
<1>2. ASSUME NEW a \in Agent, Listen(a) PROVE SessionsInv'
  <2> DEFINE x == agent[a]
             y == [x EXCEPT !.phase = "listening", !.early = <<>>,
                            !.queue = SubSeq(x.early, 1, Least(MaxPending, Len(x.early)))]
  <2>1. x.phase = "starting" /\ agent' = [agent EXCEPT ![a] = y] /\ UNCHANGED <<channel, bus, session>>
    BY <1>2 DEF Listen
  <2>2. Sound(y) /\ Live(y) /\ y.open = x.open /\ y.phase = "listening"
    BY <1>1, <2>1, ListeningAgents
  <2>3. Live(x)
    BY <2>1 DEF Live
  <2> HIDE DEF y
  <2> QED BY <2>1, <2>2, <2>3, OneAgentSteps
<1>3. ASSUME NEW a \in Agent, Handle(a) \/ HandlingFails(a) PROVE SessionsInv'
  <2> DEFINE x == agent[a]
  <2>1. x.queue # <<>> /\ x.phase # "creating"
    BY <1>1, <1>3 DEF Handle, HandlingFails, Sound
  <2>2. UNCHANGED <<channel, bus, session>>
    BY <1>3 DEF Handle, HandlingFails
  <2>3. \/ agent' = [agent EXCEPT ![a] = [x EXCEPT !.step = "working"]]
        \/ agent' = [agent EXCEPT ![a] = [x EXCEPT !.step = "replying"]]
        \/ agent' = [agent EXCEPT ![a] = Handled(x)]
    BY <1>3 DEF Handle, HandlingFails
  <2>4. \A step \in Steps : LET y == [x EXCEPT !.step = step]
                            IN  Sound(y) /\ y.phase = x.phase /\ y.open = x.open
    BY <1>1, <2>1, AgentsChange
  <2>5. /\ Sound(Handled(x)) /\ (Live(Handled(x)) <=> Live(x)) /\ Handled(x).phase # "creating"
        /\ Live(x) => Handled(x).open = x.open
    BY <1>1, <2>1, HandledAgents
  <2>6. "working" \in Steps /\ "replying" \in Steps
    BY DEF Steps
  <2>7. ASSUME NEW step \in Steps, agent' = [agent EXCEPT ![a] = [x EXCEPT !.step = step]] PROVE SessionsInv'
    <3> DEFINE y == [x EXCEPT !.step = step]
    <3>1. Sound(y) /\ y.phase = x.phase /\ y.open = x.open
      BY <2>4
    <3>2. Live(y) <=> Live(x)
      BY <3>1 DEF Live
    <3> HIDE DEF y
    <3> QED BY <2>1, <2>2, <2>7, <3>1, <3>2, OneAgentSteps DEF y
  <2>8. CASE agent' = [agent EXCEPT ![a] = Handled(x)]
    BY <2>2, <2>5, <2>8, OneAgentSteps
  <2> QED BY <2>3, <2>6, <2>7, <2>8
<1>4. ASSUME NEW a \in Agent, Connect(a) PROVE SessionsInv'
  <2> DEFINE y == [NoAgent EXCEPT !.phase = "creating", !.open = TRUE]
  <2>1. /\ channel = "web" /\ agent[a].phase = "none" /\ agent' = [agent EXCEPT ![a] = y]
        /\ UNCHANGED <<channel, bus, session>>
    BY <1>4 DEF Connect
  <2>2. Sound(y) /\ ~Live(y) /\ ~Live(agent[a])
    BY <2>1, NewAgents DEF Live
  <2> HIDE DEF y
  <2> QED BY <2>1, <2>2, AgentsComeAndGo
<1>5. ASSUME NEW a \in Agent, StartWebSocketChat(a) PROVE SessionsInv'
  <2> DEFINE x == agent[a]
             y == [x EXCEPT !.phase = "starting"]
  <2>1. x.phase = "creating" /\ agent' = [agent EXCEPT ![a].phase = "starting"] /\ Subscribe(a)
        /\ UNCHANGED <<channel, session>>
    BY <1>5 DEF StartWebSocketChat
  <2>2. agent' = [agent EXCEPT ![a] = y]
    BY <2>1
  <2>3. channel = "web" /\ ~Live(x)
    BY <2>1 DEF SessionsInv, Live
  <2>4. Sound(y) /\ y.phase = "starting"
    <3>1. Sound(y)
      BY <1>1, <2>1, AgentsChange
    <3>2. x \in ChatAgents
      BY DEF SessionsInv
    <3> QED BY <3>1, <3>2 DEF ChatAgents
  <2> HIDE DEF y
  <2> QED BY <2>1, <2>2, <2>3, <2>4, SubscribingSteps
<1>6. ASSUME NEW a \in Agent, WebSocketChatFails(a) PROVE SessionsInv'
  <2>1. agent[a].phase = "creating" /\ agent' = [agent EXCEPT ![a] = NoAgent] /\ UNCHANGED <<channel, bus, session>>
    BY <1>6 DEF WebSocketChatFails
  <2>2. channel = "web" /\ ~Live(agent[a]) /\ Sound(NoAgent) /\ ~Live(NoAgent)
    BY <2>1, NewAgents DEF SessionsInv, Live
  <2> QED BY <2>1, <2>2, AgentsComeAndGo
<1>7. ASSUME NEW a \in Agent, SocketCloses(a) PROVE SessionsInv'
  <2>1. channel = "web" /\ agent' = [agent EXCEPT ![a] = Closed(@)] /\ Unsubscribe(a) /\ UNCHANGED <<channel, session>>
    BY <1>7 DEF SocketCloses
  <2>2. session = NoSession
    BY <2>1 DEF BotInv
  <2> QED BY <2>1, <2>2, ClosingSteps
<1>8. ASSUME NEW a \in Agent, NEW m \in Msg, FrameArrives(a, m) PROVE SessionsInv'
  <2> DEFINE x == agent[a]
  <2>1. /\ x.phase = "listening" /\ agent' = [agent EXCEPT ![a] = Accept(x, m)]
        /\ UNCHANGED <<channel, bus, session>>
    BY <1>8 DEF FrameArrives
  <2>2. Sound(Accept(x, m)) /\ Accept(x, m).phase = x.phase /\ Accept(x, m).open = x.open
    BY <1>1, <2>1, AgentsChange
  <2>3. Live(Accept(x, m)) <=> Live(x)
    BY <2>2 DEF Live
  <2> QED BY <2>1, <2>2, <2>3, OneAgentSteps
<1>9. ASSUME NEW m \in Msg, TextArrives(m) PROVE SessionsInv'
  <2>1. UNCHANGED <<channel, bus, session>>
    BY <1>9 DEF TextArrives
  <2>2. CASE session = NoSession
    <3>1. agent' = agent
      BY <1>9, <2>2 DEF TextArrives
    <3> QED BY <2>1, <3>1 DEF SessionsInv
  <2>3. CASE session # NoSession
    <3> DEFINE x == agent[session]
               early == [x EXCEPT !.early = Append(@, m)]
    <3>1. session \in Agent /\ Live(x)
      BY <2>3 DEF SessionsInv
    <3>2. agent' = [agent EXCEPT ![session] = IF x.phase = "starting" THEN early ELSE Accept(x, m)]
      <4>1. CASE x.phase = "starting"
        <5>1. agent' = [agent EXCEPT ![session].early = Append(@, m)]
          BY <1>9, <2>3, <4>1 DEF TextArrives
        <5> QED BY <4>1, <5>1
      <4>2. CASE x.phase # "starting"
        <5>1. agent' = [agent EXCEPT ![session] = Accept(@, m)]
          BY <1>9, <2>3, <4>2 DEF TextArrives
        <5> QED BY <4>2, <5>1
      <4> QED BY <4>1, <4>2
    <3>3. Sound(early) /\ early.phase = x.phase /\ early.open = x.open
      BY <1>1, <3>1, AgentsChange
    <3>4. x.phase # "starting" =>
            Sound(Accept(x, m)) /\ Accept(x, m).phase = x.phase /\ Accept(x, m).open = x.open
      BY <1>1, <3>1, AgentsChange DEF Live
    <3> HIDE DEF early
    <3> DEFINE y == IF x.phase = "starting" THEN early ELSE Accept(x, m)
    <3>5. Sound(y) /\ y.phase = x.phase /\ y.open = x.open
      BY <3>3, <3>4
    <3>6. agent' = [agent EXCEPT ![session] = y]
      BY <3>2
    <3> HIDE DEF y
    <3>7. (Live(y) <=> Live(x)) /\ y.phase # "creating"
      BY <3>1, <3>5 DEF Live
    <3> QED BY <2>1, <3>1, <3>5, <3>6, <3>7, OneAgentSteps
  <2> QED BY <2>2, <2>3
<1>10. ASSUME NEW a \in Agent, CreateSession(a) PROVE SessionsInv'
  <2> DEFINE early == IF bot.on \in Msg THEN <<bot.on>> ELSE <<>>
             y == [NoAgent EXCEPT !.phase = "starting", !.open = TRUE, !.early = early]
  <2>1. /\ bot.at = "creating" /\ agent[a].phase = "none" /\ agent' = [agent EXCEPT ![a] = y]
        /\ Subscribe(a) /\ session' = a /\ UNCHANGED channel
    BY <1>10 DEF CreateSession
  <2>2. early \in Seq(Msg)
    OBVIOUS
  <2> HIDE DEF early
  <2>3. Sound(y) /\ y.phase = "starting" /\ y.open
    BY <2>2, NewAgents
  <2>4. channel = "telegram" /\ ~Live(agent[a])
    BY <2>1 DEF SessionsInv, BotInv, Live
  <2> HIDE DEF y
  <2> QED BY <2>1, <2>3, <2>4, SubscribingSteps
<1>11. ASSUME CloseSession, session' = NoSession, UNCHANGED channel PROVE SessionsInv'
  <2>1. CASE session = NoSession
    BY <1>11, <2>1 DEF CloseSession, SessionsInv
  <2>2. CASE session # NoSession
    <3>1. session \in Agent /\ Live(agent[session])
      BY <2>2 DEF SessionsInv
    <3>2. agent' = [agent EXCEPT ![session] = Closed(@)] /\ Unsubscribe(session)
      BY <1>11, <2>2 DEF CloseSession
    <3> QED BY <1>11, <3>1, <3>2, ClosingSteps
  <2> QED BY <2>1, <2>2
<1>12. CASE WriteSubs
  <2>1. UNCHANGED <<channel, agent, bus, session>> \/ (CloseSession /\ session' = NoSession /\ UNCHANGED channel)
    BY <1>12 DEF WriteSubs
  <2> QED BY <1>11, <2>1 DEF SessionsInv
<1>13. CASE StopBot
  BY <1>11, <1>13 DEF StopBot
<1>14. CASE Exit
  <2>1. bus' = {} /\ session' = NoSession /\ UNCHANGED channel /\ agent' = [a \in Agent |-> NoAgent]
    BY <1>14 DEF Exit
  <2>2. ~Live(NoAgent) /\ NoAgent \in ChatAgents /\ Sound(NoAgent) /\ NoAgent.phase # "creating"
    BY NewAgents DEF Live, Sound
  <2>3. agent' \in [Agent -> ChatAgents] /\ \A a \in Agent : agent'[a] = NoAgent
    BY <2>1, <2>2
  <2> QED BY <2>1, <2>2, <2>3 DEF SessionsInv
<1>15. CASE UNCHANGED <<channel, agent, bus, session>>
  BY <1>15 DEF SessionsInv
<1>16. CASE \E a \in Agent : AgentStep(a) \/ RunFails(a) \/ HandlingFails(a) \/ WebStep(a)
  BY <1>2, <1>3, <1>4, <1>5, <1>6, <1>7, <1>8, <1>16, FailingSteps DEF AgentStep, WebStep
<1>17. CASE BotStep
  <2>1. CASE \E u \in Commands : CommandArrives(u)
    BY <1>15, <2>1 DEF CommandArrives
  <2>2. CASE ReadSubs \/ WriteSubsFails \/ CreationFails \/ Reply
    BY <1>15, <2>2 DEF ReadSubs, WriteSubsFails, CreationFails, Reply
  <2> QED BY <1>9, <1>10, <1>12, <1>13, <1>17, <2>1, <2>2 DEF BotStep
<1>18. CASE \E a \in Agent : Delivered(a) \/ DeliveryTimesOut(a)
  BY <1>15, <1>18 DEF Delivered, DeliveryTimesOut
<1>19. CASE Publish \/ PublishReturns \/ StartTelegramBot
  BY <1>15, <1>19 DEF Publish, PublishReturns, StartTelegramBot
<1>20. CASE UNCHANGED chatVars
  BY <1>15, <1>20 DEF chatVars
<1> QED BY <1>14, <1>16, <1>17, <1>18, <1>19, <1>20 DEF ChatNext

\* The bot goes on with its update, or is done with it.
LEMMA BotSteps ==
  ASSUME BotInv, NEW at \in {"off", "idle", "reading", "writing", "creating", "replying", "stopped", "failed"},
         NEW on \in Msg \cup Commands \cup {"none", "boot"}
  PROVE  /\ bot' = [bot EXCEPT !.at = at] => bot' = Bot(at, bot.on) /\ bot.on \in Msg \cup Commands \cup {"none", "boot"}
         /\ Bot(at, on) \in [at : {"off", "idle", "reading", "writing", "creating", "replying", "stopped", "failed"},
                             on : Msg \cup Commands \cup {"none", "boot"}]
         /\ Bot(at, on).at = at /\ Bot(at, on).on = on
BY DEF BotInv, Bot

LEMMA BotStays ==
  ASSUME SessionsInv, BotInv, [ChatNext]_chatVars
  PROVE  BotInv'
<1> DEFINE Ats == {"off", "idle", "reading", "writing", "creating", "replying", "stopped", "failed"}
           Ons == Msg \cup Commands \cup {"none", "boot"}
           Bad(at, on) == /\ stored' /\ ~unheard' /\ session' = NoSession
                          /\ at \notin {"off", "stopped", "failed"} /\ on # "boot"
                          /\ ~(at = "creating" /\ on = "subscribe")
<1> USE DEF telegram
<1>1. ASSUME NEW at \in Ats, NEW on \in Ons, bot' = Bot(at, on),
             channel' = "web" => at = "off" /\ session' = NoSession, at = "idle" => on = "none",
             at = "replying" => on \in Commands, at \in {"reading", "writing"} => on \in Commands \cup {"boot"},
             ~Bad(at, on)
      PROVE  BotInv'
  <2>1. bot' \in [at : Ats, on : Ons] /\ bot'.at = at /\ bot'.on = on
    BY <1>1, BotSteps
  <2> QED BY <1>1, <2>1 DEF BotInv
<1>2. bot = Bot(bot.at, bot.on) /\ bot.at \in Ats /\ bot.on \in Ons
  BY DEF BotInv, Bot
<1>3. \A at \in Ats : BotGoes(at) => bot' = Bot(at, bot.on)
  BY <1>2 DEF BotGoes, Bot
<1>4. "none" \in Ons /\ "boot" \in Ons /\ Commands \subseteq Ons /\ Msg \subseteq Ons
  OBVIOUS
<1> HIDE DEF Ons, Bad
<1>5. CASE UNCHANGED <<channel, telegram>>
  BY <1>5 DEF BotInv
<1>6. ASSUME NEW m \in Msg, TextArrives(m) PROVE BotInv'
  <2>1. CASE session = NoSession
    <3>1. /\ bot.at = "idle" /\ bot' = Bot("creating", m) /\ UNCHANGED <<channel, session, stored, unheard>>
      BY <1>6, <2>1 DEF TextArrives
    <3>2. channel # "web" /\ ~Bad("creating", m)
      BY <3>1 DEF BotInv, Bad
    <3> QED BY <1>1, <1>4, <3>1, <3>2
  <2>2. CASE session # NoSession
    BY <1>5, <1>6, <2>2 DEF TextArrives
  <2> QED BY <2>1, <2>2
<1>7. ASSUME NEW u \in Commands, CommandArrives(u) PROVE BotInv'
  <2>1. /\ bot.at = "idle" /\ bot' = Bot("reading", u) /\ UNCHANGED <<channel, session, stored, unheard>>
    BY <1>7 DEF CommandArrives
  <2>2. channel # "web" /\ ~Bad("reading", u)
    BY <2>1 DEF BotInv, Bad
  <2> QED BY <1>1, <1>4, <1>7, <2>1, <2>2
<1>8. CASE ReadSubs
  <2>1. bot.at = "reading" /\ UNCHANGED <<channel, session, stored, unheard>> /\ channel # "web"
    BY <1>8 DEF ReadSubs, BotInv
  <2>2. CASE BotGoes("replying") /\ bot.on \in Commands
    <3>1. ~Bad("replying", bot.on)
      BY <2>1, <2>2 DEF BotInv, Bad, Commands
    <3> QED BY <1>1, <1>2, <1>3, <2>1, <2>2, <3>1
  <2>3. CASE BotGoes("writing") /\ bot.on \in Commands \cup {"boot"}
    <3>1. ~Bad("writing", bot.on)
      BY <2>1, <2>3 DEF BotInv, Bad
    <3> QED BY <1>1, <1>2, <1>3, <2>1, <2>3, <3>1
  <2>4. CASE BotGoes("creating") /\ bot.on = "boot"
    <3>1. ~Bad("creating", bot.on)
      BY <2>4 DEF Bad
    <3> QED BY <1>1, <1>2, <1>3, <2>1, <2>4, <3>1
  <2>5. CASE BotIdles /\ ~stored
    <3>1. ~Bad("idle", "none")
      BY <2>1, <2>5 DEF Bad
    <3> QED BY <1>1, <1>4, <2>1, <2>5, <3>1 DEF BotIdles
  <2> QED BY <1>8, <2>2, <2>3, <2>4, <2>5 DEF ReadSubs, Commands
<1>9. CASE WriteSubs
  <2>1. bot.at = "writing" /\ channel' = channel /\ channel # "web" /\ (stored' <=> bot.on = "subscribe")
    BY <1>9 DEF WriteSubs, BotInv
  <2>2. CASE bot.on = "subscribe" /\ UNCHANGED <<session, unheard>> /\ session = NoSession /\ BotGoes("creating")
    <3>1. ~Bad("creating", bot.on)
      BY <2>2 DEF Bad
    <3> QED BY <1>1, <1>2, <1>3, <2>1, <2>2, <3>1
  <2>3. CASE bot.on = "subscribe" /\ UNCHANGED <<session, unheard>> /\ session # NoSession /\ BotGoes("replying")
    <3>1. ~Bad("replying", bot.on) /\ bot.on \in Commands
      BY <2>3 DEF Bad, Commands
    <3> QED BY <1>1, <1>2, <1>3, <2>1, <2>3, <3>1
  <2>4. CASE bot.on = "unsubscribe" /\ BotGoes("replying")
    <3>1. ~Bad("replying", bot.on) /\ bot.on \in Commands
      BY <2>1, <2>4 DEF Bad, Commands
    <3> QED BY <1>1, <1>2, <1>3, <2>1, <2>4, <3>1
  <2>5. CASE bot.on = "boot" /\ BotIdles
    <3>1. ~Bad("idle", "none")
      BY <2>1, <2>5 DEF Bad
    <3> QED BY <1>1, <1>4, <2>1, <2>5, <3>1 DEF BotIdles
  <2> QED BY <1>9, <2>2, <2>3, <2>4, <2>5 DEF WriteSubs
<1>10. CASE WriteSubsFails \/ CreationFails
  <2>1. /\ bot.at \in {"writing", "creating"} /\ UNCHANGED <<channel, session, stored>> /\ channel # "web"
        /\ bot' = (IF bot.on = "boot" THEN Bot("failed", "none") ELSE Bot("idle", "none"))
        /\ \/ bot.at = "writing" /\ unheard' = unheard
           \/ bot.at = "creating" /\ unheard' = (unheard \/ bot.on = "subscribe")
    BY <1>10 DEF WriteSubsFails, CreationFails, BotInv
  <2>2. CASE bot.on = "boot"
    <3>1. ~Bad("failed", "none")
      BY DEF Bad
    <3> QED BY <1>1, <1>4, <2>1, <2>2, <3>1
  <2>3. CASE bot.on # "boot"
    <3>1. ~unheard' => ~unheard /\ ~(bot.at = "creating" /\ bot.on = "subscribe")
      BY <2>1
    <3>2. ~(stored /\ ~unheard' /\ session = NoSession)
      BY <2>1, <2>3, <3>1 DEF BotInv
    <3>3. ~Bad("idle", "none")
      BY <2>1, <3>2 DEF Bad
    <3> QED BY <1>1, <1>4, <2>1, <2>3, <3>3
  <2> QED BY <2>2, <2>3
<1>11. CASE Reply
  <2>1. bot.at = "replying" /\ bot' = Bot("idle", "none") /\ UNCHANGED <<channel, session, stored, unheard>>
    BY <1>11 DEF Reply, BotIdles
  <2>2. channel # "web" /\ ~Bad("idle", "none")
    BY <2>1 DEF BotInv, Bad, Commands
  <2> QED BY <1>1, <1>4, <2>1, <2>2
<1>12. ASSUME NEW a \in Agent, CreateSession(a) PROVE BotInv'
  <2>1. /\ bot.at = "creating" /\ UNCHANGED <<channel, stored>> /\ session' = a
        /\ IF bot.on = "subscribe" THEN BotGoes("replying") ELSE bot' = Bot("idle", "none")
    BY <1>12 DEF CreateSession, BotIdles
  <2>2. channel # "web" /\ session' # NoSession
    BY <2>1, SessionAssumption DEF BotInv
  <2>3. \A at, on : ~Bad(at, on)
    BY <2>2 DEF Bad
  <2>4. CASE bot.on = "subscribe"
    BY <1>1, <1>2, <1>3, <2>1, <2>2, <2>3, <2>4 DEF Commands
  <2>5. CASE bot.on # "subscribe"
    BY <1>1, <1>4, <2>1, <2>2, <2>3, <2>5
  <2> QED BY <2>4, <2>5
<1>13. CASE StopBot
  <2>1. bot.at = "idle" /\ channel' = channel /\ bot' = Bot("stopped", "none") /\ channel # "web"
    BY <1>13 DEF StopBot, BotInv
  <2>2. ~Bad("stopped", "none")
    BY DEF Bad
  <2> QED BY <1>1, <1>4, <2>1, <2>2
<1>14. CASE StartTelegramBot
  <2>1. channel # "web" /\ bot' = Bot("reading", "boot") /\ channel' = channel
    BY <1>14 DEF StartTelegramBot
  <2>2. ~Bad("reading", "boot")
    BY DEF Bad
  <2> QED BY <1>1, <1>4, <2>1, <2>2
<1>15. CASE Exit
  <2>1. bot' = Bot("off", "none") /\ session' = NoSession
    BY <1>15 DEF Exit
  <2>2. ~Bad("off", "none")
    BY DEF Bad
  <2> QED BY <1>1, <1>4, <2>1, <2>2
<1>16. CASE \E a \in Agent : \/ AgentStep(a) \/ HandlingFails(a) \/ WebStep(a)
                             \/ Delivered(a) \/ DeliveryTimesOut(a)
  <2>1. UNCHANGED <<channel, telegram>>
    BY <1>16, Zenon DEF AgentStep, Listen, Handle, HandlingFails, WebStep, Connect, StartWebSocketChat,
              WebSocketChatFails, SocketCloses, FrameArrives, Delivered, DeliveryTimesOut
  <2> QED BY <1>5, <2>1
<1>17. CASE BotStep
  BY <1>6, <1>7, <1>8, <1>9, <1>10, <1>11, <1>12, <1>13, <1>17 DEF BotStep
<1>18. CASE Publish \/ PublishReturns \/ UNCHANGED chatVars
  BY <1>5, <1>18 DEF Publish, PublishReturns, chatVars
<1>19. ASSUME NEW a \in Agent, RunFails(a) PROVE BotInv'
  <2>1. /\ UNCHANGED <<channel, bot, stored>> /\ session' = NoSession
        /\ unheard' = (unheard \/ (stored /\ session # NoSession))
    BY <1>19 DEF RunFails
  <2>2. stored' /\ ~unheard' => stored /\ ~unheard /\ session = NoSession
    BY <2>1
  <2> QED BY <2>1, <2>2 DEF BotInv
<1> QED BY <1>14, <1>15, <1>16, <1>17, <1>18, <1>19 DEF ChatNext

LEMMA ChatInvariant == ChatSpec => [](SessionsInv /\ BotInv)
<1>1. ChatInit => SessionsInv /\ BotInv BY ChatStarts
<1>2. SessionsInv /\ BotInv /\ [ChatNext]_chatVars => (SessionsInv /\ BotInv)'
  BY SessionsStay, BotStays
<1> QED BY <1>1, <1>2, PTL DEF ChatSpec

\* Whoever has asked for notifications is behind a subscription of the bus,
\* through restarts, failed writes and the failing of others' sessions; a chat
\* whose own session failed in its making or in its run is without, until the
\* next is made (ChatAgent.create, run, the sessions of the web server and of
\* the bot).
THEOREM SubscribersHear == ChatSpec => []ChatsHearEvents
<1>1. SessionsInv /\ BotInv => ChatsHearEvents
  BY DEF SessionsInv, BotInv, ChatsHearEvents, Live
<1> QED BY ChatInvariant, <1>1, PTL

\* What is published, and what the bot has noted of its chat.
NotedTypes ==
  /\ pub \in [out : BOOLEAN, awaits : SUBSET Agent]
  /\ stored \in BOOLEAN /\ unheard \in BOOLEAN

\* They keep their types.
LEMMA NotedTypesStay == SessionsInv /\ NotedTypes /\ [ChatNext]_chatVars => NotedTypes'
<1> SUFFICES ASSUME SessionsInv, NotedTypes, [ChatNext]_chatVars PROVE NotedTypes'
  OBVIOUS
<1> USE DEF NotedTypes, telegram
<1>1. NoPub \in [out : BOOLEAN, awaits : SUBSET Agent]
  BY DEF NoPub
<1>2. CASE Publish
  <2>1. PICK awaits \in SUBSET bus : pub' = [out |-> TRUE, awaits |-> awaits]
    BY <1>2 DEF Publish
  <2>2. awaits \in SUBSET Agent
    BY <2>1 DEF SessionsInv
  <2> QED BY <1>2, <2>1, <2>2 DEF Publish
<1>3. ASSUME NEW a \in Agent, Delivered(a) \/ DeliveryTimesOut(a) PROVE NotedTypes'
  BY <1>3 DEF Delivered, DeliveryTimesOut
<1>4. CASE PublishReturns \/ Exit
  BY <1>1, <1>4 DEF PublishReturns, Exit
<1>5. ASSUME NEW a \in Agent, AgentStep(a) \/ RunFails(a) \/ HandlingFails(a) \/ WebStep(a) PROVE NotedTypes'
  BY <1>5 DEF AgentStep, Listen, RunFails, Handle, HandlingFails, WebStep, Connect, StartWebSocketChat,
              WebSocketChatFails, SocketCloses, FrameArrives
<1>6. CASE BotStep \/ StartTelegramBot
  BY <1>6 DEF BotStep, TextArrives, CommandArrives, ReadSubs, WriteSubs, WriteSubsFails,
              CreationFails, Reply, StopBot, CreateSession, StartTelegramBot
<1>7. CASE UNCHANGED chatVars
  BY <1>7 DEF chatVars
<1> QED BY <1>2, <1>3, <1>4, <1>5, <1>6, <1>7 DEF ChatNext

\* Agents, bus, bot and sessions keep their types, for any agents and messages.
THEOREM ChatsAreTyped == ChatSpec => []ChatTypeOK
<1>1. ChatInit => NotedTypes
  <2>1. NoPub \in [out : BOOLEAN, awaits : SUBSET Agent]
    BY DEF NoPub
  <2>2. ChatInit => pub = NoPub /\ stored \in BOOLEAN /\ unheard \in BOOLEAN
    BY Zenon DEF ChatInit
  <2> QED BY <2>1, <2>2, Zenon DEF NotedTypes
<1>2. SessionsInv /\ BotInv /\ NotedTypes => ChatTypeOK
  BY DEF SessionsInv, BotInv, NotedTypes, ChatTypeOK, Sound, ChatAgents
<1> QED BY ChatInvariant, <1>1, <1>2, NotedTypesStay, PTL DEF ChatSpec
=============================================================================
