----------------------------- MODULE MCRetrieval -----------------------------
(* Retrieval with two files, the chunkers over short texts, and the datasets *)
(* over small tables.                                                        *)
EXTENDS Retrieval, Chunking, Datasets

\* The files differ in their names only.
FileSymmetry == Permutations(Paths)

\* The run does not go on in a store that two ingests have written: nothing is
\* claimed of its content until it is dropped.
NotShared == ~shared

Lines == {<<>>, <<"a">>, <<"b", "wide">>, <<"#", "t">>, <<"##", "t">>}
Documents == UNION {[1..n -> Lines] : n \in 0..4}
Widest(text) == IF \E i \in DOMAIN WordsOf(text) : WordsOf(text)[i] = "wide" THEN 3 ELSE 1

TextsOf(chunks) == FlattenSeq([i \in DOMAIN chunks |-> WordsOf(chunks[i].text)])
IsPartOf(words, whole) == \E a \in 1..Len(whole), b \in 0..Len(whole) : words = SubSeq(whole, a, b)
LinesOf(text, chunk) == WordsOf(SubSeq(text, chunk.first, chunk.last))

\* No word of a document is lost, moved or put under another heading by the
\* splitter, whatever the cap; without overlap none is said twice.
ASSUME ChunksAreTheDocument ==
  \A text \in Documents, cap \in 1..4 :
    LET chunks == ChunkMarkdown(text, cap, 0)
    IN /\ TextsOf(chunks) = WordsOf(text)
       /\ \A i \in DOMAIN chunks : \A overlap \in 0..(cap \div 2) :
            LET chunk == ChunkMarkdown(text, cap, overlap)[i]
            IN /\ [chunk EXCEPT !.text = chunks[i].text] = chunks[i]
               /\ IsPartOf(WordsOf(chunks[i].text), LinesOf(text, chunk))

\* The cap holds for the words of a chunk: neither for the newlines between
\* its paragraphs, nor for the overlap put before it, nor for a word that
\* exceeds it alone.
ASSUME CapBoundsTheWords ==
  \A text \in Documents, cap \in 1..4 : \A overlap \in 0..(cap \div 2) :
    LET chunks == ChunkMarkdown(text, cap, overlap)
    IN \A i \in DOMAIN chunks :
         LineCost(WordsOf(chunks[i].text)) <= overlap + IF Widest(text) > cap THEN Widest(text) ELSE cap

ASSUME CapIsExceeded ==
  \E text \in Documents : \E chunk \in Range(ChunkMarkdown(text, 4, 2)) : CountTokens(chunk.text) > 4 + 2

Symbols(text) ==
  {<<>>} \cup {<<[first |-> i, last |-> j, name |-> "s", type |-> "class_declaration"]>> : i, j \in DOMAIN text}
Wellformed(text, symbols) == \A s \in Range(symbols) : s.first <= s.last /\ text[s.first] # <<>> /\ text[s.last] # <<>>

\* Code is kept in order whatever its symbols are, and a symbol's chunks name
\* its lines; what stands between two symbols is given the lines of others.
ASSUME ChunksAreTheCode ==
  \A text \in Documents, cap \in 1..3 : \A symbols \in {s \in Symbols(text) : Wellformed(text, s)} :
    LET chunks == ChunkCode(text, TRUE, symbols, cap)
    IN /\ TextsOf(chunks) = WordsOf(text)
       /\ TextsOf(ChunkCode(text, FALSE, symbols, cap)) = WordsOf(text)
       /\ \A c \in Range(chunks) : c.name = "s" =>
            IsPartOf(WordsOf(c.text), LinesOf(text, c))

ASSUME PreludesMissTheirLines ==
  LET text == << <<"a">>, <<>>, <<>>, <<"b", "wide">> >>
      symbols == <<[first |-> 1, last |-> 1, name |-> "s", type |-> "class_declaration"]>>
      chunk == Last(ChunkCode(text, TRUE, symbols, 9))
  IN chunk.text = << <<"b", "wide">> >> /\ chunk.first = 1 /\ chunk.last = 1

\* A note is one chunk when it is short, and no word of it is lost otherwise.
ASSUME NotesAreWhole ==
  \A text \in Documents, cap \in 1..4 :
    LET chunks == ChunkMemory(text, 3, cap, 0)
    IN TextsOf(chunks) = WordsOf(text) /\ (WordsOf(text) # <<>> /\ CountTokens(text) <= 3 /\ cap > 2 => Len(chunks) = 1)

---------------------------------------------------------------------------
Chunk(id, path, role, kind, created) ==
  [path |-> path, role |-> role, symbolKind |-> kind, createdAt |-> created, id |-> id]
Tables == {[i \in 1..6 |-> Chunk(<<i>>, <<i % 2>>, IF i \in roles THEN <<"coder">> ELSE None,
                                IF i \in kinds THEN <<"class">> ELSE None, <<i>>)] : roles, kinds \in SUBSET {1, 5, 6}}
Single == {[kind |-> "eq", cols |-> [c \in {"role"} |-> v]] : v \in {None, <<"coder">>}} \cup
          {[kind |-> "eq", cols |-> [c \in {"symbolKind"} |-> <<"class">>]], [kind |-> "eq", cols |-> <<>>],
           [kind |-> "in", cols |-> [c \in {"path"} |-> {<<0>>}]], [kind |-> "in", cols |-> [c \in {"path"} |-> {}]],
           [kind |-> "in", cols |-> <<>>], [kind |-> "gt", cols |-> [c \in {"createdAt"} |-> 3]],
           [kind |-> "glob", paths |-> {<<1>>}], [kind |-> "eq", cols |-> [c \in {"colour"} |-> <<"red">>]]}
Filters == Single \cup {[kind |-> k, parts |-> <<a, b>>] : k \in {"and", "or"}, a, b \in Single}
                  \cup {[kind |-> k, parts |-> <<>>] : k \in {"and", "or"}}

\* A query answers with the nearest chunks that match, nearest first: all that
\* were asked for when the filter narrows the search, otherwise those among
\* the nearest Overshoot * topK.
ASSUME QueriesAnswerTheNearest ==
  \A rows \in Tables, filter \in Filters, topK \in 1..2 :
    LET answer == QueryStore(rows, topK, filter)
        all == SelectSeq(rows, LAMBDA row : Satisfies(row, filter))
    IN answer.outcome = "hits" =>
         /\ IsPrefix(answer.hits, all) /\ Len(answer.hits) <= topK
         /\ IsPreFilterEligible(filter) \/ Len(rows) <= topK * Overshoot => answer.hits = FirstOf(all, topK)

\* So a filter by symbol kind may find nothing where there is a match.
ASSUME QueriesMissTheFar ==
  \E rows \in Tables, filter \in Filters : /\ QueryStore(rows, 1, filter) = [outcome |-> "hits", hits |-> <<>>]
                                           /\ \E row \in Range(rows) : Satisfies(row, filter)

\* Every filter but one is either run or refused by a name of its own: an
\* "in" without columns is left to the database.
ASSUME FiltersAreChecked ==
  \A filter \in Filters : CompileFilter(filter) = "refused" =>
    \/ filter.kind = "in" /\ filter.cols = <<>>
    \/ filter.kind \in {"and", "or"} /\ \E part \in Range(filter.parts) : CompileFilter(part) = "refused"

\* No more than maxAttempts are made, and none after an answer or an error
\* that another attempt would not mend; batches are the texts in order.
Answers == {[vectors |-> v, dim |-> d] : v, d \in 1..2} \cup {[status |-> s] : s \in {0, 401, 429, 503}}
ASSUME EmbeddingsEnd ==
  /\ \A answers \in [1..3 -> Answers], max \in 1..3 :
       LET e == EmbedOnce(answers, 2, 2, max)
       IN /\ e.asked <= max /\ e.embedded = (answers[e.asked] = [vectors |-> 2, dim |-> 2])
          /\ e.asked < max /\ ~e.embedded => answers[e.asked] = [status |-> 401]
          /\ \A n \in 1..(e.asked - 1) : answers[n] \notin {[vectors |-> 2, dim |-> 2], [status |-> 401]}
  /\ \A n \in 0..5, size \in 1..3 : LET texts == [i \in 1..n |-> i] IN
       FlattenSeq(Batches(texts, size)) = texts /\ \A b \in Range(Batches(texts, size)) : Len(b) \in 1..size

\* Every state the manager of one dataset can get to.
Configs == {[model |-> m, dim |-> d, chunker |-> c] : m \in {"s", "l"}, d \in 1..2, c \in {"markdown", "code"}}
Saved == {None} \cup {<<c>> : c \in Configs}
NewManager == [configs |-> [i \in {"docs"} |-> None], open |-> [i \in {"docs"} |-> None],
               registry |-> [i \in {"docs"} |-> None], files |-> [i \in {"docs"} |-> NoFile]]
AfterOne(m, mayDie) ==
  {Register(m, "docs", c).manager : c \in Configs} \cup {GetDataset(m, "docs").manager, Drop(m, "docs").manager}
  \cup {Restart(m, [i \in {"docs"} |-> s]) : s \in Saved}
  \cup {[Restart(m, m.configs) EXCEPT !.files["docs"] = OpenDies(@, ConfigStamp(c))] : c \in IF mayDie THEN Configs ELSE {}}
RECURSIVE ManagersFrom(_, _, _)
ManagersFrom(seen, last, mayDie) ==
  LET new == UNION {AfterOne(m, mayDie) : m \in last} \ seen
  IN IF new = {} THEN seen ELSE ManagersFrom(seen \cup new, new, mayDie)
Managers(mayDie) == ManagersFrom({NewManager}, {NewManager}, mayDie)

\* The registry mirrors the stamp of the store, an open dataset embeds as its
\* store does, and the vectors of a store have the width its stamp says.
ASSUME RegistryMirrorsTheStore ==
  \A m \in Managers(FALSE) : LET file == m.files["docs"] IN
    /\ m.registry["docs"] # None => m.registry["docs"] = file.meta
    /\ m.open["docs"] # None => file.meta = <<ConfigStamp(m.open["docs"][1])>>
    /\ file.meta # None => file.width = file.meta[1].dim

\* The last is lost when a process dies between the tables and the stamp and
\* the configuration changes before the next one.
ASSUME WidthsMayDiffer ==
  \E m \in Managers(TRUE) : m.files["docs"].meta # None /\ m.files["docs"].width # m.files["docs"].meta[1].dim

\* A dataset that is registered anew while it is open answers as the old one.
ASSUME RegisteredAnewIsTheOld ==
  \E m \in Managers(FALSE), c \in Configs : LET answer == Register(m, "docs", c) IN
    answer.outcome = "ok" /\ answer.manager.configs["docs"] = <<c>> /\ answer.manager.open["docs"] # <<c>>

\* Nobody without an administrator's role or the operator's word gets to a
\* tool that changes a dataset, nobody at all to a protected one, and one
\* control tool runs at a time.
Callers == {[role |-> r, operator |-> o] : r \in {None, <<"planner">>, <<"coder">>}, o \in BOOLEAN}
Services == {[enabled |-> e, busy |-> b, adminRoles |-> {<<"planner">>}] : e, b \in BOOLEAN}
ASSUME ToolsAreGated ==
  \A service \in Services, caller \in Callers, tool \in Tools \cup {"rag_wipe"}, valid \in BOOLEAN :
    \A collection \in Protected \cup {"docs"} :
      Gate(service, caller, tool, valid, collection) = "run" =>
        /\ service.enabled /\ valid /\ tool \in Tools /\ caller.role # None
        /\ tool \in AdminTools => (caller.operator \/ caller.role = <<"planner">>) /\ collection \notin Protected
        /\ tool \in ControlTools => ~service.busy

\* A batch of chunks is stored whole or not at all, and only in the width of the
\* table.
Vectors == {<<>>} \cup {[i \in {1} |-> [width |-> x]] : x \in 1..2} \cup {[i \in {1, 2} |-> [width |-> x[i]]] : x \in [1..2 -> 1..2]}
ASSUME BatchesAreWhole ==
  \A rows \in {v \in Vectors : \A i \in DOMAIN v : v[i].width = 1}, batch \in Vectors :
    LET after == Upsert(rows, batch, 1) IN
    /\ after.outcome = "stored" => \A i \in DOMAIN batch : after.rows[i] = batch[i]
    /\ after.outcome # "stored" => after.rows = rows
    /\ \A i \in DOMAIN after.rows : after.rows[i].width = 1

\* What an agent registers is one place inside the project that exists and is
\* not withheld; where the root of the project itself is a source, the paths
\* withheld below it are no reason to refuse it.
Sources == [exists : BOOLEAN, from : {<<>>, <<"docs">>, <<"secrets">>, <<"..", "x">>}]
ASSUME RootsAreInside ==
  /\ \A sources \in SeqOf(Sources, 2) :
       RegisterSource(sources, {<<"secrets">>}) = "run" =>
         Len(sources) = 1 /\ sources[1].exists /\ sources[1].from \in {<<>>, <<"docs">>}
  /\ RegisterSource(<<[exists |-> TRUE, from |-> <<>>]>>, {<<"secrets">>}) = "run"

\* Of what the operations can end with, only the database's own refusal has no
\* code of its own.
Outcomes(m) == {Register(m, "docs", c).outcome : c \in Configs} \cup {GetDataset(m, "docs").outcome}
ASSUME ErrorsAreTold ==
  LET ends == UNION {Outcomes([m EXCEPT !.files["docs"].healthy = h]) : m \in Managers(FALSE), h \in BOOLEAN}
              \cup {CompileFilter(filter) : filter \in Filters}
      told == ends \ {"ok", "sql", "refused"}
  IN /\ {"dataset_not_found", "embedding_drift", "config_drift", "corrupted_store", "invalid_query_filter"} = told
     /\ Cardinality({ErrorCode(kind) : kind \in told}) = Cardinality(told)
     /\ \A kind \in told : ErrorCode(kind) # "RAG_INTERNAL"
     /\ ErrorCode("refused") = "RAG_INTERNAL"
===============================================================================
