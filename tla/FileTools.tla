------------------------------- MODULE FileTools -------------------------------
(***************************************************************************)
(* What the file tools answer (src/src/mcp/builtins/filesystem.ts) and which *)
(* paths an agent may change (agents/conventions.ts).  A path is a sequence  *)
(* of names, a text a sequence of lines, a line a sequence of tokens.        *)
(***************************************************************************)
EXTENDS Integers, Sequences, SequencesExt, FiniteSetsExt, TLC

Rest(s) == SubSeq(s, 2, Len(s))
Least(a, b) == IF a < b THEN a ELSE b
Most(a, b) == IF a > b THEN a ELSE b

\* Array.prototype.slice(from, to): negative indices count from the end.
Slice(s, from, to) ==
  LET At(i) == IF i < 0 THEN Most(0, Len(s) + i) ELSE Least(i, Len(s))
  IN SubSeq(s, At(from) + 1, At(to))

Error(code) == [ok |-> FALSE, code |-> code]

-----------------------------------------------------------------------------
(* Territories *)

Territory(write, exclude) == [write |-> write, exclude |-> exclude]
Everywhere == <<>>
StageFiles == <<".saivage", "stages">>

\* CONVENTIONS, the territories of the roster.
Conventions ==
  [planner |-> Territory({<<".saivage", "plan.json">>}, {<<"src">>, <<"research">>}),
   manager |-> Territory({Everywhere}, {<<".saivage">>}),
   coder |-> Territory({Everywhere}, {<<".saivage">>}),
   researcher |-> Territory({<<"research">>}, {<<"src">>}),
   data_agent |-> Territory({<<"data">>, <<"research", "data-sources">>, StageFiles}, {<<"src">>}),
   reviewer |-> Territory({StageFiles, <<"reviews">>, <<"reports">>}, {<<"src">>, <<"data">>, <<"research">>}),
   designer |-> Territory({<<"research", "design">>, <<"docs">>, StageFiles}, {<<"src">>}),
   critic |-> Territory({<<"research", "design", "critiques">>, <<"docs", "critiques">>, StageFiles},
                        {<<"src">>, <<"data">>, <<"research", "data-sources">>}),
   inspector |-> Territory({<<".saivage", "inspections">>, <<".saivage", "tools", "inspector">>,
                            <<".saivage", "tmp", "inspector-workspace">>}, {<<"src">>}),
   chat |-> Territory({<<".saivage", "notes">>, <<".saivage", "tmp", "chats">>}, {<<"src">>, <<"research">>}),
   librarian |-> Territory({<<".saivage", "memory", "project">>}, {<<"src">>, <<"research">>})]

\* A path above the project's root begins with "..".
StaysInside(path) == path # <<>> /\ path[1] # ".."

IsInside(path, territory) == IsPrefix(territory, path)

\* decideRolePathMutation
RoleMayChange(role, path) ==
  /\ \A t \in Conventions[role].exclude : ~IsInside(path, t)
  /\ \E t \in Conventions[role].write : IsInside(path, t)

\* decidePathMutation, for a call made by an agent: the knowledge store has
\* tools of its own.
MayChange(role, path) ==
  /\ StaysInside(path)
  /\ ~IsInside(path, <<".saivage", "skills">>) /\ ~IsInside(path, <<".saivage", "memory">>)
  /\ RoleMayChange(role, path)

-----------------------------------------------------------------------------
(* read *)

\* A window of a directory, which has a cap, or of a text, which has none.
ReadDirectory(entries, offset, limit, cap) ==
  LET window == Slice(entries, offset, offset + Least(limit, cap))
  IN [ok |-> TRUE, window |-> window, truncated |-> offset + Len(window) < Len(entries)]

ReadText(lines, offset, limit) ==
  IF offset > Len(lines) THEN Error("INVALID_RANGE")
  ELSE LET window == Slice(lines, offset, offset + limit)
       IN [ok |-> TRUE, window |-> window, truncated |-> offset + Len(window) < Len(lines)]

Attachment == [ok |-> TRUE, attached |-> TRUE]

\* An image is attached whole, unless text is asked for; what else is read as
\* text must be short and, at its beginning, free of NUL.
ReadFile(file, mode, ranged, offset, limit, maxBytes) ==
  IF mode = "multimodal" \/ (mode = "auto" /\ file.image)
    THEN CASE ranged -> Error("INVALID_ARGUMENT")
           [] ~file.image -> Error("UNSUPPORTED_ATTACHMENT_TYPE")
           [] file.size > maxBytes -> Error("FILE_TOO_LARGE")
           [] OTHER -> Attachment
  ELSE IF file.size > maxBytes THEN Error("FILE_TOO_LARGE")
  ELSE IF file.binary THEN Error("BINARY_CONTENT")
  ELSE ReadText(file.lines, offset, limit)

-----------------------------------------------------------------------------
(* glob and grep.  A tree is a sequence of entries, in the order the          *)
(* directory lists them; an entry has a name and is a file or a tree.         *)

\* translateSegment: "*" stands for any name.
SegmentMatches(segment, name) == segment = "*" \/ segment = name

\* globToRegExp: "**" stands for any number of directories, and at the end for
\* whatever is below.
RECURSIVE GlobMatches(_, _)
GlobMatches(pattern, path) ==
  IF pattern = <<"**">> THEN path # <<>>
  ELSE IF pattern = <<>> \/ path = <<>> THEN pattern = path
  ELSE IF pattern[1] = "**" THEN \E n \in 0..Len(path) : GlobMatches(Rest(pattern), SubSeq(path, n + 1, Len(path)))
  ELSE SegmentMatches(pattern[1], path[1]) /\ GlobMatches(Rest(pattern), Rest(path))

IsSkipped(name) == name \in {".git", "node_modules"}

\* What a walk meets, in its order: files, directories that are too deep and
\* directories that may not be opened.
RECURSIVE Steps(_, _, _)
Steps(directory, at, maxDepth) ==
  LET Entry(steps, e) ==
        steps \o IF "file" \in DOMAIN e THEN <<[kind |-> "file", path |-> Append(at, e.name), file |-> e.file]>>
                 ELSE IF IsSkipped(e.name) THEN <<>>
                 ELSE Steps(e, Append(at, e.name), maxDepth)
  IN IF Len(at) > maxDepth THEN <<[kind |-> "deep", path |-> at]>>
     ELSE IF ~directory.open THEN <<[kind |-> "locked", path |-> at]>>
     ELSE FoldLeft(Entry, <<>>, directory.tree)

\* walkFiles: a directory that is too deep, like a file the visitor declines,
\* ends the whole walk; one that may not be opened is passed over.
Visit(walk, root, maxDepth, OnFile(_, _)) ==
  LET Step(w, s) ==
        CASE ~w.goesOn -> w
          [] w.goesOn /\ s.kind = "file" -> OnFile(w, s)
          [] w.goesOn /\ s.kind = "deep" -> [w EXCEPT !.goesOn = FALSE, !.reason = "depth"]
          [] w.goesOn /\ s.kind = "locked" -> [w EXCEPT !.skipped = @ \cup {s.path}]
  IN FoldLeft(Step, walk, Steps(root, <<>>, maxDepth))

NewWalk == [found |-> {}, goesOn |-> TRUE, reason |-> "none", skipped |-> {}]

SearchAnswer(walk) == [found |-> walk.found, truncated |-> walk.reason # "none", skipped |-> walk.skipped]

\* One match more than the limit tells that there are more.
Glob(root, pattern, maxResults, maxDepth) ==
  LET OnFile(w, f) ==
        IF ~GlobMatches(pattern, f.path) THEN w
        ELSE IF Cardinality(w.found) >= maxResults THEN [w EXCEPT !.goesOn = FALSE, !.reason = "results"]
        ELSE [w EXCEPT !.found = @ \cup {f.path}]
  IN SearchAnswer(Visit(NewWalk, root, maxDepth, OnFile))

\* Large and binary files hold no match; a full answer counts as truncated.
IsSearched(file, maxBytes) == file.size <= maxBytes /\ ~file.binary

MatchesIn(f, line) == {[path |-> f.path, line |-> n] : n \in {i \in DOMAIN f.file.lines : f.file.lines[i] = line}}

FirstMatches(matches, n) == {m \in matches : Cardinality({k \in matches : k.line < m.line}) < n}

Grep(root, include, line, maxResults, maxDepth, maxBytes) ==
  LET OnFile(w, f) ==
        LET matches == IF IsSearched(f.file, maxBytes) /\ GlobMatches(include, f.path) THEN MatchesIn(f, line) ELSE {}
            found == w.found \cup FirstMatches(matches, maxResults - Cardinality(w.found))
        IN IF Cardinality(found) < maxResults THEN [w EXCEPT !.found = found]
           ELSE [w EXCEPT !.found = found, !.goesOn = FALSE, !.reason = "results"]
  IN SearchAnswer(Visit(NewWalk, root, maxDepth, OnFile))

-----------------------------------------------------------------------------
(* edit *)

StartsAt(text, old, i) == i + Len(old) - 1 <= Len(text) /\ SubSeq(text, i, i + Len(old) - 1) = old

\* content.split(old): the matches from the left that do not overlap.
RECURSIVE MatchesFrom(_, _, _)
MatchesFrom(text, old, i) ==
  IF i > Len(text) THEN <<>>
  ELSE IF StartsAt(text, old, i) THEN <<i>> \o MatchesFrom(text, old, i + Len(old))
  ELSE MatchesFrom(text, old, i + 1)

\* What String.replace makes of its second argument: "$$" is a dollar sign and
\* "$&" the text that matched.
Expand(new, old) ==
  FoldLeft(LAMBDA text, token : text \o CASE token = "$$" -> <<"$">> [] token = "$&" -> old [] OTHER -> <<token>>, <<>>, new)

\* The pieces between the matches, joined by new.
Join(text, old, matches, new) ==
  LET Put(done, i) == [text |-> done.text \o SubSeq(text, done.next, i - 1) \o new, next |-> i + Len(old)]
      done == FoldLeft(Put, [text |-> <<>>, next |-> 1], matches)
  IN done.text \o SubSeq(text, done.next, Len(text))

Edit(text, old, new, all) ==
  LET matches == MatchesFrom(text, old, 1)
  IN CASE old = <<>> -> Error("INVALID_ARGUMENT")
       [] old # <<>> /\ matches = <<>> -> Error("NO_MATCH")
       [] ~all /\ Len(matches) > 1 -> Error("AMBIGUOUS_MATCH")
       [] OTHER -> [ok |-> TRUE,
                    text |-> Join(text, old, matches, IF all THEN new ELSE Expand(new, old))]

-----------------------------------------------------------------------------
(* apply_patch.  A hunk has the first line it is about in the old file, as     *)
(* its header counts, and its lines with their markers.                        *)

\* The cursor counts the lines of the original that are dealt with.
HunkLine(p, line) ==
  IF p.error # "none" THEN p
  ELSE LET matches == p.cursor \in 0..(Len(p.original) - 1) /\ p.original[p.cursor + 1] = line.text
       IN CASE line.marker = "+" -> [p EXCEPT !.output = Append(@, line.text)]
            [] line.marker = " " /\ matches -> [p EXCEPT !.output = Append(@, line.text), !.cursor = @ + 1]
            [] line.marker = "-" /\ matches -> [p EXCEPT !.cursor = @ + 1]
            [] line.marker = " " /\ ~matches -> [p EXCEPT !.error = "PATCH_CONTEXT_MISMATCH"]
            [] line.marker = "-" /\ ~matches -> [p EXCEPT !.error = "PATCH_DELETE_MISMATCH"]

ApplyHunk(p, hunk) ==
  IF p.error # "none" THEN p
  ELSE FoldLeft(HunkLine, [p EXCEPT !.output = @ \o Slice(p.original, p.cursor, hunk.start - 1), !.cursor = hunk.start - 1],
                hunk.lines)

PatchText(original, hunks) ==
  LET p == FoldLeft(ApplyHunk, [original |-> original, output |-> <<>>, cursor |-> 0, error |-> "none"], hunks)
  IN IF p.error # "none" THEN Error(p.error)
     ELSE [ok |-> TRUE, text |-> p.output \o Slice(original, p.cursor, Len(original))]

Null == "/dev/null"
Target(part) == IF part.new = Null THEN part.old ELSE part.new

\* The parts of a patch in turn: each file is written before the next part is
\* looked at, so a part that is refused leaves the earlier ones applied.  A
\* file of another name is not removed.
ApplyPart(role, done, part) ==
  IF done.error # "none" THEN done
  ELSE IF ~MayChange(role, Target(part)) THEN [done EXCEPT !.error = "BLOCKED_PATH"]
  ELSE LET original == IF part.old = Null THEN <<>> ELSE done.files[part.old]
           patched == PatchText(original, part.hunks)
       IN IF ~patched.ok THEN [done EXCEPT !.error = patched.code]
          ELSE [done EXCEPT !.changed = @ \cup {Target(part)},
                  !.files = IF part.new = Null THEN [f \in DOMAIN @ \ {part.old} |-> @[f]]
                            ELSE (part.new :> patched.text) @@ @]

ApplyPatch(role, files, parts) ==
  LET Part(done, part) == ApplyPart(role, done, part)
      done == FoldLeft(Part, [files |-> files, changed |-> {}, error |-> "none"], parts)
  IN IF done.error = "none" /\ parts = <<>> THEN [done EXCEPT !.error = "INVALID_PATCH"] ELSE done
=============================================================================
