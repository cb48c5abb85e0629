-------------------------------- MODULE MCShell --------------------------------
(* The command of Shell, and what the other tools of a project answer, over   *)
(* small files.                                                               *)
EXTENDS Shell, WebTools

Ro == INSTANCE Roster

FileRoles == DOMAIN Conventions
ChangesFiles == {"write", "edit", "apply_patch", "webfetch", "git_commit"}

\* Whatever territory a role has, no agent that has a tool that changes files
\* can reach the plan, the runtime state or a knowledge store with it; stages'
\* documents are within reach of two workers.
ASSUME PlanIsOutOfReach ==
  \A role \in FileRoles : (\E tool \in ChangesFiles : Ro!ToolAllowed(role, tool)) =>
    /\ \A file \in {"plan.json", "runtime-state.json", "skills", "memory"} : ~MayChange(role, <<".saivage", file>>)
    /\ MayChange(role, StageFiles \o <<"stage", "summary.json">>) => role \in {"data_agent", "designer"}
    /\ ~MayChange(role, <<"..", "other">>)

Texts(n) == UNION {[1..k -> {"a", "b"}] : k \in 0..n}

\* Reading on where a truncated answer stopped gives the whole text, in order.
RECURSIVE ReadOn(_, _, _)
ReadOn(lines, offset, n) ==
  LET page == ReadText(lines, offset, n)
  IN page.window \o IF page.truncated THEN ReadOn(lines, offset + n, n) ELSE <<>>

ASSUME PagesAreTheText == \A lines \in Texts(4), n \in 1..3 : ReadOn(lines, 0, n) = lines

\* A directory is paged the same way, but a page is never longer than its cap.
RECURSIVE ListOn(_, _, _, _)
ListOn(entries, offset, n, cap) ==
  LET page == ReadDirectory(entries, offset, n, cap)
  IN page.window \o IF page.truncated THEN ListOn(entries, offset + Len(page.window), n, cap) ELSE <<>>
ASSUME PagesAreTheDirectory ==
  \A entries \in Texts(4), n \in 1..3, cap \in 1..2 :
    ListOn(entries, 0, n, cap) = entries /\ Len(ReadDirectory(entries, 0, n, cap).window) <= cap

\* The size limit holds in every mode, an attachment is whole and of an image,
\* and what has a NUL where it is looked for is never given as text; an image
\* cannot be paged unless it is asked for as text.
ASSUME ReadsAreLimited ==
  \A size \in 1..3, binary, image, ranged \in BOOLEAN, mode \in {"auto", "text", "multimodal"}, offset \in 0..3 :
    LET file == [size |-> size, binary |-> binary, image |-> image, lines |-> <<"a", "b">>]
        reply == ReadFile(file, mode, ranged, offset, 1, 2)
    IN /\ reply.ok => size <= 2
       /\ reply = Attachment => image /\ ~ranged /\ mode # "text"
       /\ reply.ok /\ reply # Attachment => ~binary /\ offset <= 2
       /\ image /\ ranged /\ mode = "auto" => ~reply.ok

File(lines) == [size |-> Len(lines), binary |-> FALSE, image |-> FALSE, lines |-> lines]
AsFile(name) == [name |-> name, file |-> File(<<"x", "y", "x">>)]
AsTree(name, open, entries) == [name |-> name, open |-> open, tree |-> entries]
Trees == {AsTree("", TRUE, <<a, b, c>>) : a, b, c \in
            {AsFile("f"), AsTree("d", TRUE, <<AsFile("f"), AsTree("e", TRUE, <<AsFile("g")>>)>>),
             AsTree("locked", FALSE, <<AsFile("f")>>), AsTree(".git", TRUE, <<AsFile("f")>>)}}

\* The files of a tree that can be listed, to any depth.
RECURSIVE FilesOf(_, _)
FilesOf(directory, at) ==
  UNION {LET e == directory.tree[i] IN
           IF "file" \in DOMAIN e THEN {Append(at, e.name)}
           ELSE IF IsSkipped(e.name) \/ ~e.open THEN {} ELSE FilesOf(e, Append(at, e.name)) : i \in DOMAIN directory.tree}

\* A search that does not say it is truncated has found every match there is,
\* and one that is has found no more than it may.
ASSUME SearchesAreComplete ==
  \A tree \in Trees, max \in 0..3, depth \in 0..2 : \A pattern \in {<<"**">>, <<"*">>, <<"**", "f">>, <<"d", "**", "g">>} :
    LET glob == Glob(tree, pattern, max, depth)
        grep == Grep(tree, pattern, "x", max, depth, 5)
        matching == {path \in FilesOf(tree, <<>>) : GlobMatches(pattern, path)}
    IN /\ Cardinality(glob.found) <= max /\ glob.found \subseteq matching
       /\ ~glob.truncated => glob.found = matching
       /\ Cardinality(grep.found) <= max
       /\ ~grep.truncated => grep.found = {[path |-> path, line |-> n] : path \in matching, n \in {1, 3}}

\* An edit that is taken replaces the one match there is, and nothing else, by
\* the new text; but a text with "$" is rewritten unless all is asked for.
ASSUME EditsReplaceOneMatch ==
  \A text \in Texts(4), old \in Texts(2), all \in BOOLEAN : \A new \in {<<>>, <<"c">>, <<"a", "b">>} :
    LET edit == Edit(text, old, new, all)
        places == {i \in DOMAIN text : StartsAt(text, old, i)}
    IN old # <<>> /\ edit.ok /\ ~all /\ Cardinality(places) = 1 =>
         \A i \in places : edit.text = SubSeq(text, 1, i - 1) \o new \o SubSeq(text, i + Len(old), Len(text))
ASSUME DollarsAreRewritten == Edit(<<"a">>, <<"a">>, <<"$$">>, FALSE).text = <<"$">>

\* A hunk that turns lines from..to of a text into new, as diff writes it: with
\* the lines' number, or without any the number of the line before.
HunkOf(text, from, to, new) ==
  [start |-> IF from > to THEN from - 1 ELSE from,
   lines |-> [i \in 1..(to - from + 1) |-> [marker |-> "-", text |-> text[from + i - 1]]]
             \o [i \in DOMAIN new |-> [marker |-> "+", text |-> new[i]]]]
Replaced(text, from, to, new) == SubSeq(text, 1, from - 1) \o new \o SubSeq(text, to + 1, Len(text))

\* A unified diff whose hunks each have a line of the old file gives the new
\* file; a hunk that only adds lines, which has no context, adds them one line
\* early in a file that is not empty.
ASSUME PatchesGiveTheNewFile ==
  \A text \in Texts(4) : \A from, to \in DOMAIN text : from <= to => \A new \in Texts(2) :
    /\ PatchText(text, <<HunkOf(text, from, to, new)>>) = [ok |-> TRUE, text |-> Replaced(text, from, to, new)]
    /\ \A second \in DOMAIN text : second > to =>
         PatchText(text, <<HunkOf(text, from, to, new), HunkOf(text, second, second, <<"c">>)>>)
           = [ok |-> TRUE, text |-> Replaced(Replaced(text, second, second, <<"c">>), from, to, new)]
ASSUME NewFilesAreWhole == \A new \in Texts(2) : PatchText(<<>>, <<HunkOf(<<>>, 1, 0, new)>>) = [ok |-> TRUE, text |-> new]
ASSUME BareAdditionsComeEarly ==
  PatchText(<<"a", "b">>, <<HunkOf(<<"a", "b">>, 3, 2, <<"c">>)>>) = [ok |-> TRUE, text |-> <<"a", "c", "b">>]

\* Of a patch in two parts whose second is refused the first stays applied.
ASSUME PatchesAreNotAtomic ==
  LET first == [old |-> <<"a">>, new |-> <<"a">>, hunks |-> <<HunkOf(<<"a">>, 1, 1, <<"b">>)>>]
      second == [old |-> Null, new |-> <<".saivage", "plan.json">>, hunks |-> <<HunkOf(<<>>, 1, 0, <<"b">>)>>]
      done == ApplyPatch("coder", <<"a">> :> <<"a">>, <<first, second>>)
  IN done.error = "BLOCKED_PATH" /\ done.files[<<"a">>] = <<"b">>

MCLimits == [fetch |-> 2, file |-> 1, ceiling |-> 3, search |-> 3, results |-> 2]
Exchanges == [fails : {"none", "timeout", "reset"}, status : {200, 404}, type : {"text", "image", "other"},
              declared : {Unknown, 1, 4}, chunks : {<<>>, <<1, 1>>, <<2, 2>>}, breaks : {"none", "timeout", "reset"}]
Requests == [http : {TRUE}, mode : {"auto", "text", "multimodal"}, metadataOnly : BOOLEAN,
             saveAs : {<<>>, <<"research", "page">>, <<"src", "page">>}, maxBytes : {Unknown, 0, 5}, maxInline : {Unknown, 0, 3}]
SizeOf(exchange) == FoldLeft(LAMBDA a, b : a + b, 0, exchange.chunks)

\* What webfetch gives inline, attaches, stashes or saves is the whole body of a
\* good response that did not break off, never a part that passes for it (a
\* preview comes with the whole in the stash); what it saves is where the agent
\* may write; and a refusal because of the time is told from a broken network.
ASSUME FetchesAreWhole ==
  \A request \in Requests, exchange \in Exchanges :
    LET reply == Webfetch("researcher", request, exchange, MCLimits) IN
    /\ reply.ok /\ ~request.metadataOnly =>
         /\ exchange.fails = "none" /\ exchange.status = 200 /\ exchange.breaks = "none"
         /\ SizeOf(exchange) \in {reply.given.bytes, reply.written.bytes}
         /\ SizeOf(exchange) <= MCLimits.ceiling
         /\ reply.written.file = <<"research", "page">> <=> request.saveAs # <<>>
    /\ ~reply.ok /\ reply.code = "TIMEOUT" => "timeout" \in {exchange.fails, exchange.breaks}

\* A search answers with the first useful links, no more than it may, or says why
\* there is none.
ASSUME SearchesGiveTheFirstLinks ==
  \A anchors \in UNION {[1..n -> {"plain", "wrapped", "mail", "none"}] : n \in 0..3}, max \in -1..4, exchange \in Exchanges :
    LET reply == Websearch(max, exchange, anchors, MCLimits)
        useful == SelectSeq(anchors, IsUseful)
    IN reply.ok => /\ IsPrefix(reply.results, useful) /\ reply.results # <<>>
                    /\ Len(reply.results) = Least(Len(useful), IF max = Unknown THEN 2 ELSE Least(2, Most(1, max)))

-----------------------------------------------------------------------------
Se == INSTANCE Secrets

SomeText == <<"a", "b", "c", "d">>
Hits == {h \in [from : 0..3, to : 1..4, kind : {"key", "marker"}] : h.from < h.to}
CoveredBy(hits) == {i \in 1..4 : \E h \in hits : h.from < i /\ i <= h.to}

\* Whatever the rules find, in whatever overlaps, nothing of it is left and
\* everything else is, in its order; the spans reported are the marks put in, and
\* the matches need not be merged first.
ASSUME RedactionTakesOnlyHits ==
  \A hits \in UNION {kSubset(k, Hits) : k \in 0..3} :
    LET read == Se!RedactForRead(SomeText, hits)
        covered == CoveredBy(hits)
    IN /\ SelectSeq(read.text, LAMBDA c : c # Se!Redacted)
            = [k \in 1 .. 4 - Cardinality(covered) |-> SomeText[SetToSortSeq(1..4 \ covered, <)[k]]]
       /\ read.spans = Cardinality({i \in DOMAIN read.text : read.text[i] = Se!Redacted})
       /\ Se!Redact(SomeText, SetToSeq(hits)) = read

\* A record is refused exactly when a field has a hit, but a kind inside a wider
\* match of another is not named.
ASSUME RefusalsNameTheFields ==
  /\ \A body \in {{}} \cup {{h} : h \in Hits}, reason \in {{}} \cup {{h} : h \in Hits} :
       LET verdict == Se!AssertNoSecrets([body |-> body, reason |-> reason])
       IN IF body \cup reason = {} THEN ~verdict.refused
          ELSE verdict.refused /\ verdict.kinds = {h.kind : h \in body \cup reason}
  /\ Se!AssertNoSecrets([body |-> {[from |-> 0, to |-> 4, kind |-> "marker"], [from |-> 1, to |-> 2, kind |-> "key"]}]).kinds
       = {"marker"}

Part(sep, word) == {[sep |-> sep, word |-> word, plural |-> x] : x \in BOOLEAN}
Parts == UNION {Part(sep, word) : sep \in {"_", "-"}, word \in {"API", "KEY", "URL"}}
EnvNames == SeqOf(Parts, 3)
Lexemes == {<<"API", "KEY">>, <<"KEY">>}

\* More lexemes take more names for secrets and more suffixes fewer; no lexemes
\* take none; underscore and dash are the same to a lexeme but not to a suffix.
ASSUME NamesAreClassified ==
  \A name \in EnvNames : \A lexemes \in SUBSET Lexemes :
    LET dashed == [i \in DOMAIN name |-> [name[i] EXCEPT !.sep = "-"]]
    IN /\ Se!IsSecretEnvName(name, lexemes, {"URL"}) => Se!IsSecretEnvName(name, Lexemes, {})
       /\ lexemes = {} => ~Se!IsSecretEnvName(name, lexemes, {})
       /\ Se!IsSecretEnvName(name, lexemes, {}) = Se!IsSecretEnvName(dashed, lexemes, {"URL"})

-----------------------------------------------------------------------------
(* The names of tools. *)

BuiltIn == [name |-> "filesystem", external |-> FALSE, tools |-> <<<<"read">>, <<"write">>>>, connected |-> TRUE]
External(name, tools, connected) == [name |-> name, external |-> TRUE, tools |-> tools, connected |-> connected]
ToolNames == {<<"read">>, <<"find">>, <<"b", "find">>}
ServiceSets ==
  {<<BuiltIn, External("a", x, up), External("b", y, TRUE)>> : x, y \in SeqOf(ToolNames, 2), up \in BOOLEAN}

Entries(services) == Range(Ro!GetAllTools(services))

\* Whatever the external servers call their tools, every tool has a name of its
\* own, the built-in ones keep theirs, and a role can call by name just what it
\* was offered, while the server is connected.
ASSUME OfferedToolsCanBeCalled ==
  \A services \in ServiceSets, role \in {"planner", "coder", "reviewer"} :
    /\ Cardinality(Entries(services)) = FoldLeft(LAMBDA n, s : n + Len(s.tools), 0, services)
    /\ IsInjective([i \in DOMAIN Ro!GetAllTools(services) |-> Ro!GetAllTools(services)[i].name])
    /\ \A e \in Entries(services) :
         LET did == Ro!ExecuteLocalTool(role, e.name, 2, services)
         IN /\ did.invalid = 0
            /\ e.service = "filesystem" => e.name = e.tool
            /\ did.outcome = "not running" => \E s \in Range(services) : s.name = e.service /\ ~s.connected
            /\ did.outcome = "called" => /\ e.name \in Ro!ToolSchemas(role, services)
                                         /\ did.service = e.service /\ did.tool = e.tool
            /\ did.outcome = "unauthorized" => e.name \notin Ro!ToolSchemas(role, services)

\* A name is of the moment: when a server has been given up by the health checks
\* between the offer and the call, its tool's name may be another server's.
ASSUME NamesMoveToOtherServers ==
  \E services \in ServiceSets : \E name \in Ro!ToolSchemas("coder", services) :
    LET before == Ro!ExecuteLocalTool("coder", name, 0, services)
        after == Ro!ExecuteLocalTool("coder", name, 0, <<services[1], services[3]>>)
    IN before.outcome = "called" /\ after.outcome = "called" /\ before.service = "a" /\ after.service = "b"

\* An external server with the name of a built-in service never gets a call: its
\* tools are offered, and answered by the built-in service or not at all.
ASSUME NamesakesAreShadowed ==
  \A tools \in SeqOf(ToolNames, 2) :
    LET services == <<BuiltIn, External("filesystem", tools, TRUE)>>
    IN \A e \in Entries(services) :
         LET did == Ro!ExecuteLocalTool("coder", e.name, 0, services)
         IN IF e.tool \in Range(BuiltIn.tools) THEN did.outcome = "called" /\ ~did.external
            ELSE did.outcome = "unknown tool" /\ e.name \in Ro!ToolSchemas("coder", services)
=============================================================================
