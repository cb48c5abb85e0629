------------------------------- MODULE Chunking -------------------------------
(****************************************************************************)
(* How a file becomes the chunks that are embedded (src/src/rag/chunker).   *)
(*                                                                          *)
(* A text is a sequence of lines, a line a sequence of words.  The encoder  *)
(* is abstracted to what the chunkers add up: a word costs WordCost tokens, *)
(* spaces nothing, and a run of newlines between two lines one.  A chunk    *)
(* has its text, the lines it says it comes from (0 when it says nothing),  *)
(* and where it stands: a heading path, or a symbol and its kind.           *)
(****************************************************************************)
EXTENDS Integers, SequencesExt

\* What the encoder makes of a word; "wide" stands for one of several tokens.
WordCost(word) == IF word = "wide" THEN 3 ELSE 1

LineCost(line) == FoldLeft(LAMBDA sum, word : sum + WordCost(word), 0, line)
Filled(text) == SelectSeq(text, LAMBDA line : line # <<>>)
WordsOf(text) == FlattenSeq(text)
CountTokens(text) ==
  LineCost(WordsOf(text)) + IF Filled(text) = <<>> THEN 0 ELSE Len(Filled(text)) - 1

\* Greedy packing: x joins the open group unless that would exceed the cap.
NoGroups == [closed |-> <<>>, open |-> <<>>, cost |-> 0]
Close(groups) == IF groups.open = <<>> THEN groups.closed ELSE Append(groups.closed, groups.open)
Put(groups, x, cost, cap) ==
  IF groups.cost + cost > cap /\ groups.open # <<>>
  THEN [closed |-> Close(groups), open |-> <<x>>, cost |-> cost]
  ELSE [groups EXCEPT !.open = Append(@, x), !.cost = @ + cost]

\* Words and lines cost at least one token each; a line of a split is a piece.
HardSplit(text, cap) ==
  LET Add(groups, word) == Put(groups, word, WordCost(word), cap)
      lines == Close(FoldLeft(Add, NoGroups, WordsOf(text)))
  IN [i \in DOMAIN lines |-> <<lines[i]>>]

HardSplitByLines(text, cap) ==
  LET Add(groups, line) == Put(groups, line, IF line = <<>> THEN 1 ELSE LineCost(line), cap)
  IN Close(FoldLeft(Add, NoGroups, text))

---------------------------------------------------------------------------
(* Paragraphs. *)

JoinedBy(left, separator, right) == IF left = <<>> THEN right ELSE left \o separator \o right
JoinParagraphs(paragraphs) ==
  FoldLeft(LAMBDA text, paragraph : JoinedBy(text, << <<>> >>, paragraph), <<>>, paragraphs)

\* text.split(/\n{2,}/), trimmed: the maximal runs of lines with words.
SplitParagraphs(text) ==
  LET Add(acc, line) ==
        IF line = <<>> THEN [closed |-> Close(acc), open |-> <<>>] ELSE [acc EXCEPT !.open = Append(@, line)]
  IN Close(FoldLeft(Add, [closed |-> <<>>, open |-> <<>>], text))

\* Paragraphs are packed up to the cap by their own counts, the separators
\* between them not counted; one that exceeds it alone is split by force.
PackParagraphs(paragraphs, cap, byLines) ==
  LET Pieces(paragraph) == IF byLines THEN HardSplitByLines(paragraph, cap) ELSE HardSplit(paragraph, cap)
      Flush(acc) == IF acc.open = <<>> THEN acc.closed ELSE Append(acc.closed, JoinParagraphs(acc.open))
      Add(acc, paragraph) ==
        LET cost == CountTokens(paragraph)
        IN IF cost > cap THEN [closed |-> Flush(acc) \o Pieces(paragraph), open |-> <<>>, cost |-> 0]
           ELSE IF acc.cost + cost > cap /\ acc.open # <<>>
           THEN [closed |-> Flush(acc), open |-> <<paragraph>>, cost |-> cost]
           ELSE [acc EXCEPT !.open = Append(@, paragraph), !.cost = @ + cost]
  IN Flush(FoldLeft(Add, NoGroups, paragraphs))

BlankLineSplit(text, cap) == PackParagraphs(SplitParagraphs(text), cap, TRUE)

---------------------------------------------------------------------------
(* Markdown. *)

\* The longest run of words at the end of a piece that fits the overlap.
TailOf(words, overlap) ==
  LET fits == {n \in 0..Len(words) : LineCost(SubSeq(words, Len(words) - n + 1, Len(words))) <= overlap}
      n == CHOOSE k \in fits : \A j \in fits : j <= k
  IN SubSeq(words, Len(words) - n + 1, Len(words))

\* Each piece but the first is headed by the tail of the one before it: on
\* top of a piece that may have filled the cap already.
JoinWithOverlap(pieces, overlap) ==
  [i \in DOMAIN pieces |->
     LET tail == IF i = 1 THEN <<>> ELSE TailOf(WordsOf(pieces[i - 1]), overlap)
     IN IF tail = <<>> THEN pieces[i] ELSE <<tail>> \o pieces[i]]

SplitOversize(text, cap, overlap) ==
  LET paragraphs == SplitParagraphs(text)
  IN IF CountTokens(text) <= cap THEN <<text>>
     ELSE IF Len(paragraphs) > 1 THEN JoinWithOverlap(PackParagraphs(paragraphs, cap, FALSE), overlap)
     ELSE JoinWithOverlap(HardSplit(text, cap), overlap)

\* An ATX heading: one to six hashes and a title.
Level(line) == IF Len(line) < 2 THEN 0 ELSE CASE line[1] = "#" -> 1 [] line[1] = "##" -> 2 [] OTHER -> 0
Title(line) == Tail(line)

\* path.slice(0, level - 1), then path[level - 1] = title: skipped levels stay
\* holes.
PathAt(path, line) ==
  [i \in 1..Level(line) |-> IF i = Level(line) THEN Title(line) ELSE IF i \in DOMAIN path THEN path[i] ELSE <<>>]

TrimText(text) ==
  LET filled == {i \in DOMAIN text : text[i] # <<>>}
  IN IF filled = {} THEN <<>>
     ELSE SubSeq(text, CHOOSE i \in filled : \A j \in filled : i <= j, CHOOSE i \in filled : \A j \in filled : j <= i)

\* Sections run from one heading to the next; one without text is dropped.
SplitSections(text) ==
  LET starts == {1} \cup {i \in DOMAIN text : Level(text[i]) > 0}
      at == SetToSortSeq(starts \cap DOMAIN text, <)
      paths == [k \in DOMAIN at |->
                  FoldLeft(LAMBDA path, i : IF Level(text[i]) > 0 THEN PathAt(path, text[i]) ELSE path,
                           <<>>, SubSeq(at, 1, k))]
      section(k) == LET last == IF k = Len(at) THEN Len(text) ELSE at[k + 1] - 1
                    IN [path |-> paths[k], first |-> at[k], last |-> last,
                        text |-> TrimText(SubSeq(text, at[k], last))]
  IN SelectSeq([k \in DOMAIN at |-> section(k)], LAMBDA s : s.text # <<>>)

\* Neighbours under one heading path are merged up to half the cap.
MergeSections(sections, cap) ==
  LET half == IF cap \div 2 > 1 THEN cap \div 2 ELSE 1
      Add(merged, s) ==
        IF merged # <<>> /\ Last(merged).path = s.path /\ CountTokens(Last(merged).text) + CountTokens(s.text) <= half
        THEN Append(Front(merged), [Last(merged) EXCEPT !.text = @ \o << <<>> >> \o s.text, !.last = s.last])
        ELSE Append(merged, s)
  IN FoldLeft(Add, <<>>, sections)

ChunkMarkdown(text, cap, overlap) ==
  IF cap <= 0 THEN <<>>
  ELSE LET sections == MergeSections(SplitSections(text), cap)
           chunks(s) == LET pieces == SplitOversize(s.text, cap, overlap)
                        IN [i \in DOMAIN pieces |-> [text |-> pieces[i], path |-> s.path, first |-> s.first, last |-> s.last]]
       IN FlattenSeq([k \in DOMAIN sections |-> chunks(sections[k])])

\* A short note is one chunk; a longer one is split as markdown.
ChunkMemory(text, threshold, cap, overlap) ==
  LET note == TrimText(text)
  IN IF cap <= 0 \/ note = <<>> THEN <<>>
     ELSE IF CountTokens(note) <= threshold /\ CountTokens(note) <= cap
     THEN << [text |-> note, path |-> <<>>, first |-> 0, last |-> 0] >>
     ELSE ChunkMarkdown(text, cap, overlap)

---------------------------------------------------------------------------
(* Code. *)

\* The syntax tree gives the top-level symbols in order, each with its lines.
KindLabel(type) ==
  CASE type = "class_declaration" -> "class" [] type = "interface_declaration" -> "interface"
    [] type = "type_alias_declaration" -> "type" [] type = "enum_declaration" -> "enum"
    [] type = "method_definition" -> "method"
    [] type \in {"function_declaration", "lexical_declaration"} -> "function" [] OTHER -> type

CodeChunk(text, first, last, name, kind, fragment) ==
  [text |-> text, first |-> first, last |-> last, name |-> name, kind |-> kind, fragment |-> fragment]

\* The text between two symbols.  Its pieces count their lines from the end of
\* the symbol before, one line for each piece.
Prelude(text, after, before, cap) ==
  LET pieces == BlankLineSplit(TrimText(SubSeq(text, after + 1, before - 1)), cap)
      start == IF after = 0 THEN 1 ELSE after
  IN [i \in DOMAIN pieces |-> CodeChunk(pieces[i], start, start + i - 1, "", "module", FALSE)]

SymbolChunks(text, symbol, cap) ==
  LET body == SubSeq(text, symbol.first, symbol.last)
      fits == CountTokens(body) <= cap
      pieces == IF fits THEN <<body>> ELSE BlankLineSplit(body, cap)
  IN [i \in DOMAIN pieces |-> CodeChunk(pieces[i], symbol.first, symbol.last, symbol.name, KindLabel(symbol.type), ~fits)]

\* Without a grammar the file is split at blank lines and says nothing of lines.
ChunkCode(text, parsed, symbols, cap) ==
  LET end(k) == IF k = 0 THEN 0 ELSE symbols[k].last
      plain == BlankLineSplit(text, cap)
  IN IF cap <= 0 THEN <<>>
     ELSE IF ~parsed THEN [i \in DOMAIN plain |-> CodeChunk(plain[i], 0, 0, "", "", FALSE)]
     ELSE FlattenSeq([k \in 1..Len(symbols) |->
                        Prelude(text, end(k - 1), symbols[k].first, cap) \o SymbolChunks(text, symbols[k], cap)])
          \o Prelude(text, end(Len(symbols)), Len(text) + 1, cap)
===============================================================================
