-------------------------------- MODULE Secrets --------------------------------
(****************************************************************************)
(* What src/src/security/secrets.ts makes of the places its rules find in a *)
(* text, and which names of environment variables it takes for secrets.     *)
(*                                                                          *)
(* A text is a sequence.  What a rule finds is data: a hit is the offsets   *)
(* [from, to) of a match and its kind.  The name of a variable is a         *)
(* sequence of words, each with the separator before it and whether it ends *)
(* in an S more than the word.                                              *)
(****************************************************************************)
EXTENDS Integers, SequencesExt

Redacted == "[REDACTED]"
MaxOf(a, b) == IF a >= b THEN a ELSE b

\* scanForSecrets: in the order of the text, overlapping hits made one, which
\* keeps the kind of the first.
MergeHits(hits) ==
  LET Before(a, b) == a.from < b.from \/ (a.from = b.from /\ a.to > b.to)
      Merge(merged, hit) ==
        IF merged # <<>> /\ hit.from < Last(merged).to
        THEN [merged EXCEPT ![Len(merged)].to = MaxOf(@, hit.to)]
        ELSE Append(merged, hit)
  IN FoldLeft(Merge, <<>>, SetToSortSeq(hits, Before))

\* redact
Redact(text, matches) ==
  LET Replace(acc, match) ==
        IF match.from < acc.cursor THEN [acc EXCEPT !.cursor = MaxOf(@, match.to)]
        ELSE [out |-> acc.out \o SubSeq(text, acc.cursor + 1, match.from) \o <<Redacted>>,
              cursor |-> match.to, spans |-> acc.spans + 1]
      end == FoldLeft(Replace, [out |-> <<>>, cursor |-> 0, spans |-> 0], SortSeq(matches, LAMBDA a, b : a.from < b.from))
  IN [text |-> end.out \o SubSeq(text, end.cursor + 1, Len(text)), spans |-> end.spans]

\* detectSecrets, assertNoSecrets: a record is refused for what any of its
\* fields holds, and says which fields and kinds.
AssertNoSecrets(hitsOf) ==
  LET bad == {field \in DOMAIN hitsOf : hitsOf[field] # {}}
  IN IF bad = {} THEN [refused |-> FALSE]
     ELSE [refused |-> TRUE, fields |-> bad,
           kinds |-> UNION {{match.kind : match \in Range(MergeHits(hitsOf[field]))} : field \in bad}]

\* redactForRead
RedactForRead(text, hits) == Redact(text, MergeHits(hits))

---------------------------------------------------------------------------
(* createSecretEnvNamePredicate.  A lexeme is a sequence of words; the       *)
(* separators of a name do not matter to it, and its last word may be plural. *)

HasLexeme(name, lexeme) ==
  \E i \in 0 .. Len(name) - Len(lexeme) :
    \A k \in DOMAIN lexeme : /\ name[i + k].word = lexeme[k]
                             /\ name[i + k].plural => k = Len(lexeme)

\* A suffix is an underscore and a word.
EndsIn(name, suffix) == Last(name) = [sep |-> "_", word |-> suffix, plural |-> FALSE]

IsSecretEnvName(name, lexemes, suffixes) ==
  /\ name # <<>>
  /\ \E lexeme \in lexemes : HasLexeme(name, lexeme)
  /\ \A suffix \in suffixes : ~EndsIn(name, suffix)
================================================================================
