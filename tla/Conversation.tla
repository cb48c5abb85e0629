----------------------------- MODULE Conversation -----------------------------
(***************************************************************************)
(* An agent's message list and what a failed summary keeps of it            *)
(* (src/src/agents/conversation-state.ts, src/src/runtime/compaction.ts).   *)
(* A message is what the rules look at: its kind, the model call it belongs *)
(* to (all tool ids of one response are told apart by that alone), the      *)
(* user notes it carries and its size in tokens.                            *)
(***************************************************************************)
EXTENDS Naturals, Sequences, SequencesExt

CONSTANTS
  Note,       \* ids of user notes
  Threshold,  \* the tokens that make the agent compact
  Margin,     \* SAFETY_MARGIN_TOKENS
  Big         \* the tokens of a large tool result

ASSUME MarginAssumption == Threshold \in Nat /\ Margin \in 0 .. Threshold /\ Big \in Nat \ {0}

Message(kind, round, notes, tokens) ==
  [kind |-> kind, round |-> round, notes |-> notes, tokens |-> tokens]

\* A prompt or an answer in plain text.
Text == Message("text", 0, {}, 1)
NoteMessage(notes) == Message("text", 0, notes, 1)
ToolCall(round) == Message("call", round, {}, 1)
ToolResult(round, tokens) == Message("result", round, {}, tokens)

Tokens(ms) == FoldSeq(LAMBDA m, sum : m.tokens + sum, 0, ms)

\* shouldCompact.
TooLong(ms) == Tokens(ms) > Threshold

\* parseRounds: a call and the results of all its tools right after it are
\* one round, half of such a pair is dangling, the rest is text.
Answered(ms, i) ==
  /\ i \in 1 .. Len(ms) - 1
  /\ ms[i].kind = "call" /\ ms[i + 1].kind = "result" /\ ms[i].round = ms[i + 1].round

Dangling(ms, i) ==
  \/ ms[i].kind = "call" /\ ~Answered(ms, i)
  \/ ms[i].kind = "result" /\ ~Answered(ms, i - 1)

WellFormed(ms) == \A i \in DOMAIN ms : ~Dangling(ms, i)

\* Mutation: the halves of broken rounds are kept.
AtomicAll(ms) == ms

\* What is left of a conversation: the i-th message is the k-th one kept.
Atomic(ms) ==
  LET whole == {i \in DOMAIN ms : ~Dangling(ms, i)}
      Rank(i) == Cardinality({j \in whole : j <= i})
  IN  [k \in 1 .. Cardinality(whole) |-> ms[CHOOSE i \in whole : Rank(i) = k]]

From(ms, i) == SubSeq(ms, i, Len(ms))

\* selectKeptRounds: the newest whole rounds that fit, or one that does not.
Kept(ms) ==
  LET atomic == Atomic(ms)
      starts == {i \in DOMAIN atomic : atomic[i].kind # "result"}
      fits == {i \in starts : Tokens(From(atomic, i)) <= Threshold - Margin}
  IN  CASE starts = {} -> [rounds |-> <<>>, oversized |-> FALSE]
        [] starts # {} /\ fits = {} -> [rounds |-> From(atomic, Max(starts)), oversized |-> TRUE]
        [] OTHER -> [rounds |-> From(atomic, Min(fits)), oversized |-> FALSE]

Carried(ms) == UNION {ms[i].notes : i \in DOMAIN ms}
=============================================================================
