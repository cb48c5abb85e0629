--------------------------------- MODULE Wire ---------------------------------
(***************************************************************************)
(* What the provider clients make of a conversation, of an answer and of an *)
(* error (src/src/providers/openai.ts, copilot.ts, pi-ai.ts, error.ts).     *)
(* A message is a role and its blocks; a block is its type and what tells   *)
(* it from others: the tool call it makes or answers.  A request on a wire  *)
(* is a sequence of items.  Wording, schemas, usage counts and the is_error *)
(* flag are left out.                                                       *)
(***************************************************************************)
EXTENDS Integers, Sequences, SequencesExt

Block(type, id) == [type |-> type, id |-> id]
Item(from, blocks) == [from |-> from, blocks |-> blocks]
Pick(blocks, types) == SelectSeq(blocks, LAMBDA b : b.type \in types)
Each(ms, Convert(_)) == FlattenSeq([i \in DOMAIN ms |-> Convert(ms[i])])

-----------------------------------------------------------------------------
(* Requests *)

\* The blocks runLoop makes of a response with two tools and of their results,
\* one of them a picture.
Blocks(ms) ==
  LET Tools(type, r) == <<Block(type, <<r, 1>>), Block(type, <<r, 2>>)>>
      Of(i) == CASE ms[i].kind = "text" -> <<[role |-> "user", blocks |-> <<Block("text", <<0, i>>)>>]>>
                 [] ms[i].kind = "call" ->
                      <<[role |-> "assistant",
                         blocks |-> <<Block("thinking", <<0, i>>), Block("text", <<0, i>>)>>
                                    \o Tools("tool_use", ms[i].round)]>>
                 [] ms[i].kind = "result" ->
                      <<[role |-> "user", blocks |-> Tools("tool_result", ms[i].round)],
                        [role |-> "user", blocks |-> <<Block("image", <<0, i>>)>>]>>
  IN  FlattenSeq([i \in DOMAIN ms |-> Of(i)])

\* What a user says between two tool results is one item.
UserItems(blocks) ==
  LET Add(items, b) ==
        CASE b.type = "tool_result" -> Append(items, Item("tool", <<b>>))
          [] b.type \in {"text", "image"} /\ items # <<>> /\ Last(items).from = "user" ->
               [items EXCEPT ![Len(items)].blocks = Append(@, b)]
          [] b.type \in {"text", "image"} /\ (items = <<>> \/ Last(items).from # "user") ->
               Append(items, Item("user", <<b>>))
          [] OTHER -> items
  IN  FoldLeft(Add, <<>>, blocks)

AssistantItem(m) == <<Item("assistant", Pick(m.blocks, {"text", "tool_use"}))>>

\* openai.ts, which the local providers share.
OpenAIMessages(ms) ==
  Each(ms, LAMBDA m : IF m.role = "assistant" THEN AssistantItem(m) ELSE UserItems(m.blocks))

\* Copilot's completions have an item per block; an image is an empty text.
CopilotMessages(ms) ==
  LET User(m) == [i \in DOMAIN m.blocks |->
                    IF m.blocks[i].type = "tool_result" THEN Item("tool", <<m.blocks[i]>>)
                    ELSE Item("user", Pick(<<m.blocks[i]>>, {"text"}))]
  IN  Each(ms, LAMBDA m : IF m.role = "assistant" THEN AssistantItem(m) ELSE User(m))

\* The responses wire: calls and outputs are items, the texts of a message
\* come as one after them.
ResponsesInput(ms) ==
  LET Items(m) ==
        LET tools == Pick(m.blocks, {"tool_use", "tool_result"})
            texts == Pick(m.blocks, {"text"})
        IN  [i \in DOMAIN tools |->
               Item(IF tools[i].type = "tool_use" THEN "call" ELSE "output", <<tools[i]>>)]
            \o (IF texts = <<>> THEN <<>> ELSE <<Item(m.role, texts)>>)
  IN  Each(ms, Items)

\* The messages of Claude models: what is no tool block is a text.
AnthropicMessages(ms) ==
  [i \in DOMAIN ms |->
     Item(ms[i].role, [k \in DOMAIN ms[i].blocks |->
       IF ms[i].blocks[k].type \in {"tool_use", "tool_result"} THEN ms[i].blocks[k]
       ELSE [ms[i].blocks[k] EXCEPT !.type = "text"]])]

\* pi-ai: images are dropped, thinking is kept.
PiContext(ms) ==
  LET Of(b) == CASE b.type = "tool_result" -> <<Item("tool", <<b>>)>>
                 [] b.type = "text" -> <<Item("user", <<b>>)>>
                 [] OTHER -> <<>>
  IN  Each(ms, LAMBDA m : IF m.role = "user" THEN Each(m.blocks, Of)
                          ELSE <<Item("assistant", Pick(m.blocks, {"text", "thinking", "tool_use"}))>>)

\* An API refuses a request in which a call has no result, or something but
\* items of the same turn stands between the two, or a result has no call.
Ids(item, type) == {b.id : b \in ToSet(Pick(item.blocks, {type}))}

Accepts(items, between) ==
  /\ \A i \in DOMAIN items : \A id \in Ids(items[i], "tool_use") :
       \E j \in i + 1 .. Len(items) :
         /\ id \in Ids(items[j], "tool_result")
         /\ \A k \in i + 1 .. j - 1 : items[k].from \in between
  /\ \A j \in DOMAIN items : \A id \in Ids(items[j], "tool_result") :
       \E i \in 1 .. j - 1 : id \in Ids(items[i], "tool_use")

Says(items) == UNION {ToSet(Pick(items[i].blocks, {"text", "tool_use", "tool_result"})) : i \in DOMAIN items}

\* Every client sends a request its API accepts and that has every text, call
\* and result of the conversation.
AcceptedEverywhere(ms) ==
  LET wires == {OpenAIMessages(ms), CopilotMessages(ms), AnthropicMessages(ms), PiContext(ms)}
      said == UNION {ToSet(Pick(ms[i].blocks, {"text", "tool_use", "tool_result"})) : i \in DOMAIN ms}
  IN  /\ \A items \in wires : Accepts(items, {"tool"}) /\ said \subseteq Says(items)
      /\ Accepts(ResponsesInput(ms), {"call", "output", "assistant"})
      /\ said \subseteq Says(ResponsesInput(ms))

-----------------------------------------------------------------------------
(* Answers: a call whose arguments were cut off is not whole. *)

Whole(raw) == SelectSeq(raw.calls, LAMBDA c : c.whole)
Cut(raw) == Whole(raw) # raw.calls

\* Copilot drops a broken call and says so in the reason.
CopilotAnswer(raw) ==
  LET told == raw.stop = "tools" /\ Whole(raw) # <<>>
  IN  [calls |-> Whole(raw),
       finish |-> CASE told -> "tool_use"
                    [] ~told /\ (raw.stop = "length" \/ Cut(raw)) -> "max_tokens"
                    [] OTHER -> "end_turn"]

ResponsesAnswer(raw) ==
  [calls |-> Whole(raw),
   finish |-> CASE Whole(raw) # <<>> -> "tool_use"
                [] Whole(raw) = <<>> /\ (raw.stop = "length" \/ Cut(raw)) -> "max_tokens"
                [] OTHER -> "end_turn"]

\* openai.ts parses the arguments as they are: a broken call is an exception,
\* and the caller takes that for an error of the model.
Reasons == [tools |-> "tool_use", length |-> "max_tokens", stop |-> "end_turn"]
OpenAIAnswers(raw) == IF Cut(raw) THEN {} ELSE {[calls |-> raw.calls, finish |-> Reasons[raw.stop]]}

\* The libraries behind these two have parsed the arguments.
PiAnswer(raw) == [calls |-> raw.calls, finish |-> Reasons[raw.stop]]
AnthropicAnswer(raw) ==
  [calls |-> raw.calls, finish |-> IF raw.stop = "tools" THEN "tool_use" ELSE "end_turn"]

\* No client that parses the arguments hands over a broken call, and one that
\* hands over none of several says that the answer was cut; an answer that
\* tells of tools has one, unless the model itself told of tools and called
\* none.
AnswerIsWhole(raw) ==
  LET parsed == {CopilotAnswer(raw), ResponsesAnswer(raw)} \cup OpenAIAnswers(raw)
  IN  /\ \A answer \in parsed :
           /\ \A i \in DOMAIN answer.calls : answer.calls[i].whole
           /\ answer.calls = <<>> /\ raw.calls # <<>> => answer.finish = "max_tokens"
      /\ \A answer \in parsed \cup {PiAnswer(raw), AnthropicAnswer(raw)} :
           answer.finish = "tool_use" => answer.calls # <<>> \/ raw.calls = <<>>

-----------------------------------------------------------------------------
(* Errors: what their text says, the type the API gives, the HTTP status, the *)
(* status in the text of a Codex error; NoStatus where there is none.          *)

NoStatus == 0

StatusBasedKind(status, text) ==
  CASE status = 413 -> "context_overflow"
    [] status = 429 -> "throttling"
    [] status \in 400 .. 499 \ {408, 413, 429} ->
         IF text = "context" THEN "context_overflow" ELSE "non_retryable"
    [] OTHER -> "transient"

\* classifyApiErrorType
KindOfType ==
  [context_length_exceeded |-> "context_overflow", tokens |-> "context_overflow",
   invalid_request_error |-> "non_retryable", authentication_error |-> "non_retryable",
   permission_error |-> "non_retryable", not_found_error |-> "non_retryable",
   content_filter |-> "non_retryable",
   rate_limit_error |-> "throttling", overloaded_error |-> "throttling"]

ClassifyProviderError(err) ==
  CASE err.text = "context" -> "context_overflow"
    [] err.text = "orphan" -> "orphaned_tool_result"
    [] err.text \notin {"context", "orphan"} /\ err.type \in DOMAIN KindOfType -> KindOfType[err.type]
    [] err.text \notin {"context", "orphan"} /\ err.type \notin DOMAIN KindOfType ->
         StatusBasedKind(IF err.codex # NoStatus THEN err.codex ELSE err.status, err.text)

\* pi-ai reports a failed call by its text alone.
ThroughPi(err) == [err EXCEPT !.type = "none", !.status = NoStatus]

\* The caller gives up the whole chain of models for these.
GivesUp(kind) == kind \in {"non_retryable", "context_overflow"}

\* An error that may pass is never one that ends the call, whichever client
\* met it; and a conversation that is too long is always known as such.
KindIsSafe(err) ==
  LET kind == ClassifyProviderError(err)
      pi == ClassifyProviderError(ThroughPi(err))
  IN  /\ err.text = "context" => kind = "context_overflow" /\ pi = "context_overflow"
      /\ GivesUp(pi) /\ err.codex = NoStatus => GivesUp(kind)
      /\ err.text = "none" /\ err.type = "none" /\ err.codex = NoStatus
           /\ err.status \notin 400 .. 499 => ~GivesUp(kind)
=============================================================================
