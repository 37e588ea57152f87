------------------------------- MODULE Codecs -------------------------------
(***************************************************************************)
(* What lellm-provider makes of a request and of an answer: the checks before *)
(* a request is sent (validate_request), its encoding for each API             *)
(* (ChatCodec::encode), the decoding of an answer that comes whole             *)
(* (ChatCodec::decode), the errors of a call (CodecProvider::call and stream)   *)
(* and which of them are tried again.  These are functions of their            *)
(* arguments: AgentLoop sends its histories through them, SseStream the        *)
(* answers it has put together.                                               *)
(*                                                                         *)
(* A text, an identifier and a name are marks, "" if empty; joined texts are  *)
(* the sequence of those that are not empty; arguments are a JSON value, known  *)
(* by the text it is read from, or a text.  An option that is set is in the   *)
(* domain of options.                                                         *)
(***************************************************************************)
EXTENDS Naturals, Sequences, FiniteSets, SequencesExt

\* Providers by their id.  All but two speak the protocol of OpenAI.
Vendor == {"openai", "nvidia", "deepseek", "vllm", "llama", "sglang", "ollama", "mimo", "zhipu",
           "dashscope", "anthropic", "google"}
Codec(v) == IF v \in {"anthropic", "google"} THEN v ELSE "openai"

-----------------------------------------------------------------------------
(* Content blocks and messages.                                             *)

\* The elements of s at the positions in S, in the order they have there: SelectSeq with the
\* positions named, which the proofs speak of.
Position(S, k) == CHOOSE i \in S : Cardinality({j \in S : j <= i}) = k
Only(s, S) == [k \in 1 .. Cardinality(S) |-> s[Position(S, k)]]

Block(kind) == [kind |-> kind, text |-> "", cached |-> FALSE, id |-> "", name |-> "", args |-> << >>]
Text(t) == [Block("text") EXCEPT !.text = t]
CachedText(t) == [Text(t) EXCEPT !.cached = TRUE]
Thinking(t) == [Block("thinking") EXCEPT !.text = t]
Image == Block("image")
ToolCall(id, name, args) == [Block("call") EXCEPT !.id = id, !.name = name, !.args = args]

Message(role, content) == [role |-> role, content |-> content, id |-> "", is_error |-> FALSE]
SystemText(t) == Message("system", <<Text(t)>>)
UserText(t) == Message("user", <<Text(t)>>)
Assistant(content) == Message("assistant", content)

\* Message::tool_result: the id is the call's, whatever the result.
ToolResult(call, ok, t) ==
    [Message("result", <<Text(t)>>) EXCEPT !.id = call.id, !.is_error = ~ok]

IsCall(b) == b.kind = "call"
CallsIn(content) == Only(content, {i \in DOMAIN content : IsCall(content[i])})
Has(content, kind) == \E i \in DOMAIN content : content[i].kind = kind

\* ContentBlock::flatten_text
FlattenText(content) ==
    LET texts == SelectSeq(content, LAMBDA b : b.kind = "text" /\ b.text # "")
    IN [i \in DOMAIN texts |-> texts[i].text]

\* The message LLMNode makes of a stream: the calls, then the thinking and the text that came.
Answered(calls, thought, said) ==
    Assistant(calls \o (IF thought = "" THEN << >> ELSE <<Thinking(thought)>>)
                    \o (IF said = "" THEN << >> ELSE <<CachedText(said)>>))

\* Message::validate
Valid(m) ==
    CASE m.role = "result"    -> m.id # "" /\ ~Has(m.content, "call") /\ ~Has(m.content, "thinking")
      [] m.role = "assistant" -> \A i \in DOMAIN CallsIn(m.content) : CallsIn(m.content)[i].id # ""
      [] m.role = "user"      -> ~Has(m.content, "thinking")
      [] OTHER                -> TRUE

-----------------------------------------------------------------------------
(* Errors of a call.                                                        *)

Error(kind) == [kind |-> kind, status |-> {}]
ProviderError(status) == [kind |-> "Provider", status |-> {status}]

\* The statuses a server answers with that are told apart, and some that are not.
Status == {200, 304, 400, 401, 429, 500, 503}

\* CodecProvider::stream, before there is a stream: the request is refused, or cannot be sent, or
\* is answered by an error, or nothing comes in time, or nothing at all.
OpenErrors ==
    {Error(k) : k \in {"Parse", "UnsupportedFeature", "InvalidRequest", "Network", "Timeout",
                       "UnexpectedEof"}}
    \cup {ProviderError(s) : s \in {t \in Status : t >= 400}}

\* CodecProvider::call, the same but for statuses, all but 2xx being errors, and for an answer that
\* does not end early and cannot be decoded.
CallErrors ==
    (OpenErrors \ {Error("UnexpectedEof")})
    \cup {ProviderError(s) : s \in {t \in Status : t \notin 200 .. 299}}

\* DefaultFallback::is_retriable
IsRetriable(e) ==
    \/ e.kind \in {"Timeout", "Network"}
    \/ e.kind = "Provider" /\ \E s \in e.status : s >= 500 \/ s = 429

-----------------------------------------------------------------------------
(* What a model can do, guessed from its name: thinks if the name is one of   *)
(* those the codec takes for reasoning, listed if it contains gemini, claude-3  *)
(* or claude-4.                                                              *)

Can(reasoning, tool_call) ==
    [image |-> FALSE, reasoning |-> reasoning, tool_call |-> tool_call]
OpenAICan(model) == Can(model.thinks, TRUE)
AnthropicCan(model) == Can(model.thinks, model.listed)
GoogleCan(model) == Can(FALSE, model.listed)

Capabilities(v, model) == CASE Codec(v) = "anthropic" -> AnthropicCan(model)
                            [] Codec(v) = "google"    -> GoogleCan(model)
                            [] OTHER                  -> OpenAICan(model)

Option(req, o, default) == IF o \in DOMAIN req.options THEN req.options[o] ELSE default

\* validate_capabilities, in the order of its checks.
Unsupported(req, caps) ==
    \/ ~caps.image /\ \E i \in DOMAIN req.messages : Has(req.messages[i].content, "image")
    \/ ~caps.reasoning /\ Option(req, "reasoning", "disabled") # "disabled"
    \/ req.tools # << >> /\ ~caps.tool_call

\* validate_request and the refusals of encode: what a request is refused with before it is sent.
Refusals(v, req) ==
    IF \E i \in DOMAIN req.messages : ~Valid(req.messages[i]) THEN {Error("Parse")}
    ELSE IF Unsupported(req, Capabilities(v, req.model)) THEN {Error("UnsupportedFeature")}
    ELSE IF v = "anthropic" /\ "max_tokens" \notin DOMAIN req.options THEN {Error("InvalidRequest")}
    ELSE {}

-----------------------------------------------------------------------------
(* Encoding.  A turn of the body: who speaks, the texts, whether thinking is  *)
(* sent, the calls, and what it answers.                                     *)

Turn(role) == [role |-> role, texts |-> << >>, thinking |-> FALSE, calls |-> << >>, answers |-> << >>]
To(m, tell_error) == <<[to |-> m.id, texts |-> FlattenText(m.content),
                        is_error |-> tell_error /\ m.is_error]>>

\* mutant of OpenAIMessage: a message has a content or calls, never both.
OpenAIEither(m) ==
    IF m.role = "result" THEN [Turn("tool") EXCEPT !.answers = To(m, FALSE)]
    ELSE [Turn(m.role) EXCEPT
            !.texts = FlattenText(m.content),
            !.calls = IF m.role = "assistant" /\ FlattenText(m.content) = << >>
                      THEN CallsIn(m.content) ELSE << >>]

\* serialize_openai_message: system messages are turns, thinking is left out.
OpenAIMessage(m) ==
    IF m.role = "result" THEN [Turn("tool") EXCEPT !.answers = To(m, FALSE)]
    ELSE [Turn(m.role) EXCEPT
            !.texts = FlattenText(m.content),
            !.calls = IF m.role = "assistant" THEN CallsIn(m.content) ELSE << >>]

OpenAITurns(ms) == [i \in DOMAIN ms |-> OpenAIMessage(ms[i])]

\* AnthropicCodec: no system messages, the user gives the results.
AnthropicMessage(m) ==
    IF m.role = "result" THEN [Turn("user") EXCEPT !.answers = To(m, TRUE)]
    ELSE [Turn(m.role) EXCEPT !.texts = FlattenText(m.content),
                              !.thinking = Has(m.content, "thinking"),
                              !.calls = CallsIn(m.content)]

AnthropicTurns(ms) ==
    LET sent == Only(ms, {i \in DOMAIN ms : ms[i].role # "system"})
    IN [i \in DOMAIN sent |-> AnthropicMessage(sent[i])]

\* GoogleCodec: a message none of whose blocks becomes a part is left out; calls lose their ids and
\* results are named by the id they answer.
GoogleParts(content) ==
    LET part(b) == IF IsCall(b) THEN [b EXCEPT !.id = ""] ELSE b
        told == Only(content, {i \in DOMAIN content : content[i].kind \in {"text", "call"}})
    IN [i \in DOMAIN told |-> part(told[i])]

GoogleMessage(m) ==
    IF m.role = "result" THEN [Turn("function") EXCEPT !.answers = To(m, FALSE)]
    ELSE [Turn(IF m.role = "assistant" THEN "model" ELSE "user") EXCEPT
            !.texts = FlattenText(GoogleParts(m.content)),
            !.calls = CallsIn(GoogleParts(m.content))]

GoogleTurns(ms) ==
    LET told(m) == m.role = "result" \/ (m.role # "system" /\ GoogleParts(m.content) # << >>)
        sent == Only(ms, {i \in DOMAIN ms : told(ms[i])})
    IN [i \in DOMAIN sent |-> GoogleMessage(sent[i])]

Turns(v, ms) == CASE Codec(v) = "anthropic" -> AnthropicTurns(ms)
                  [] Codec(v) = "google"    -> GoogleTurns(ms)
                  [] OTHER                  -> OpenAITurns(ms)

\* The field for the system prompt: of several system messages the last one stays, for Google the
\* last one with a text.
SystemField(v, ms) ==
    LET systems == SelectSeq(ms, LAMBDA m : m.role = "system")
        told == SelectSeq(systems, LAMBDA m : FlattenText(m.content) # << >>)
        last(s) == IF s = << >> THEN << >> ELSE FlattenText(s[Len(s)].content)
    IN CASE Codec(v) = "anthropic" -> last(systems)
         [] Codec(v) = "google"    -> last(told)
         [] OTHER                  -> << >>

\* The thinking of Anthropic has a budget, by default one that goes with the level.
Level(req) == Option(req, "reasoning", "unset")
IsOn(level) == level \notin {"unset", "disabled"}
ThinkingBudget(req) ==
    Option(req, "max_reasoning_tokens",
           CASE Level(req) = "low" -> 2048 [] Level(req) = "medium" -> 8192 [] OTHER -> 32768)

\* serialize_reasoning_fields and serialize_max_reasoning_tokens
ReasoningFields(v, req) ==
    LET level == Level(req)
        on == IsOn(level)
    IN CASE v = "anthropic" -> IF on THEN {<<"thinking", ThinkingBudget(req)>>} ELSE {}
         [] v = "google"    -> {}
         [] v = "mimo"      -> IF on THEN {<<"thinking", "enabled">>} ELSE {}
         [] v = "llama"     -> IF level = "disabled" THEN {<<"reasoning", "off">>} ELSE {}
         [] OTHER ->
                (IF on THEN {<<"reasoning_effort", level>>}
                 ELSE IF v = "deepseek" /\ level = "disabled" THEN {<<"enable_thinking", FALSE>>}
                 ELSE {})
                \cup (IF v = "deepseek" /\ "max_reasoning_tokens" \in DOMAIN req.options
                      THEN {<<"max_thinking_tokens", req.options["max_reasoning_tokens"]>>} ELSE {})

\* The other options a body carries: no codec encodes prefill, Anthropic has no seed.
Carried(v) ==
    {"max_tokens", "temperature", "top_p", "stop_sequences", "tool_choice", "extra"}
    \cup (IF v = "anthropic" THEN {} ELSE {"seed"})

\* Only Anthropic is told which tool ends the part of a request that may be cached.
ToolsSent(v, tools) == [i \in DOMAIN tools |-> [tools[i] EXCEPT !.cached = @ /\ v = "anthropic"]]

\* ChatCodec::encode; that the answer is to be streamed, which the body says too, is left out.
Encode(v, req) ==
    [model |-> req.model.name,
     system |-> SystemField(v, req.messages),
     turns |-> Turns(v, req.messages),
     tools |-> ToolsSent(v, req.tools),
     reasoning |-> ReasoningFields(v, req),
     options |-> [o \in DOMAIN req.options \cap Carried(v) |-> req.options[o]]]

-----------------------------------------------------------------------------
(* Decoding an answer that comes whole: its blocks in the order of the API, or  *)
(* no JSON, none of the fields it should have, or blocked.                    *)

Told(blocks, kinds) ==
    Only(blocks, {i \in DOMAIN blocks :
                    blocks[i].kind \in kinds /\ (IsCall(blocks[i]) \/ blocks[i].text # "")})

\* What a text is read as: the value it stands for, or the text as it is.
Parsed(t) == [parsed |-> TRUE, text |-> t]
Raw(t) == [parsed |-> FALSE, text |-> t]
EmptyObject == Parsed(<<"{}">>)

\* The arguments an answer gives a call, {} if none: a text to be read for OpenAI, and left as it
\* is if it is not among the texts that are JSON; a value for the others.
Arguments(v, given, json) ==
    IF given = {} THEN EmptyObject
    ELSE LET t == CHOOSE x \in given : TRUE
         IN IF v \in {"anthropic", "google"} \/ t \in json THEN Parsed(t) ELSE Raw(t)

Decoded(v, blocks, json) ==
    [i \in DOMAIN blocks |->
        IF IsCall(blocks[i]) THEN [blocks[i] EXCEPT !.args = Arguments(v, @, json)] ELSE blocks[i]]

OpenAIBlocks(blocks) ==
    Told(blocks, {"text"}) \o Told(blocks, {"thinking"}) \o Told(blocks, {"call"})
AnthropicBlocks(blocks) == Told(blocks, {"text", "thinking", "call"})

\* The id of a call is its function's name.
GoogleBlocks(blocks) ==
    LET told == Told(blocks, {"text", "call"})
    IN [i \in DOMAIN told |-> IF IsCall(told[i]) THEN [told[i] EXCEPT !.id = told[i].name] ELSE told[i]]

Decode(v, answer, json) ==
    IF answer.kind = "json" THEN
        LET blocks == Decoded(v, answer.blocks, json)
        IN [errors |-> {},
            content |-> CASE v = "anthropic" -> AnthropicBlocks(blocks)
                          [] v = "google"    -> GoogleBlocks(blocks)
                          [] OTHER           -> OpenAIBlocks(blocks)]
    ELSE [errors |-> {IF v = "google" /\ answer.kind \in {"blocked", "empty"}
                      THEN ProviderError(400) ELSE Error("Parse")},
          content |-> << >>]

-----------------------------------------------------------------------------
(* What an API demands of a history.                                        *)

\* An answer names its call: by its id, for Google by its function.
Key(v, call) == IF v = "google" THEN call.name ELSE call.id

\* The calls of a turn are answered one by one, in order, by the turns behind it, and nothing else
\* is an answer.
Paired(v, turns) ==
    /\ \A i \in DOMAIN turns : \A k \in DOMAIN turns[i].calls :
           /\ i + k \in DOMAIN turns
           /\ Len(turns[i + k].answers) = 1
           /\ turns[i + k].answers[1].to = Key(v, turns[i].calls[k])
    /\ \A i \in DOMAIN turns : turns[i].answers # << >> =>
           \E j \in 1 .. i - 1 : i - j \in DOMAIN turns[j].calls
=============================================================================
