----------------------------- MODULE MCSseStream -----------------------------
(***************************************************************************)
(* Short answers in the style of each API: text, thinking, two calls whose   *)
(* arguments come in pieces, the usage and the end.                           *)
(***************************************************************************)
EXTENDS SseStream

Plain == [kind |-> "chunk", event |-> "", split |-> FALSE, wide |-> FALSE, parts |-> TRUE,
          text |-> 0, thinking |-> FALSE, calls |-> << >>, finish |-> FALSE, usage |-> {}]
Part(i, id, name, args) == [index |-> i, id |-> id, name |-> name, args |-> args]
None == {}
Used(i, o) == {[in |-> i, out |-> o]}

\* The usage is null until the choices are done.
OpenAIAnswer == <<
    [Plain EXCEPT !.text = 1, !.wide = TRUE, !.usage = Used(0, 0)],
    [Plain EXCEPT !.calls = <<Part(0, {"c1"}, {"find"}, {"a"})>>],
    [Plain EXCEPT !.calls = <<Part(1, {"c2"}, {"read"}, {"b"}), Part(0, None, None, {"c"})>>, !.finish = TRUE],
    [Plain EXCEPT !.usage = Used(3, 2)],
    [Plain EXCEPT !.kind = "[DONE]"]>>
OpenAIBroken == <<
    [Plain EXCEPT !.text = 1, !.thinking = TRUE, !.split = TRUE],
    [Plain EXCEPT !.kind = "broken"],
    [Plain EXCEPT !.text = 1, !.finish = TRUE]>>
\* The id is repeated as an empty one, and the arguments are no JSON.
OpenAIEmpty == <<
    [Plain EXCEPT !.text = 1, !.calls = <<Part(0, {"c1"}, {"find"}, {""})>>],
    [Plain EXCEPT !.calls = <<Part(0, {""}, None, {"x"}), Part(1, {"c2"}, None, None)>>],
    [Plain EXCEPT !.finish = TRUE]>>

AnthropicAnswer == <<
    [Plain EXCEPT !.kind = "message_start", !.event = "message_start", !.usage = Used(3, 0)],
    [Plain EXCEPT !.kind = "content_block_delta", !.thinking = TRUE],
    [Plain EXCEPT !.kind = "content_block_start", !.calls = <<Part(1, {"c1"}, {"find"}, None)>>],
    [Plain EXCEPT !.kind = "content_block_delta", !.calls = <<Part(1, None, None, {"a"})>>],
    [Plain EXCEPT !.kind = "message_delta", !.event = "message_delta", !.usage = Used(0, 2)],
    [Plain EXCEPT !.kind = "message_stop"]>>

GoogleAnswer == <<
    [Plain EXCEPT !.text = 2, !.wide = TRUE],
    [Plain EXCEPT !.text = 1, !.calls = <<Part(0, None, {"find"}, {"a"}), Part(0, None, {"read"}, {"b"})>>,
                  !.finish = TRUE, !.usage = Used(3, 2)],
    [Plain EXCEPT !.parts = FALSE, !.finish = TRUE, !.usage = Used(3, 2)]>>
\* Calls in two frames, and counts in a frame of their own.
GoogleFrames == <<
    [Plain EXCEPT !.calls = <<Part(0, None, {"find"}, {"a"})>>],
    [Plain EXCEPT !.calls = <<Part(0, None, {"read"}, {"b"})>>],
    [Plain EXCEPT !.parts = FALSE, !.usage = Used(3, 2)],
    [Plain EXCEPT !.text = 1, !.finish = TRUE]>>

Notice == [Plain EXCEPT !.kind = "notification"]
Notices == <<
    [Plain EXCEPT !.kind = "response", !.event = "acknowledged"],
    [Notice EXCEPT !.event = "message", !.wide = TRUE],
    [Notice EXCEPT !.split = TRUE]>>

MCScript == [r \in Reader |->
    CASE r = "openai" -> {OpenAIAnswer, OpenAIBroken, OpenAIEmpty}
      [] r = "anthropic" -> {AnthropicAnswer}
      [] r = "google" -> {GoogleAnswer, GoogleFrames}
      [] r = "subscription" -> {Notices}]
MCJSON == {<<"{}">>, <<"a">>, <<"b">>, <<"a", "c">>}
\* Two objects in a row: the first is taken.
MCRepaired == [t \in {<<"a", "b">>} |-> <<"a">>]
=============================================================================
