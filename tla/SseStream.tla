------------------------------ MODULE SseStream ------------------------------
(***************************************************************************)
(* An answer that a server streams as SSE, read from a byte stream that is   *)
(* cut anywhere: the stream of a provider (CodecProvider::stream, SseParser,  *)
(* process_stream, ChannelSink), or an MCP subscription                       *)
(* (spawn_subscription_reader, SseStreamParser), which has a parser of its own. *)
(*                                                                         *)
(* The wire is a sequence of symbols.  "event" and "data" stand for the name  *)
(* of a field with its colon, open and close for the two ends of a JSON        *)
(* payload, hi and lo for the two bytes of one character inside it.  Each     *)
(* counts as one byte where the code computes with offsets.                   *)
(* An operator marked "mutant of" is used by no action.                       *)
(***************************************************************************)
EXTENDS Naturals, Sequences, FiniteSets, SequencesExt

CONSTANTS
    Reader,  \* what reads: "openai", "anthropic", "google", "subscription"
    Script,  \* the answers a server gives to each, as sequences of messages
    Ending,  \* the line endings a server uses: "lf", "crlf"
    Room,    \* capacity of the event channel
    JSON,    \* the texts that are JSON, each the sequence of the fragments it comes in
    Repaired \* the JSON that robust_parse reads another text as, where it can repair it

Codec == {"openai", "anthropic", "google"}
\* What an option holds, {} for None.
UnwrapOr(o, default) == IF o = {} THEN default ELSE CHOOSE x \in o : TRUE
Delta == [index : Nat, id : SUBSET STRING, name : SUBSET STRING, args : SUBSET STRING]
Piece(d) == UnwrapOr(d.args, "")
\* One JSON object.  event is its event field, "" without one; split puts the payload on
\* two data lines; wide puts a character of two bytes inside it.
Message == [kind : STRING, event : STRING, split : BOOLEAN, wide : BOOLEAN,
            parts : BOOLEAN, text : Nat, thinking : BOOLEAN, calls : Seq(Delta),
            finish : BOOLEAN, usage : SUBSET [in : Nat, out : Nat]]

ASSUME StreamAssumption ==
    /\ Reader \subseteq Codec \cup {"subscription"}
    /\ \A r \in Reader : Script[r] \subseteq Seq(Message)
    /\ Ending \subseteq {"lf", "crlf"}
    /\ Room \in Nat \ {0}
    /\ JSON \subseteq Seq(STRING) \ {<< >>} /\ \A t \in DOMAIN Repaired : Repaired[t] \in JSON

\* Where a message can speak: [DONE] and what is no JSON say nothing, Anthropic has a kind for what
\* is said, Google puts it in parts and has no field for thoughts.
Speaks(r, m) ==
    m.text > 0 \/ m.thinking =>
        CASE r = "openai"    -> m.kind \notin {"[DONE]", "broken"}
          [] r = "anthropic" -> m.kind = "content_block_delta"
          [] r = "google"    -> m.kind # "broken" /\ m.parts /\ ~m.thinking
          [] OTHER           -> TRUE
ASSUME SpeechAssumption ==
    \A r \in Reader : \A s \in Script[r] : \A k \in DOMAIN s : Speaks(r, s[k])

\* What ends an answer; where one can hold calls, each of whose fields is there once or not at
\* all, and counts of tokens, at most one of each.
IsFinal(r, m) ==
    CASE r = "openai"    -> m.kind = "[DONE]" \/ m.finish
      [] r = "anthropic" -> m.kind = "message_delta"
      [] OTHER           -> m.parts /\ m.finish
Once(d) == \A o \in {d.id, d.name, d.args} : \A x, y \in o : x = y
Calling(r, m) ==
    m.calls # << >> =>
        /\ \A i \in DOMAIN m.calls : Once(m.calls[i])
        /\ CASE r = "openai"    -> m.kind \notin {"[DONE]", "broken"}
             [] r = "anthropic" -> m.kind \in {"content_block_start", "content_block_delta"}
             [] r = "google"    -> m.kind # "broken" /\ m.parts
             [] OTHER           -> TRUE
Counting(r, m) ==
    /\ \A u, v \in m.usage : u = v
    /\ r = "openai" /\ m.usage # {} => m.kind \notin {"[DONE]", "broken"}
    /\ r = "anthropic" => \A u \in m.usage : /\ u.in > 0 => m.kind = "message_start"
                                             /\ u.out > 0 => m.kind = "message_delta"

\* Of two messages of an answer, in their order: behind the end there are no calls, and counts go
\* up; for Anthropic no count is a count of zero.
Follows(r, m, w) ==
    /\ IsFinal(r, m) => w.calls = << >>
    /\ \A u \in m.usage, v \in w.usage :
          /\ r # "anthropic" \/ v.in > 0 => u.in <= v.in
          /\ r # "anthropic" \/ v.out > 0 => u.out <= v.out
ASSUME AnswerAssumption ==
    \A r \in Reader \cap Codec : \A s \in Script[r] :
        /\ \A k \in DOMAIN s : Calling(r, s[k]) /\ Counting(r, s[k])
        /\ \A k, j \in DOMAIN s : k < j => Follows(r, s[k], s[j])

Sym(s, k) == [sym |-> s, msg |-> k]
Byte == [sym : {"event", "data", "open", "hi", "lo", "bad", "close", "cr", "lf"}, msg : Nat]
Blank == {"cr", "lf"}
Event == [kind : {"Start", "Token", "ThinkingDelta", "Error", "ResponseComplete", "Notification"},
          msg : Nat, part : Nat, intact : BOOLEAN]
Ev(kind) == [kind |-> kind, msg |-> 0, part |-> 0, intact |-> TRUE]
Terminal == {"Error", "ResponseComplete"}
Critical == Terminal \cup {"Start"}

\* What the server writes.
NL(k, e) == IF e = "crlf" THEN <<Sym("cr", k), Sym("lf", k)>> ELSE <<Sym("lf", k)>>
Json(m, k) == IF m.wide THEN <<Sym("open", k), Sym("hi", k), Sym("lo", k), Sym("close", k)>>
              ELSE <<Sym("open", k), Sym("close", k)>>
Written(m, k, e) ==
    (IF m.event = "" THEN << >> ELSE <<Sym("event", k)>> \o NL(k, e))
    \o (IF m.split THEN <<Sym("data", k), Sym("open", k)>> \o NL(k, e)
                        \o <<Sym("data", k)>> \o Tail(Json(m, k))
        ELSE <<Sym("data", k)>> \o Json(m, k))
    \o NL(k, e) \o NL(k, e)
Body(s, e) == FlattenSeq([k \in DOMAIN s |-> Written(s[k], k, e)])

VARIABLES
    reader, script, ending, \* who reads which answer
    wire,     \* the bytes of the body nobody has read yet
    first,    \* size of the chunk stream() waited for, not yet processed
    phase,    \* asked, reading, ending, over, refused, panicked
    parser,   \* buffer, frame_event and frame_data of the parser
    frames,   \* frames parsed from the chunk, not yet handled
    calls, prompt, completion, \* ToolCallAccumulator and UsageAccumulator
    is_done,  \* a chunk said Done
    out,      \* events process_stream has yet to emit
    channel,  \* events in the channel
    present,  \* the consumer holds the receiver
    dropped,  \* events that found no room
    response, \* what ResponseComplete carries, {} before
    handled,  \* history: the messages whose frames were handled
    got       \* history: the events the consumer received

vars == <<reader, script, ending, wire, first, phase, parser, frames, calls, prompt, completion,
          is_done, out, channel, present, dropped, response, handled, got>>
chosen == <<reader, script, ending>>
accumulated == <<calls, prompt, completion, is_done, response, handled>>
delivery == <<channel, present, dropped, got>>

NoParse == [buffer |-> << >>, event |-> 0, data |-> << >>]

Init ==
    /\ reader \in Reader /\ script \in Script[reader] /\ ending \in Ending
    /\ wire = Body(script, ending) /\ first = 0 /\ parser = NoParse /\ frames = << >>
    /\ phase = "asked"
    /\ calls = << >> /\ prompt = {} /\ completion = {} /\ is_done = FALSE /\ response = {}
    /\ out = << >> /\ channel = << >> /\ present = TRUE /\ dropped = 0
    /\ handled = << >> /\ got = << >>

-----------------------------------------------------------------------------
(* From bytes to frames.                                                    *)

\* String::from_utf8_lossy of one chunk: a byte whose other half is elsewhere is lost.
Lossy(c) == [i \in DOMAIN c |->
    IF (c[i].sym = "lo" /\ i = 1) \/ (c[i].sym = "hi" /\ i = Len(c))
    THEN Sym("bad", c[i].msg) ELSE c[i]]

\* Where the fields of a line begin, and what is left of it.
KeyAt(l) == LET seen == {i \in DOMAIN l : l[i].sym \notin Blank}
            IN IF seen = {} THEN 0 ELSE CHOOSE i \in seen : \A j \in seen : i <= j
Value(l) == SubSeq(l, KeyAt(l) + 1, Len(l))
Untrimmed(l) == l   \* mutant of Unended
Unended(l) == IF l # << >> /\ l[Len(l)].sym = "cr" THEN Front(l) ELSE l

\* SseParser::parse_frames: one line, trimmed, with the frames found so far.
ParseLine(p, l) ==
    LET t == Unended(l)
        frame == [event |-> p.event, data |-> p.data]
    IN IF t = << >>
       THEN IF p.data = << >> THEN p
            ELSE [p EXCEPT !.event = 0, !.data = << >>, !.found = Append(@, frame)]
       ELSE IF t[1].sym = "event" THEN [p EXCEPT !.event = t[1].msg]
       ELSE IF t[1].sym = "data" THEN [p EXCEPT !.data = @ \o Tail(t)]
       ELSE p

\* SseParser::feed
FeedByte(p, b) ==
    IF b.sym = "lf" THEN ParseLine([p EXCEPT !.buffer = << >>], p.buffer)
    ELSE [p EXCEPT !.buffer = Append(@, b)]

Feed(p, chunk) ==
    LET text == Lossy(chunk)
        start == [buffer |-> p.buffer, event |-> p.event, data |-> p.data, found |-> << >>]
        fed[i \in 0 .. Len(text)] ==
            IF i = 0 THEN start
            ELSE CHOOSE q \in {FeedByte(f, text[i]) : f \in {fed[i - 1]}} : TRUE
    IN fed[Len(text)]

\* SseStreamParser::feed: one line, not trimmed.
SubscriptionLine(p, l) ==
    LET k == KeyAt(l)
        frame == [event |-> p.event, data |-> p.data]
    IN IF l = << >>
       THEN IF p.data = << >> THEN p
            ELSE [p EXCEPT !.event = 0, !.data = << >>, !.found = Append(@, frame)]
       ELSE IF k = 0 THEN p
       ELSE IF l[k].sym = "event" THEN [p EXCEPT !.event = l[k].msg]
       ELSE IF l[k].sym = "data"
       THEN [p EXCEPT !.data = IF @ = << >> THEN Value(l)
                               ELSE @ \o <<Sym("lf", l[k].msg)>> \o Value(l)]
       ELSE p

\* An offset that is no place to cut the string b at.
Uncuttable(b, at) == at > Len(b) \/ (at \in 1 .. Len(b) - 1 /\ b[at].sym = "hi" /\ b[at + 1].sym = "lo")

\* A byte of the buffer.  char_offset counts from where the buffer began, yet is added to
\* drain_until, which has moved with every line before.
SubscriptionByte(f, b, i) ==
    LET abs_idx == f.drain_until + (i - 1)
        line == SubSeq(b, f.drain_until + 1, abs_idx)
    IN IF f.panic \/ b[i].sym # "lf" THEN f
       ELSE IF Uncuttable(b, f.drain_until) \/ Uncuttable(b, abs_idx)
       THEN [f EXCEPT !.panic = TRUE]
       ELSE [SubscriptionLine(f, line) EXCEPT !.drain_until = abs_idx + 1]

\* SseStreamParser::feed
SubscriptionFeed(p, chunk) ==
    LET b == p.buffer \o Lossy(chunk)
        start == [event |-> p.event, data |-> p.data, found |-> << >>, drain_until |-> 0,
                  panic |-> FALSE]
        fed[i \in 0 .. Len(b)] ==
            IF i = 0 THEN start
            ELSE CHOOSE q \in {SubscriptionByte(f, b, i) : f \in {fed[i - 1]}} : TRUE
        end == fed[Len(b)]
    IN [buffer |-> SubSeq(b, end.drain_until + 1, Len(b)), event |-> end.event,
        data |-> end.data, found |-> end.found,
        panic |-> end.panic \/ Uncuttable(b, end.drain_until)]

\* A byte as it was sent, or what from_utf8_lossy made of it.
Like(b, c) == b.msg = c.msg /\ (b.sym = c.sym \/ (b.sym = "bad" /\ c.sym \in {"hi", "lo"}))

\* What is not blank in the data of a frame; the message whose JSON it is, 0 if it is none.
Ink(d) == {i \in DOMAIN d : d[i].sym \notin Blank}
IsJson(d, k) ==
    LET whole == Json(script[k], k)
        place(i) == Cardinality({j \in Ink(d) : j <= i})
    IN /\ script[k].kind # "broken" /\ Cardinality(Ink(d)) = Len(whole)
       /\ \A i \in Ink(d) : Like(d[i], whole[place(i)])
Carried(d) == IF \E k \in DOMAIN script : IsJson(d, k)
              THEN CHOOSE k \in DOMAIN script : IsJson(d, k) ELSE 0
Intact(d) == \A i \in DOMAIN d : d[i].sym # "bad"

\* The codecs of whole requests and answers.
Wire == INSTANCE Codecs

-----------------------------------------------------------------------------
(* From frames to events: ChatCodec::decode_sse and handle_frame.           *)

Chunk(kind) == [kind |-> kind, delta |-> [index |-> 0, id |-> {}, name |-> {}, args |-> {}]]
Texts(m) == [i \in 1 .. m.text |-> Chunk("TextDelta")]
Thinking(m) == IF m.thinking THEN <<Chunk("ThinkingDelta")>> ELSE << >>
Deltas(ds) == [i \in DOMAIN ds |-> [Chunk("ToolCallDelta") EXCEPT !.delta = ds[i]]]
Done(m) == IF m.finish THEN <<Chunk("Done")>> ELSE << >>
Usage(m) == IF m.usage = {} THEN << >> ELSE <<Chunk("Usage")>>

\* OpenAICompatCodec::decode_sse.  A usage that is null counts as a usage of zero.
OpenAI(m) ==
    IF m.kind = "[DONE]" THEN <<Chunk("Done")>>
    ELSE Texts(m) \o Thinking(m) \o Deltas(m.calls) \o Done(m) \o Usage(m)

\* AnthropicCodec::decode_sse, a chunk for a type; a count of zero is no count.
Anthropic(m) ==
    LET counted(kind, field(_)) ==
            IF \E u \in m.usage : field(u) > 0 THEN <<Chunk(kind)>> ELSE << >>
    IN CASE m.kind = "message_start"       -> counted("InputTokens", LAMBDA u : u.in)
         [] m.kind = "content_block_start" -> Deltas(m.calls)
         [] m.kind = "content_block_delta" -> Texts(m) \o Deltas(m.calls) \o Thinking(m)
         [] m.kind = "message_delta"       ->
                counted("OutputTokens", LAMBDA u : u.out) \o <<Chunk("Done")>>
         [] OTHER                          -> << >>

\* GoogleCodec::decode_sse: calls are numbered within the frame and named by their
\* function, the usage counts if nothing else is there, the end if there are parts.
Google(m) ==
    LET numbered == [i \in DOMAIN m.calls |->
                        [m.calls[i] EXCEPT !.index = i - 1, !.id = m.calls[i].name]]
        content == Texts(m) \o Deltas(numbered) \o Done(m)
    IN IF m.parts /\ content # << >> THEN content ELSE Usage(m)

Decode(m) == CASE reader = "openai" -> OpenAI(m)
               [] reader = "anthropic" -> Anthropic(m)
               [] OTHER -> Google(m)

Has(chunks, kind) == \E i \in DOMAIN chunks : chunks[i].kind = kind

\* The tokens of a frame; of several texts the last one stays.
Tokens(chunks, k, intact) ==
    LET token(kind, part) == [kind |-> kind, msg |-> k, part |-> part, intact |-> intact]
    IN (IF Has(chunks, "TextDelta") THEN <<token("Token", script[k].text)>> ELSE << >>)
       \o (IF Has(chunks, "ThinkingDelta") THEN <<token("ThinkingDelta", 0)>> ELSE << >>)

\* mutant of Push: a delta is an entry of its own
PushOverwrites(acc, d) ==
    [i \in DOMAIN acc \cup {d.index} |->
        IF i # d.index THEN acc[i] ELSE [id |-> d.id, name |-> d.name, args |-> <<Piece(d)>>]]

\* ToolCallAccumulator::push: an id or a name that is there replaces the one before, be it empty.
Push(acc, d) ==
    LET entry == IF d.index \in DOMAIN acc THEN acc[d.index]
                 ELSE [id |-> {}, name |-> {}, args |-> << >>]
    IN [i \in DOMAIN acc \cup {d.index} |->
        IF i # d.index THEN acc[i]
        ELSE [id |-> IF d.id = {} THEN entry.id ELSE d.id,
              name |-> IF d.name = {} THEN entry.name ELSE d.name,
              args |-> IF Piece(d) = "" THEN entry.args ELSE Append(entry.args, Piece(d))]]

PushAll(acc, chunks) ==
    LET pushed[i \in 0 .. Len(chunks)] ==
            IF i = 0 THEN acc
            ELSE IF chunks[i].kind = "ToolCallDelta" THEN Push(pushed[i - 1], chunks[i].delta)
            ELSE pushed[i - 1]
    IN pushed[Len(chunks)]

\* robust_parse: what is no JSON and cannot be repaired stays a text.
RobustParse(t) == IF t \in JSON THEN Wire!Parsed(t)
                  ELSE IF t \in DOMAIN Repaired THEN Wire!Parsed(Repaired[t]) ELSE Wire!Raw(t)

\* ToolCallAccumulator::finalize: in the order of the indices.
Finished(e) ==
    [id |-> UnwrapOr(e.id, "unknown"), name |-> UnwrapOr(e.name, "unknown"),
     args |-> IF e.args = << >> THEN Wire!EmptyObject ELSE RobustParse(e.args)]
Finalize(acc) ==
    [k \in 1 .. Cardinality(DOMAIN acc) |-> Finished(acc[Wire!Position(DOMAIN acc, k)])]

\* UsageAccumulator::push of one count, {} before it is known.
Counted(seen, chunks, kind, ns) ==
    IF Has(chunks, "Usage") THEN ns
    ELSE IF Has(chunks, kind) THEN {Max(seen \cup ns)} ELSE seen

\* UsageAccumulator::finalize
Count(seen) == UnwrapOr(seen, 0)
FinalUsage == IF prompt \cup completion = {} THEN {}
              ELSE {[in |-> Count(prompt), out |-> Count(completion)]}

-----------------------------------------------------------------------------
(* CodecProvider::stream, up to the channel it returns.                     *)

\* The request is not valid, or fails, or the body ends, breaks or stays away before its
\* first chunk: the caller gets an error and no stream.
Refused ==
    /\ phase = "asked"
    /\ phase' = "refused"
    /\ UNCHANGED <<chosen, wire, first, parser, frames, out, accumulated, delivery>>

\* The answer has begun.  A subscription reads every chunk in its own task.
Opened(n) ==
    /\ phase = "asked"
    /\ phase' = "reading"
    /\ IF reader = "subscription" THEN first' = 0 /\ out' = out
       ELSE first' = n /\ out' = <<Ev("Start")>>
    /\ UNCHANGED <<chosen, wire, parser, frames, accumulated, delivery>>

-----------------------------------------------------------------------------
(* process_stream: between two polls of the body it handles every frame of   *)
(* the chunk, and emits what a frame says before it looks at the next.        *)

Idle == phase = "reading" /\ reader \in Codec /\ out = << >> /\ frames = << >>
Gone == ~present

\* ChannelSink::emit: critical events wait for room, the others are tried.
Fits(e) == Len(channel) < Room
NeverWaits(e) == FALSE   \* mutant of Waits: a critical event is tried like any other
Waits(e) == e.kind \in Critical /\ present /\ ~Fits(e)

Emit ==
    /\ out # << >>
    /\ LET e == Head(out)
       IN /\ ~Waits(e)
          /\ IF Gone
             THEN phase' = "over" /\ out' = << >> /\ frames' = << >> /\ UNCHANGED <<channel, dropped>>
             ELSE /\ out' = Tail(out) /\ UNCHANGED frames
                  /\ phase' = IF e.kind \in Terminal THEN "over" ELSE phase
                  /\ IF Fits(e) THEN channel' = Append(channel, e) /\ UNCHANGED dropped
                     ELSE dropped' = dropped + 1 /\ UNCHANGED channel
    /\ UNCHANGED <<chosen, wire, first, parser, accumulated, present, got>>

\* A chunk arrives, unless a frame has said Done.
ReadChunk(n) ==
    /\ Idle /\ ~is_done /\ n \in 1 .. Len(wire) /\ first \in {0, n}
    /\ first' = 0
    /\ IF Gone THEN phase' = "over" /\ UNCHANGED <<wire, parser, frames>>
       ELSE LET fed == Feed(parser, SubSeq(wire, 1, n))
            IN /\ wire' = SubSeq(wire, n + 1, Len(wire))
               /\ parser' = [buffer |-> fed.buffer, event |-> fed.event, data |-> fed.data]
               /\ frames' = fed.found
               /\ UNCHANGED phase
    /\ UNCHANGED <<chosen, out, accumulated, delivery>>

\* The next frame of the chunk: one that cannot be decoded ends the stream, and with it the
\* frames behind it.
HandleFrame ==
    /\ phase = "reading" /\ reader \in Codec /\ out = << >> /\ frames # << >>
    /\ LET d == Head(frames).data
           k == Carried(d)
           m == script[k]
           chunks == Decode(m)
       IN /\ frames' = IF k = 0 THEN << >> ELSE Tail(frames)
          /\ handled' = Append(handled, d[1].msg)
          /\ IF k = 0
             THEN /\ out' = <<Ev("Error")>> /\ phase' = "ending"
                  /\ UNCHANGED <<calls, prompt, completion, is_done>>
             ELSE /\ out' = Tokens(chunks, k, Intact(d))
                  /\ calls' = PushAll(calls, chunks)
                  /\ prompt' = Counted(prompt, chunks, "InputTokens", {u.in : u \in m.usage})
                  /\ completion' = Counted(completion, chunks, "OutputTokens", {u.out : u \in m.usage})
                  /\ is_done' = (is_done \/ Has(chunks, "Done"))
                  /\ UNCHANGED phase
    /\ UNCHANGED <<chosen, wire, first, parser, delivery, response>>

\* mutant of Breaks: without idle_timeout a server that says nothing is waited for
NeverBreaks == FALSE

\* The body breaks, or nothing came for idle_timeout.
Breaks ==
    /\ Idle /\ ~is_done /\ first = 0
    /\ IF Gone THEN phase' = "over" /\ UNCHANGED out
       ELSE phase' = "ending" /\ out' = <<Ev("Error")>>
    /\ UNCHANGED <<chosen, wire, first, parser, frames, accumulated, delivery>>

\* A frame of the chunk said Done, or the server has closed the body, at its end or before:
\* what was gathered is the response.
Completes ==
    /\ Idle /\ (is_done \/ first = 0)
    /\ IF Gone THEN phase' = "over" /\ UNCHANGED <<out, response>>
       ELSE /\ phase' = "ending" /\ out' = <<Ev("ResponseComplete")>>
            /\ response' = {[calls |-> Finalize(calls), usage |-> FinalUsage]}
    /\ UNCHANGED <<chosen, wire, first, parser, frames, calls, prompt, completion, is_done,
                   handled, delivery>>

-----------------------------------------------------------------------------
(* The task of spawn_subscription_reader.                                   *)

Listening == phase = "reading" /\ reader = "subscription"

\* handle_sse_frame: the notifications among the frames; the broadcast never waits.
Notified(fs) ==
    FlattenSeq([i \in DOMAIN fs |->
        LET k == Carried(fs[i].data)
        IN IF /\ fs[i].event = 0 \/ script[fs[i].event].event = "message"
              /\ k # 0 /\ script[k].kind = "notification"
           THEN <<[kind |-> "Notification", msg |-> k, part |-> 0,
                    intact |-> Intact(fs[i].data)]>>
           ELSE << >>])

Taken(fs) == [i \in DOMAIN fs |-> fs[i].data[1].msg]

Listen(n) ==
    /\ Listening /\ n \in 1 .. Len(wire)
    /\ wire' = SubSeq(wire, n + 1, Len(wire))
    /\ LET fed == SubscriptionFeed(parser, SubSeq(wire, 1, n))
       IN IF fed.panic THEN phase' = "panicked" /\ UNCHANGED <<parser, handled, got>>
          ELSE /\ parser' = [buffer |-> fed.buffer, event |-> fed.event, data |-> fed.data]
               /\ handled' = handled \o Taken(fed.found)
               /\ got' = got \o Notified(fed.found)
               /\ UNCHANGED phase
    /\ UNCHANGED <<chosen, first, frames, calls, prompt, completion, is_done, response, out,
                   channel, present, dropped>>

\* The body ends or breaks: flush takes the frame that waits for its blank line.
ListenedOut ==
    /\ Listening
    /\ phase' = "over"
    /\ LET last == IF parser.data = << >> THEN << >>
                   ELSE <<[event |-> parser.event, data |-> parser.data]>>
       IN handled' = handled \o Taken(last) /\ got' = got \o Notified(last)
    /\ parser' = [parser EXCEPT !.event = 0, !.data = << >>]
    /\ UNCHANGED <<chosen, wire, first, frames, calls, prompt, completion, is_done, response, out,
                   channel, present, dropped>>

-----------------------------------------------------------------------------
(* The consumer.                                                            *)

Receive ==
    /\ present /\ channel # << >>
    /\ got' = Append(got, Head(channel)) /\ channel' = Tail(channel)
    /\ UNCHANGED <<chosen, wire, first, phase, parser, frames, out, accumulated, present, dropped>>

\* It drops the stream; to drop a SubscriptionHandle, or to cancel it, aborts the task.
Leave ==
    /\ present /\ phase \notin {"asked", "refused", "panicked"}
    /\ present' = FALSE /\ channel' = << >>
    /\ phase' = IF reader = "subscription" THEN "over" ELSE phase
    /\ UNCHANGED <<chosen, wire, first, parser, frames, out, accumulated, dropped, got>>

\* A poll that need not wait for the server: the body has broken or idle_timeout is over, the
\* answer is done, or the chunk stream() waited for is there.
Poll == Breaks \/ (is_done /\ Completes) \/ (first > 0 /\ \E n \in 1 .. Len(wire) : ReadChunk(n))

Next ==
    \/ Refused
    \/ \E n \in 1 .. Len(wire) : Opened(n)
    \/ \E n \in 1 .. Len(wire) : ReadChunk(n)
    \/ Breaks \/ Completes \/ HandleFrame \/ Emit
    \/ \E n \in 1 .. Len(wire) : Listen(n)
    \/ ListenedOut
    \/ Receive \/ Leave

\* idle_timeout ends every wait for a chunk, whatever the server does; the task runs on; the
\* consumer reads on or leaves.
Fairness == WF_vars(Poll) /\ WF_vars(HandleFrame) /\ WF_vars(Emit) /\ WF_vars(Receive \/ Leave)

Spec == Init /\ [][Next]_vars
FairSpec == Spec /\ Fairness

-----------------------------------------------------------------------------
(* Properties.                                                              *)

Pending == [id : SUBSET STRING, name : SUBSET STRING, args : Seq(STRING)]

\* Type correctness; the channel never holds more than its capacity.
TypeOK ==
    /\ reader \in Reader /\ script \in Script[reader] /\ ending \in Ending
    /\ wire \in Seq(Byte) /\ first \in Nat
    /\ phase \in {"asked", "reading", "ending", "over", "refused", "panicked"}
    /\ parser.buffer \in Seq(Byte) /\ parser.event \in 0 .. Len(script)
    /\ parser.data \in Seq(Byte)
    /\ \A i \in DOMAIN frames : frames[i].data \in Seq(Byte) \ {<< >>}
    /\ DOMAIN calls \subseteq Nat /\ \A i \in DOMAIN calls : calls[i] \in Pending
    /\ prompt \subseteq Nat /\ completion \subseteq Nat /\ is_done \in BOOLEAN
    /\ Cardinality(prompt) <= 1 /\ Cardinality(completion) <= 1 /\ Cardinality(response) <= 1
    /\ out \in Seq(Event) /\ channel \in Seq(Event) /\ Len(channel) <= Room /\ got \in Seq(Event)
    /\ present \in BOOLEAN /\ dropped \in Nat

\* How many messages have been read to the blank line behind them.
Read == Len(Body(script, ending)) - Len(wire)
Arrived == Cardinality({k \in DOMAIN script : Len(Body(SubSeq(script, 1, k), ending)) <= Read})
UpTo(n) == [k \in 1 .. n |-> k]

\* However the body is cut, and whatever ends its lines, the frames a provider's parser has
\* returned are the messages that have been read to the blank line behind them, each once and in
\* order (the rejoining of cut frames in SseParser).
FramesAreReturned ==
    reader \in Codec /\ phase = "reading" => handled \o Taken(frames) = UpTo(Arrived)

\* The same of the parser of a subscription.
NotificationsAreReturned ==
    reader = "subscription" /\ phase \in {"reading", "panicked"} => handled = UpTo(Arrived)

\* The calls that n messages describe, put together by hand: what is told of each, {} if nothing
\* is.  Google numbers none and has no ids but the names.
DeltasOf(n) ==
    LET ds == FlattenSeq([k \in 1 .. n |-> script[k].calls])
    IN IF reader = "google"
       THEN [j \in DOMAIN ds |-> [ds[j] EXCEPT !.index = j - 1, !.id = ds[j].name]] ELSE ds
CallOf(i, n) ==
    LET ds == DeltasOf(n)
        said(field(_)) == {j \in DOMAIN ds : ds[j].index = i /\ field(ds[j]) # {}}
        last(field(_)) == IF said(field) = {} THEN {} ELSE field(ds[Max(said(field))])
        told == said(LAMBDA d : d.args)
        fragments == Wire!Only(ds, {j \in told : Piece(ds[j]) # ""})
        text == [k \in DOMAIN fragments |-> Piece(fragments[k])]
    IN [id |-> last(LAMBDA d : d.id), name |-> last(LAMBDA d : d.name),
        args |-> IF told = {} THEN {} ELSE {text}]
CallsOf(n) ==
    LET indices == {DeltasOf(n)[j].index : j \in DOMAIN DeltasOf(n)}
    IN [k \in 1 .. Cardinality(indices) |-> CallOf(Wire!Position(indices, k), n)]

\* Google's decoder counts the calls of a frame and begins again with the next.
OneFrame(n) ==
    reader = "google" =>
        \A k, j \in 1 .. n : script[k].calls # << >> /\ script[j].calls # << >> => k = j

\* The usage n messages report: the last of each count.
LastCount(n, field(_)) ==
    LET told == {k \in 1 .. n : \E u \in script[k].usage : field(u) > 0}
    IN IF told = {} THEN 0 ELSE field(CHOOSE u \in script[Max(told)].usage : TRUE)
Reported(n) == [in |-> LastCount(n, LAMBDA u : u.in), out |-> LastCount(n, LAMBDA u : u.out)]

\* Google's decoder passes over counts in a message that says anything else.
CountsAlone(m) == reader = "google" /\ m.usage # {} =>
                      ~(m.parts /\ (m.text > 0 \/ m.calls # << >> \/ m.finish))

\* The calls as blocks of a message, and the answer that brings n messages at once: a call of
\* Google has no id of its own.
Blocks(cs) == [j \in DOMAIN cs |-> Wire!ToolCall(cs[j].id, cs[j].name, cs[j].args)]
Whole(n) ==
    [kind |-> "json",
     blocks |-> [j \in DOMAIN CallsOf(n) |->
                    LET c == CallsOf(n)[j]
                    IN Wire!ToolCall(IF reader = "google" THEN "" ELSE UnwrapOr(c.id, ""),
                                     UnwrapOr(c.name, ""), c.args)]]

\* A call that has all it needs: what it is given, if anything, is JSON.
Complete(c) == c.id # {} /\ c.name # {} /\ c.args \subseteq JSON

\* The history after the calls of an answer were made.
Talk(cs) == <<Wire!UserText("ask"), Wire!Answered(Blocks(cs), "thought", "said")>>
            \o [j \in DOMAIN cs |-> Wire!ToolResult(Blocks(cs)[j], TRUE, "done")]

\* A response is whole, however the body was cut: its calls are those of the messages that have
\* arrived, the last id and name told and the fragments of arguments joined in order under their
\* own call, unless calls of Google came in several messages; if all of them are complete, they are
\* the calls the decoder of whole answers gives, unless the server closed the body early; its usage
\* is the one those messages report, where the decoder takes it; and the history it makes passes
\* the checks of the next request, unless an id is empty, and in the body every call has its result
\* (ToolCallAccumulator, UsageAccumulator, Done honoured only behind the chunk, decode and encode of
\* the codecs).
CompleteIsWhole ==
    \A r \in response :
        /\ OneFrame(Arrived) =>
              r.calls = [k \in DOMAIN CallsOf(Arrived) |->
                            LET c == CallsOf(Arrived)[k]
                            IN Finished([c EXCEPT !.args = UnwrapOr(@, << >>)])]
        /\ is_done /\ OneFrame(Len(script)) /\ (\A k \in DOMAIN CallsOf(Len(script)) :
                                                    Complete(CallsOf(Len(script))[k])) =>
              Blocks(r.calls) = Wire!CallsIn(Wire!Decode(reader, Whole(Len(script)), JSON).content)
        /\ (\A k \in 1 .. Arrived : CountsAlone(script[k])) =>
              \/ r.usage = {Reported(Arrived)}
              \/ r.usage = {} /\ Reported(Arrived).in = 0 /\ Reported(Arrived).out = 0
        /\ (\A j \in DOMAIN r.calls : r.calls[j].id # "") =>
              \A i \in DOMAIN Talk(r.calls) : Wire!Valid(Talk(r.calls)[i])
        /\ Wire!Paired(reader, Wire!Turns(reader, Talk(r.calls)))

\* What a message says, text by text; the texts handle_frame passes over.
Word(k, i) == [Ev("Token") EXCEPT !.msg = k, !.part = i]
Said(k) ==
    [i \in 1 .. script[k].text |-> Word(k, i)]
    \o (IF script[k].thinking THEN <<[Ev("ThinkingDelta") EXCEPT !.msg = k]>> ELSE << >>)
PassedOver(k) == [i \in 1 .. script[k].text - 1 |-> Word(k, i)]
LastWord == IF phase \notin {"ending", "over"} THEN << >>
            ELSE IF response = {} THEN <<Ev("Error")>> ELSE <<Ev("ResponseComplete")>>
Same(a, b) == a.kind = b.kind /\ a.msg = b.msg /\ a.part = b.part

\* The consumer is told what the messages say, in their order and nothing twice: Start first,
\* one Error or ResponseComplete last.  Of what is missing between them each event found no room and
\* is counted as dropped, or is a text before the last one of its frame, which handle_frame passes
\* over.  A subscriber is told notifications in the order of the body.
EventsInOrder ==
    LET seen == got \o channel \o out
        all(f(_)) == FlattenSeq([i \in DOMAIN handled |-> f(handled[i])])
        expected == <<Ev("Start")>> \o all(Said) \o LastWord
    IN IF reader = "subscription" THEN \A i, j \in DOMAIN got : i < j => got[i].msg < got[j].msg
       ELSE present /\ phase \notin {"asked", "refused"} =>
            /\ Len(seen) + dropped + Len(all(PassedOver)) = Len(expected)
            /\ \A i, j \in DOMAIN seen : i < j =>
                \E p, q \in DOMAIN expected :
                    p < q /\ Same(seen[i], expected[p]) /\ Same(seen[j], expected[q])
            /\ \A p \in DOMAIN expected : expected[p].kind \in Critical =>
                \E i \in DOMAIN seen : Same(seen[i], expected[p])

\* A stream that was opened ends, and a consumer that stays has then been told how: the task
\* neither outlives a consumer that left nor forgets one that is slow.
StreamConcludes ==
    (phase = "reading" /\ reader \in Codec) ~>
        (phase = "over" /\ (present => got # << >> /\ got[Len(got)].kind \in Terminal))
=============================================================================
