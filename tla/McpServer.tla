------------------------------ MODULE McpServer ------------------------------
(***************************************************************************)
(* A SimpleMcp server and the clients that call it, over one of the three     *)
(* ways it runs: run_stdio, which takes one line after the other; run_http,    *)
(* a task for each POST; run_sse, where a tool runs inside the POST that asks    *)
(* for it and the answers of all sessions go over one lossy broadcast channel.   *)
(*                                                                         *)
(* A client's own bookkeeping (its Mutex, its pending table) is the subject of   *)
(* McpTransport; here a client has one call at a time, and counts its ids from 1. *)
(* An operator marked "mutant of" is used by no action.                        *)
(***************************************************************************)
EXTENDS Naturals, Sequences, FiniteSets, FiniteSetsExt, SequencesExt

CONSTANTS
    Client, Parent, \* Parent spawned the server that serves over stdio
    MaxRequests,    \* bound on the calls of all clients
    MaxSessions,    \* bound on the streams the clients open
    Capacity        \* of the broadcast channel: 1024 in run_sse

ASSUME ServerAssumption ==
    /\ Parent \in Client /\ IsFiniteSet(Client)
    /\ MaxRequests \in Nat /\ MaxSessions \in Nat
    /\ Capacity \in Nat \ {0}

\* "plain" is a method answered from the server's own fields (initialize, server/discover,
\* tools/list, ping); "tool" calls a tool of the server, "nosuch" one it does not have,
\* "refused" is another method, or tools/call with other params.
Ask == {"plain", "tool", "nosuch", "refused"}

Code == {"-32601", "-32602", "-32603"}
Answer == {"result", "ok", "failed"} \cup Code
NoAnswer == "none"

\* How a call ends without an answer: its timer, its pending entry drained, an error of
\* reqwest, a broken pipe or reset connection, another error of a write.
Failure == {"timeout", "disconnected", "http", "broken", "io"}

VARIABLES
    serving,   \* "stdio", "http" or "sse"
    alive,     \* the process that serves over stdio has not left its loop
    work,      \* requests the server has received; over stdio, lines in its pipe
    ran,       \* history: <<client, id, how>> of the tools that ran
    call,      \* of each client: id, what it asked, how it ended, or that it is still
               \* "posting" (SSE: the POST has not returned) or "waiting"
    held,      \* of each client: what its oneshot was sent while it was still posting
    log,       \* everything ever sent over the broadcast channel
    counter,   \* numbers of sessions
    stream,    \* of each client: state, session, next message
    skipped    \* history: <<client, id>> of the answers a lagging session passed over

outcome == <<call, held>>
requests == <<work, ran, outcome>>
streams == <<log, counter, stream, skipped>>
serverVars == <<serving, alive, requests, streams>>

Idle == [id |-> 0, ask |-> "plain", end |-> "result"]
NoStream == [state |-> "none", sid |-> 0, next |-> 1]

ServerInit ==
    /\ serving \in {"stdio", "http", "sse"} /\ alive = TRUE
    /\ work = << >> /\ ran = {}
    /\ call = [c \in Client |-> Idle] /\ held = [c \in Client |-> NoAnswer]
    /\ log = << >> /\ counter = 1 /\ stream = [c \in Client |-> NoStream]
    /\ skipped = {}

-----------------------------------------------------------------------------
(* Requests.                                                                *)

Awaits(c) == call[c].end \in {"posting", "waiting"}
MayCall(c) == CASE serving = "stdio" -> c = Parent
                [] serving = "http"  -> TRUE
                [] serving = "sse"   -> stream[c].state = "open"

Calls == MapThenSumSet(LAMBDA c : call[c].id, Client)

\* McpClient::build_request, and what is written or posted.
Asks(c, ask, end) ==
    /\ MayCall(c) /\ ~Awaits(c) /\ Calls < MaxRequests
    /\ call' = [call EXCEPT ![c] = [id |-> @.id + 1, ask |-> ask, end |-> end]]
    /\ held' = [held EXCEPT ![c] = NoAnswer]
    /\ UNCHANGED <<serving, alive, ran, streams>>
Sent(c, ask) == Append(work, [from |-> c, sid |-> stream[c].sid, id |-> call[c].id + 1,
                              ask |-> ask, answer |-> NoAnswer])

Request(c, ask) ==
    /\ alive
    /\ Asks(c, ask, IF serving = "sse" THEN "posting" ELSE "waiting")
    /\ work' = Sent(c, ask)

\* A write over stdio fails; the line may be in the pipe all the same.
WriteFails(ask) ==
    /\ serving = "stdio"
    /\ \E end \in {"broken", "io"} : Asks(Parent, ask, end)
    /\ work' \in {work} \cup IF alive THEN {Sent(Parent, ask)} ELSE {}

\* A line that is no request, a notification among them, or one cut off.
Noise ==
    /\ serving = "stdio" /\ alive /\ Len(work) < MaxRequests
    /\ work' = Append(work, [from |-> Parent, sid |-> 0, id |-> 0, ask |-> "noise",
                             answer |-> NoAnswer])
    /\ UNCHANGED <<serving, alive, ran, outcome, streams>>

\* The timer of a stdio or SSE request fires.  HTTP's is reqwest's own: it ends as a lost
\* connection does, in TransportError::Http, and so does a failed POST of SSE.
GiveUp(c) ==
    /\ Awaits(c)
    /\ call' = [call EXCEPT ![c].end =
                    IF serving = "http" \/ @ = "posting" THEN "http" ELSE "timeout"]
    /\ UNCHANGED <<serving, alive, work, ran, held, streams>>

\* handle_request.  (mutant of Handled: an unknown method is ignored)
HandledIfKnown(ask) ==
    CASE ask = "plain" -> {"result"} [] ask = "tool" -> {"ok", "failed"} [] OTHER -> {}
Handled(ask) ==
    CASE ask = "plain"   -> {"result"}
      [] ask = "tool"    -> {"ok", "failed"}
      [] ask = "nosuch"  -> {"-32603"}
      [] ask = "refused" -> {"-32601", "-32602"}

\* The requests that are handled now.
Current == IF serving = "stdio" THEN {1} \cap DOMAIN work ELSE DOMAIN work

Handle(i) ==
    /\ i \in Current /\ work[i].answer = NoAnswer /\ work[i].ask # "noise"
    /\ \E a \in Handled(work[i].ask) :
          /\ work' = [work EXCEPT ![i].answer = a]
          /\ ran' = IF work[i].ask = "tool" THEN ran \cup {<<work[i].from, work[i].id, a>>} ELSE ran
    /\ UNCHANGED <<serving, alive, outcome, streams>>
Ignore(i) ==
    /\ i \in Current /\ work[i].ask = "noise"
    /\ work' = RemoveAt(work, i)
    /\ UNCHANGED <<serving, alive, ran, outcome, streams>>

\* The pending entry: its oneshot is made before the POST and read when that has returned.
\* (mutant of Keeps: the entry is made when the POST has returned)
KeepsNothing(c) == FALSE
Keeps(c) == call[c].end = "posting" /\ held[c] = NoAnswer

\* What comes of an answer, or of a drained entry; it is dropped if nobody waits for its id.
Told(c, id, a) ==
    /\ call' = IF call[c].id = id /\ call[c].end = "waiting" THEN [call EXCEPT ![c].end = a]
               ELSE call
    /\ held' = IF call[c].id = id /\ Keeps(c) THEN [held EXCEPT ![c] = a] ELSE held

Reply(i) ==
    LET r == work[i]
    IN /\ i \in Current /\ r.answer # NoAnswer
       /\ work' = RemoveAt(work, i)
       /\ IF serving = "sse"
          THEN log' = Append(log, [to |-> r.sid, id |-> r.id, answer |-> r.answer])
               /\ UNCHANGED outcome
          ELSE Told(r.from, r.id, r.answer) /\ UNCHANGED log
       /\ UNCHANGED <<serving, alive, ran, counter, stream, skipped>>

\* The POST of SSE returns once the server is done with it; the client then waits for
\* its oneshot, which may have been sent already.
InWork(c) == \E i \in DOMAIN work : work[i].from = c /\ work[i].id = call[c].id
Accepted(c) ==
    /\ call[c].end = "posting" /\ ~InWork(c)
    /\ call' = [call EXCEPT ![c].end = IF held[c] = NoAnswer THEN "waiting" ELSE held[c]]
    /\ UNCHANGED <<serving, alive, work, ran, held, streams>>

\* The connection of a client that gave up goes, and with it the task that serves it.
Cancelled(i) ==
    /\ serving # "stdio" /\ i \in DOMAIN work
    /\ call[work[i].from].id > work[i].id \/ ~Awaits(work[i].from)
    /\ work' = RemoveAt(work, i)
    /\ UNCHANGED <<serving, alive, ran, outcome, streams>>

\* End of file, a line that is not UTF-8, or a write nobody reads.
Ends ==
    /\ serving = "stdio" /\ alive
    /\ alive' = FALSE /\ work' = << >>
    /\ Told(Parent, call[Parent].id, "disconnected")
    /\ UNCHANGED <<serving, ran, streams>>

-----------------------------------------------------------------------------
(* Sessions of run_sse.                                                     *)

\* handle_sse_get: the session subscribes to the channel, and takes its number.
OpenStream(c) ==
    /\ serving = "sse" /\ counter <= MaxSessions /\ ~Awaits(c)
    /\ stream[c].state \in {"none", "left"}
    /\ stream' = [stream EXCEPT ![c] = [state |-> "made", sid |-> counter,
                                        next |-> Len(log) + 1]]
    /\ counter' = counter + 1
    /\ UNCHANGED <<serving, alive, requests, log, skipped>>

\* The first event of a session names the endpoint it posts to.
Acknowledge(c) ==
    /\ stream[c].state = "made"
    /\ stream' = [stream EXCEPT ![c].state = "open"]
    /\ UNCHANGED <<serving, alive, requests, log, counter, skipped>>

Oldest == IF Len(log) > Capacity THEN Len(log) - Capacity + 1 ELSE 1

\* RecvError::Lagged: the session goes on with the oldest message there still is.
Skip(c) ==
    /\ stream[c].state = "open" /\ stream[c].next < Oldest
    /\ stream' = [stream EXCEPT ![c].next = Oldest]
    /\ skipped' = skipped \cup {<<c, log[i].id>> : i \in {j \in stream[c].next .. Oldest - 1 :
                                                            log[j].to = stream[c].sid}}
    /\ UNCHANGED <<serving, alive, requests, log, counter>>

\* handle_sse_get: the message of another session is passed over.
\* (mutant of Mine: every message is taken)
MineAll(c, m) == TRUE
Mine(c, m) == m.to = stream[c].sid
Receive(c) ==
    /\ stream[c].state = "open" /\ stream[c].next \in Oldest .. Len(log)
    /\ stream' = [stream EXCEPT ![c].next = @ + 1]
    /\ LET m == log[stream[c].next]
       IN IF Mine(c, m) THEN Told(c, m.id, m.answer) ELSE UNCHANGED outcome
    /\ UNCHANGED <<serving, alive, work, ran, log, counter, skipped>>

\* The client closes its stream, or loses it; the reader drains what is pending.
CloseStream(c) ==
    /\ stream[c].state \in {"made", "open"}
    /\ stream' = [stream EXCEPT ![c].state = "left"]
    /\ Told(c, call[c].id, "disconnected")
    /\ UNCHANGED <<serving, alive, work, ran, log, counter, skipped>>

Serve(i) == Handle(i) \/ Ignore(i) \/ Reply(i)
Flow(c) == Acknowledge(c) \/ Skip(c) \/ Receive(c)
ServerNext ==
    \/ Noise \/ Ends
    \/ \E a \in Ask : WriteFails(a) \/ \E c \in Client : Request(c, a)
    \/ \E c \in Client : GiveUp(c) \/ Accepted(c) \/ OpenStream(c) \/ CloseStream(c) \/ Flow(c)
    \/ \E i \in DOMAIN work : Serve(i) \/ Cancelled(i)

ServerSpec == ServerInit /\ [][ServerNext]_serverVars

\* The tasks of the server are polled, its tools return, a POST it has answered returns,
\* and a stream is read on.
ServerFairness ==
    /\ \A i \in 1 .. MaxRequests : WF_serverVars(i \in DOMAIN work /\ Serve(i))
    /\ \A c \in Client : WF_serverVars(Flow(c)) /\ WF_serverVars(Accepted(c))
FairServerSpec == ServerSpec /\ ServerFairness

-----------------------------------------------------------------------------
(* Properties.                                                             *)

Outcome == Answer \cup Failure \cup {"posting", "waiting"}
CallState == [id : Nat, ask : Ask, end : Outcome]
WorkItem == [from : Client, sid : Nat, id : Nat, ask : Ask \cup {"noise"},
             answer : Answer \cup {NoAnswer}]
Broadcast == [to : Nat, id : Nat, answer : Answer]
StreamState == [state : {"none", "made", "open", "left"}, sid : Nat, next : Nat \ {0}]
ServerTypes ==
    /\ serving \in {"stdio", "http", "sse"} /\ alive \in BOOLEAN
    /\ work \in Seq(WorkItem) /\ log \in Seq(Broadcast)
    /\ ran \subseteq Client \X Nat \X Answer /\ skipped \subseteq Client \X Nat
    /\ call \in [Client -> CallState]
    /\ held \in [Client -> Answer \cup {NoAnswer, "disconnected"}]
    /\ stream \in [Client -> StreamState] /\ counter \in Nat \ {0}

\* McpError::retry_disposition of how a call ended.
Disposition(end) ==
    CASE end \in {"disconnected", "broken"} -> "Reconnect"
      [] end = "timeout"                    -> "Immediate"
      [] end \in {"http", "io", "-32603"}   -> "Backoff"
      [] OTHER                              -> "Never"
\* make_tool_entry: what the agent that called the tool is told.
ToolResult(end) ==
    CASE end = "ok"           -> "Ok"
      [] end = "timeout"      -> "Timeout"
      [] end = "disconnected" -> "Network"
      [] OTHER                -> "Internal"

\* Sessions share a channel and their clients count ids alike, yet a caller is told what came
\* of its own request: a value only if the tool ran for it and returned one, a failure of the
\* tool only if it ran and failed, an error code only if no tool ran; and what it is told
\* never to retry did nothing else than it says (handler.rs:469, catalog.rs:247, error.rs:112).
\* Of the other ends, Backoff included, none says whether the tool ran.
OutcomeIsOwn ==
    \A c \in Client :
        LET end == call[c].end
            did == {r \in ran : r[1] = c /\ r[2] = call[c].id}
        IN call[c].id > 0 =>
            /\ ToolResult(end) = "Ok" => <<c, call[c].id, "ok">> \in did
            /\ end = "failed" => <<c, call[c].id, "failed">> \in did
            /\ end = "result" => call[c].ask = "plain"
            /\ end \in Code => did = {}
            /\ Disposition(end) = "Never" /\ ~Awaits(c) => did \subseteq {<<c, call[c].id, end>>}

\* A caller that awaits an answer is never left with nothing to come: its request is with the
\* server, or its answer is ahead of its session on the channel, or was passed over by a lag,
\* or came while the POST had not yet returned and is held (sse.rs:285, :314, handler.rs:467).
OnItsWay(c) == \E i \in stream[c].next .. Len(log) : log[i].to = stream[c].sid
                                                   /\ log[i].id = call[c].id
AnswerIsKept ==
    \A c \in Client : Awaits(c) =>
        \/ InWork(c) \/ OnItsWay(c) \/ <<c, call[c].id>> \in skipped
        \/ call[c].end = "posting" /\ held[c] # NoAnswer

\* A call is answered if its tool returns, over every transport, whatever else is on the wire;
\* over the deprecated one unless the session lagged past its answer (handler.rs:275, :483).
AnswerComes ==
    \A c \in Client : Awaits(c) ~> ~Awaits(c) \/ <<c, call[c].id>> \in skipped
=============================================================================
