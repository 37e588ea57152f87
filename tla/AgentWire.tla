------------------------------ MODULE AgentWire ------------------------------
(* What a provider is sent of a run of AgentLoop: LLMNode makes a request of   *)
(* the history, validate_request checks it and the codec of the provider puts  *)
(* it into a body (Codecs, AgentSetup).                                        *)
EXTENDS AgentLoop

CONSTANTS
  Agent,       \* the agent of the run, as AgentSetup builds one
  CallId,      \* the id of the i-th call of a round
  Function     \* and the function it names

Vendors == {"openai", "anthropic", "google"}

\* What the model says beside its calls, and thinks: nothing or something.
Words == {"", "text"}

\* A history in which the calls of every assistant message have their results right behind
\* it, one by one in their order, and there is no other result.
HistoryMessage ==
  [role : {"system", "user", "assistant", "result"}, round : 0..MaxIterations, n : 0..MaxCalls]
Complete(ms, i) ==
  ms[i].role = "assistant" =>
    \A k \in 1..ms[i].n : i + k \in DOMAIN ms /\ ms[i + k] = ResultOf(ms[i].round, k)
Asked(ms, i) ==
  ms[i].role = "result" =>
    \E j \in 1..i - 1 : ms[j].role = "assistant" /\ i - j \in 1..ms[j].n
HistoryPaired(ms) == \A i \in DOMAIN ms : Complete(ms, i) /\ Asked(ms, i)

\* The caller's history is one that a provider takes, no call lacks its id or its function,
\* and the model can do what the agent asks for.
ASSUME AgentWireAssumption ==
  /\ \A s \in Starts : s.messages \in Seq(HistoryMessage) /\ HistoryPaired(s.messages)
  /\ \A r \in 0..MaxIterations, i \in 1..MaxCalls : CallId[r][i] # "" /\ Function[i] # ""
  /\ \A v \in Vendors :
       LET can == Wire!Capabilities(v, Agent.model)
       IN /\ Wire!Option(Agent, "reasoning", "disabled") # "disabled" => can.reasoning
          /\ Wire!Offered(Agent) # <<>> => can.tool_call

-----------------------------------------------------------------------------
(* The history as lellm-core has it.                                         *)

\* Google gives no ids: a call is known by its function, and the functions of one
\* response differ here.
Call(v, r, i) ==
  Wire!ToolCall(IF v = "google" THEN Function[i] ELSE CallId[r][i], Function[i], <<>>)

CallsOf(v, m) == [k \in 1..m.n |-> Call(v, m.round, k)]

Said(v, m, said) ==
  CASE m.role = "system"    -> Wire!SystemText("text")
    [] m.role = "user"      -> Wire!UserText("text")
    [] m.role = "assistant" -> Wire!Answered(CallsOf(v, m), said, said)
    [] OTHER                -> Wire!ToolResult(Call(v, m.round, m.n), TRUE, "text")

Chat(v, said) == [i \in DOMAIN messages |-> Said(v, messages[i], said)]

Request(v, said) == Wire!BuildRequest(Agent, Chat(v, said), Wire!Offered(Agent), iterations + 1)

\* Whatever batches with panics, retries and unknown tools, whatever restarts
\* and compactions the history has been through, and whether the model speaks
\* beside its calls or not: the request passes the checks of every provider, and
\* in the body each codec makes of it every call has exactly its result behind it.
WireIsPaired ==
  node \in {"llm", "opening", "streaming"} =>
    \A v \in Vendors, said \in Words :
      /\ Wire!Refusals(v, Request(v, said)) = {}
      /\ Wire!Paired(v, Wire!Encode(v, Request(v, said)).turns)
=============================================================================
