------------------------------ MODULE AgentLoop ------------------------------
(* The ReAct loop of lellm-agent: the graph build_react_graph makes, run by    *)
(* ToolUseLoop::invoke_stream with its channel of events, the LLM invoker with *)
(* its retries, the guards, the context compactor and, through ToolBatch, the  *)
(* execution of the tools.  invoke_with_checkpoint and invoke_durable run the  *)
(* same graph without a channel: the first saves the state after every node,   *)
(* the second the results of the tools too, and a run that died is taken up    *)
(* from what was saved (CheckpointRun and DurableRun say how that is kept).    *)
(*                                                                             *)
(*   budget_check -> llm | compactor;  compactor -> llm;  llm -> post_llm_check *)
(*   post_llm_check -> tool | end;     tool -> budget_check                    *)
(*                                                                             *)
(* A node records mutations and the run loop applies them when the node has    *)
(* succeeded, so what a failing node recorded is lost.  Texts, token counts    *)
(* and tool arguments are left out: whether the history is over its budget and *)
(* whether a token budget is exceeded are free choices.  A message keeps its   *)
(* role and, for an assistant and its results, which round it belongs to.      *)
EXTENDS ToolBatch

CONSTANTS
  Starts,         \* how a run may start: its messages and its entry point
  MaxIterations,  \* ToolUseConfig::max_iterations
  KeepTurns,      \* ContextBudget::keep_recent_turns
  MaxOpens,       \* attempts at opening a stream that invoker and fallback allow
  Buffer          \* capacity of the channel of events

ASSUME AgentLoopAssumption ==
  /\ MaxIterations \in Nat \ {0}
  /\ KeepTurns \in Nat
  /\ MaxOpens \in Nat \ {0}
  /\ Buffer \in Nat \ {0}

VARIABLES
  node,        \* where the run is: a node of the graph or a point inside one
  steps,       \* nodes begun, checked against MaxSteps
  iterations,  \* AgentState::iterations
  messages,    \* AgentState::messages
  response,    \* the tools the last response calls
  opens,       \* attempts at opening the stream of this round
  speakers,    \* history: the opens whose tokens this round has passed on
  outcome,     \* why the loop ended
  queued,      \* events in the channel
  terminal,    \* the terminal event: none, queued, received
  reading,     \* the consumer still holds its end of the channel
  restorable   \* invoke_with_checkpoint or invoke_durable: there is no channel

loopVars == <<node, steps, iterations, messages, response, opens, speakers, outcome>>
streamVars == <<queued, terminal, reading, restorable>>
vars == <<loopVars, streamVars, batchVars>>

\* The agent, its requests and the provider that answers them.
Wire == INSTANCE AgentSetup

MaxSteps == MaxIterations * (IF durable THEN 6 ELSE 4) + 1

Assistant(r, n) == [role |-> "assistant", round |-> r, n |-> n]
ResultOf(r, i) == [role |-> "result", round |-> r, n |-> i]
System == [role |-> "system", round |-> 0, n |-> 0]

-----------------------------------------------------------------------------
(* Events: AgentEventSink::emit never waits, the terminal event does.        *)

\* try_send of k events one after another: what finds no room is lost.
Emit(k) ==
  /\ queued' = IF ~reading THEN queued
               ELSE IF queued + k > Buffer THEN Buffer ELSE queued + k
  /\ UNCHANGED <<terminal, reading, restorable>>

Receive ==
  /\ reading
  /\ queued > 0
  /\ queued' = queued - 1
  /\ terminal' = IF terminal = "queued" /\ queued = 1 THEN "received" ELSE terminal
  /\ UNCHANGED <<reading, restorable, loopVars, batchVars>>

\* The consumer drops its end of the channel; nothing tells the loop.
Leave ==
  /\ reading
  /\ terminal # "received"
  /\ reading' = FALSE
  /\ queued' = 0
  /\ UNCHANGED <<terminal, restorable, loopVars, batchVars>>

\* Mutant: the terminal event is sent like the others.
FinishTries ==
  /\ node = "finished"
  /\ terminal = "none"
  /\ IF reading /\ queued < Buffer
       THEN queued' = queued + 1 /\ terminal' = "queued"
       ELSE terminal' = "refused" /\ UNCHANGED queued
  /\ UNCHANGED <<reading, restorable, loopVars, batchVars>>

\* send().await of LoopEnd or LoopError: waits for room, gives up on a closed
\* channel.
Finish ==
  /\ node = "finished"
  /\ terminal = "none"
  /\ \/ reading /\ queued < Buffer /\ queued' = queued + 1 /\ terminal' = "queued"
     \/ ~reading /\ terminal' = "refused" /\ UNCHANGED queued
  /\ UNCHANGED <<reading, restorable, loopVars, batchVars>>

-----------------------------------------------------------------------------
(* The compactor                                                             *)

IsSystem(m) == m.role = "system"
IsTalk(m) == m.role # "system"
Systems(ms) == Wire!Only(ms, {i \in DOMAIN ms : IsSystem(ms[i])})
Talk(ms) == Wire!Only(ms, {i \in DOMAIN ms : IsTalk(ms[i])})

\* extract_turns: an assistant with its results is one turn, a user message
\* begins one.  The positions at which the turns of a conversation begin.
TurnStarts(talk) ==
  {i \in DOMAIN talk : i = 1 \/ talk[i].role \in {"assistant", "user"}}

\* Mutant: the last KeepTurns messages stay, wherever their turns begin.
CompactByMessages(ms) ==
  LET talk == Talk(ms)
  IN IF Len(talk) <= KeepTurns
       THEN ms
       ELSE Append(Systems(ms), System)
              \o SubSeq(talk, Len(talk) - KeepTurns + 1, Len(talk))

\* LocalCompactor::compact: the messages of the last KeepTurns turns stay, the
\* others are told in one more system message.  What is shortened is never
\* silent, so there always is a summary.
Compact(ms) ==
  LET talk == Talk(ms)
      kept == {i \in DOMAIN talk :
                 Cardinality({t \in TurnStarts(talk) : t > i}) < KeepTurns}
  IN IF Cardinality(TurnStarts(talk)) <= KeepTurns
       THEN ms
       ELSE Append(Systems(ms), System)
              \o SubSeq(talk, Len(talk) - Cardinality(kept) + 1, Len(talk))

-----------------------------------------------------------------------------
(* The run                                                                   *)

Nodes == {"budget_check", "compactor", "llm", "post_llm_check", "tool"}

\* run_graph_loop begins node n, one step of the budget gone.
Enter(n) ==
  /\ node = n
  /\ steps < MaxSteps
  /\ steps' = steps + 1

End(why) ==
  /\ node' = "finished"
  /\ outcome' = why

Init ==
  /\ BatchInit
  /\ node = "start"
  /\ steps = 0
  /\ iterations = 0
  /\ \E s \in Starts : messages = s.messages /\ durable = s.durable /\ restorable = s.restorable
  /\ response = <<>>
  /\ opens = 0
  /\ speakers = {}
  /\ outcome = "running"
  /\ queued = 0
  /\ terminal = "none"
  /\ reading = ~restorable

\* build_request_messages_inner: an agent with a system prompt of its own puts
\* it first and refuses a history that already has one.
Prepare ==
  /\ node = "start"
  /\ \/ node' = "budget_check" /\ UNCHANGED <<messages, outcome>>
     \/ /\ \A i \in DOMAIN messages : IsTalk(messages[i])
        /\ messages' = <<System>> \o messages
        /\ node' = "budget_check"
        /\ UNCHANGED outcome
     \/ /\ \E i \in DOMAIN messages : IsSystem(messages[i])
        /\ End("Refused")
        /\ UNCHANGED messages
  /\ UNCHANGED <<steps, iterations, response, opens, speakers, streamVars, batchVars>>

StepsRunOut ==
  /\ node \in Nodes
  /\ steps >= MaxSteps
  /\ End("StepsExceeded")
  /\ UNCHANGED <<steps, iterations, messages, response, opens, speakers,
                 streamVars, batchVars>>

\* BudgetCondition
BudgetCheck ==
  /\ Enter("budget_check")
  /\ node' \in {"llm", "compactor"}
  /\ UNCHANGED <<iterations, messages, response, opens, speakers, outcome,
                 streamVars, batchVars>>

\* CompactorNode: the history is as BudgetCondition found it, over its budget;
\* it is replaced only if that makes it shorter.
Compactor ==
  /\ Enter("compactor")
  /\ node' = "llm"
  /\ messages' = IF Len(Compact(messages)) < Len(messages)
                   THEN Compact(messages) ELSE messages
  /\ UNCHANGED <<iterations, response, opens, speakers, outcome,
                 streamVars, batchVars>>

\* LLMNode: build the request, announce the round, try to open the stream.
AskLlm ==
  /\ Enter("llm")
  /\ node' = "opening"
  /\ opens' = 1
  /\ speakers' = {}
  /\ Emit(1)
  /\ UNCHANGED <<iterations, messages, response, outcome, batchVars>>

\* LlmInvoker::invoke_stream: an error of the fallback's retriable kind is
\* tried again, as often as both it and the invoker allow.
OpenFails ==
  /\ node = "opening"
  /\ \E e \in Wire!OpenErrors :
       IF Wire!IsRetriable(e) /\ opens < MaxOpens
         THEN opens' = opens + 1 /\ UNCHANGED <<node, outcome>>
         ELSE End("LlmFailed") /\ UNCHANGED opens
  /\ UNCHANGED <<steps, iterations, messages, response, speakers,
                 streamVars, batchVars>>

Opened ==
  /\ node = "opening"
  /\ node' = "streaming"
  /\ UNCHANGED <<steps, iterations, messages, response, opens, speakers, outcome,
                 streamVars, batchVars>>

\* A piece of text or thinking is passed on as it arrives.
Token ==
  /\ node = "streaming"
  /\ speakers' = speakers \union {opens}
  /\ Emit(1)
  /\ UNCHANGED <<node, steps, iterations, messages, response, opens, outcome, batchVars>>

\* Mutant: an error in an open stream is retried like one before it.
StreamFailsRetries ==
  /\ node = "streaming"
  /\ IF opens < MaxOpens
       THEN node' = "opening" /\ opens' = opens + 1 /\ UNCHANGED outcome
       ELSE End("LlmFailed") /\ UNCHANGED opens
  /\ UNCHANGED <<steps, iterations, messages, response, speakers,
                 streamVars, batchVars>>

\* An error in an open stream ends the run; what LLMNode recorded is lost.
StreamFails ==
  /\ node = "streaming"
  /\ End("LlmFailed")
  /\ UNCHANGED <<steps, iterations, messages, response, opens, speakers,
                 streamVars, batchVars>>

\* The stream is over: the mutations of LLMNode are committed.  A stream that
\* ends without ResponseComplete gives a response that calls nothing.  The
\* response is kept only until its calls are executed: nothing reads it later.
StreamEnds ==
  /\ node = "streaming"
  /\ \E cs \in CallLists \union {<<>>} :
       /\ response' = cs
       /\ messages' = Append(messages, Assistant(iterations + 1, Len(cs)))
  /\ iterations' = iterations + 1
  /\ node' = "post_llm_check"
  /\ opens' = 0
  /\ speakers' = {}
  /\ UNCHANGED <<steps, outcome, streamVars, batchVars>>

\* PostLLMGuard, in the order of its checks.
PostLlmCheck ==
  /\ Enter("post_llm_check")
  /\ IF iterations >= MaxIterations
       THEN End("MaxIterationsReached")
       ELSE \/ End("BudgetExceeded")
            \/ response # <<>> /\ node' = "tool" /\ UNCHANGED outcome
            \/ response = <<>> /\ End("Complete")
  /\ UNCHANGED <<iterations, messages, response, opens, speakers,
                 streamVars, batchVars>>

\* ToolNode: announce every call, then hand them to the executor, ...
ToolBegin ==
  /\ Enter("tool")
  /\ node' = "batch"
  /\ IF InBatch THEN Reopen ELSE Begin(response)
  /\ Emit(Len(response))
  /\ UNCHANGED <<iterations, messages, response, opens, speakers, outcome>>

\* ... whose tasks run them, ...
ToolStep ==
  /\ node = "batch"
  /\ \E i \in Calls : CallStep(i)
  /\ UNCHANGED <<loopVars, streamVars>>

\* ... then tell every result and append them in the order of the calls.
ToolEnd ==
  /\ node = "batch"
  /\ Collect
  /\ messages' = messages \o [i \in Calls |-> ResultOf(iterations, i)]
  /\ node' = "budget_check"
  /\ response' = <<>>
  /\ Emit(Len(calls))
  /\ UNCHANGED <<steps, iterations, opens, speakers, outcome>>

\* The executor of a durable run returns an error, which ends the process but not the run.
ToolFails ==
  /\ node = "batch"
  /\ GiveUp
  /\ node' = "tool"
  /\ steps' = steps - 1
  /\ UNCHANGED <<iterations, messages, response, opens, speakers, outcome, streamVars>>

\* The node a run that is interrupted is restored at: the one it is in.
InterruptedNode == IF node \in {"opening", "streaming", "finished"} THEN "llm"
                   ELSE IF node = "batch" THEN "tool" ELSE node

\* The process dies, or the provider fails, and the host restores the run: what a node
\* recorded before it was interrupted is lost, and its step is not counted.  Before the
\* first node has ended nothing is saved, and the host begins again.
Restore ==
  /\ restorable
  /\ node \notin {"start", "finished"} \/ outcome = "LlmFailed"
  /\ node = "budget_check" => iterations > 0
  /\ Die
  /\ node' = InterruptedNode
  /\ steps' = IF node \in Nodes THEN steps ELSE steps - 1
  /\ opens' = 0
  /\ speakers' = {}
  /\ outcome' = "running"
  /\ UNCHANGED <<iterations, messages, response, streamVars>>

Resolve ==
  /\ node = "tool"
  /\ \E i \in Calls : Reconcile(i)
  /\ UNCHANGED <<loopVars, streamVars>>

ToolsChange ==
  /\ node # "finished"
  /\ CatalogChange
  /\ UNCHANGED <<loopVars, streamVars>>

\* The steps the runtime takes by itself once the provider and the tools answer.
LoopStep ==
  \/ Prepare \/ StepsRunOut \/ BudgetCheck \/ Compactor \/ AskLlm \/ OpenFails \/ Opened
  \/ StreamFails \/ StreamEnds \/ PostLlmCheck
  \/ ToolBegin \/ ToolStep \/ ToolEnd \/ ToolFails \/ Finish

Next == LoopStep \/ Token \/ ToolsChange \/ Receive \/ Leave \/ Restore \/ Resolve

\* The task of the loop is scheduled, streams and tools end, a consumer that has not left
\* keeps reading, and a host resumes a durable run, whose unknown calls somebody resolves.
Fairness == WF_vars(LoopStep) /\ WF_vars(Receive) /\ WF_vars(Resolve)

Spec == Init /\ [][Next]_vars /\ Fairness

-----------------------------------------------------------------------------
(* Properties                                                                *)

Outcomes == {"running", "Complete", "MaxIterationsReached", "BudgetExceeded",
             "StepsExceeded", "LlmFailed", "Refused"}

TypeOK ==
  /\ BatchTypeOK
  /\ node \in Nodes \union {"start", "opening", "streaming", "batch", "finished"}
  /\ steps \in 0..MaxSteps
  /\ iterations \in 0..MaxIterations
  /\ messages \in Seq([role : {"system", "user", "assistant", "result"},
                       round : 0..MaxIterations, n : Nat])
  /\ response \in CallLists \union {<<>>}
  /\ opens \in 0..MaxOpens
  /\ speakers \subseteq 1..MaxOpens
  /\ outcome \in Outcomes
  /\ queued \in 0..Buffer
  /\ terminal \in {"none", "queued", "received", "refused"}
  /\ reading \in BOOLEAN
  /\ restorable \in BOOLEAN

\* The consumer sees the tokens of one stream per round: once something was
\* passed on, no retry begins the answer again.
TokensOnce == Cardinality(speakers) <= 1

\* The provider answers at most MaxIterations times, and the run says that it
\* hit the limit only then.
LimitIsTold ==
  /\ iterations <= MaxIterations
  /\ outcome = "MaxIterationsReached" => iterations = MaxIterations
  /\ outcome = "Complete" => iterations < MaxIterations

\* A consumer that keeps reading is told how the loop ended, however many of
\* the other events the full channel swallowed; one that left stops nothing,
\* and the loop still ends.  So does a run that is restored, unless it waits for a tool
\* that the catalogue no longer has.
Told == node = "finished" /\ (terminal = "received" \/ ~reading)
ToolIsGone == durable /\ \E i \in Calls : calls[i] \notin catalog
RunConcludes == <>[](Told \/ ToolIsGone)
=============================================================================
