------------------------------ MODULE GraphStream ------------------------------
(***************************************************************************)
(* A graph run with an event stream and barriers, without a durable record:  *)
(* run_execution_loop with its ChannelBarrierSink, and the client that holds  *)
(* the GraphExecution, that is the receiver of the events and the GraphHandle  *)
(* which decides barriers and cancels.                                        *)
(*                                                                         *)
(* The run and the client share three bounded channels and nothing else.      *)
(* Deciding never waits here: MaxSends is below the channel's capacity.       *)
(* Modify takes the way of Approve, for the run loop applies no decision to    *)
(* the state.  An operator marked "mutant of" is used by no action.            *)
(***************************************************************************)
EXTENDS Naturals, Sequences, FiniteSets

CONSTANTS
    Node, Barrier,  \* the nodes of the graph, its BarrierNodes among them
    End,            \* next = None
    Stray,          \* names a decision may reroute to although no node has them
    Reroute,        \* the targets of Reroute decisions
    Entry, Route,   \* Graph::start_node, and what routing may choose after a node
    Timed,          \* barriers with a timeout
    Rejects,        \* barriers whose default_action is Reject
    RejectTarget,   \* reject_target of a barrier, End without one
    MaxSteps,
    Buffer,         \* capacity of the event channel
    MaxSends,       \* bound on different decisions
    MaxShift        \* bound on how often earlier runs passed a barrier

ASSUME GraphAssumption ==
    /\ Barrier \subseteq Node /\ End \notin Node /\ Entry \in Node
    /\ Route \in [Node -> SUBSET (Node \cup {End})]
    /\ Reroute \subseteq Node \cup Stray
    /\ Timed \subseteq Barrier /\ Rejects \subseteq Timed
    /\ RejectTarget \in [Barrier -> Node \cup {End}]
    /\ MaxSteps \in Nat /\ Buffer \in Nat \ {0} /\ MaxSends \in Nat /\ MaxShift \in Nat

Target == Node \cup Stray
Decision ==
    {[kind |-> k, target |-> End] : k \in {"Approve", "Reject"}} \cup
    [kind : {"Reroute"}, target : Reroute]
NoDecision == [kind |-> "none", target |-> End]
BarrierId == [node : Barrier, occurrence : Nat]

\* BarrierDecisionMessage: for one BarrierId, or for every occurrence of a node.
Exact(id, d) == [kind |-> "Exact", id |-> id, decision |-> d]
Wildcard(n, d) == [kind |-> "Wildcard", id |-> [node |-> n, occurrence |-> 0], decision |-> d]
Message == [kind : {"Exact", "Wildcard"}, id : BarrierId, decision : Decision]

VARIABLES
    pc, node, step, \* where the run stands
    counter,   \* occurrence_counter of each barrier, which all runs of the graph share
    cache,     \* wildcard_cache
    outcome,   \* how the run ended
    decisions, \* the decision channel
    cancel,    \* the client has cancelled
    handle,    \* the client holds the GraphHandle
    events,    \* how many events the event channel holds
    reading,   \* the client holds its receiver
    last,      \* the last event, GraphError or GraphComplete: none, queued, received
    sent,      \* history: the decisions sent
    passed     \* history: the barriers left, with the decision, NoDecision for a timeout

vars == <<pc, node, step, counter, cache, outcome, decisions, cancel, handle, events,
          reading, last, sent, passed>>
client == <<cancel, handle, reading, sent>>

Init ==
    /\ pc = "top" /\ node = Entry /\ step = 0
    /\ counter \in [Barrier -> 0 .. MaxShift]
    /\ cache = [n \in Barrier |-> NoDecision]
    /\ outcome = "running" /\ decisions = << >> /\ cancel = FALSE /\ handle = TRUE
    /\ events = 1 /\ reading = TRUE /\ last = "none"
    /\ sent = {} /\ passed = {}

-----------------------------------------------------------------------------
(* The event channel.  try_send drops what finds no room.                   *)

TrySend(k) ==
    events' = IF ~reading THEN 0 ELSE IF events + k <= Buffer THEN events + k ELSE Buffer

-----------------------------------------------------------------------------
(* The run loop.                                                            *)

Fail(why) ==
    /\ pc' = "failing" /\ outcome' = why
    /\ UNCHANGED <<node, step>>

\* next is decided: complete, or go on.
Advance(n) ==
    /\ IF n = End THEN pc' = "completing" /\ node' = node ELSE pc' = "top" /\ node' = n
    /\ UNCHANGED <<step, outcome>>

\* The budget, the lookup of the node and on_node_start.
Top ==
    /\ pc = "top"
    /\ IF step + 1 > MaxSteps THEN Fail("StepsExceeded") /\ UNCHANGED events
       ELSE IF node \notin Node THEN Fail("NodeNotFound") /\ UNCHANGED events
       ELSE /\ pc' = "execute" /\ step' = step + 1
            /\ TrySend(1)
            /\ UNCHANGED <<node, outcome>>
    /\ UNCHANGED <<counter, cache, decisions, client, last, passed>>

\* A node without a barrier runs and routing chooses the next.
Execute ==
    /\ pc = "execute" /\ node \notin Barrier
    /\ TrySend(1)
    /\ \E n \in Route[node] : Advance(n)
    /\ UNCHANGED <<counter, cache, decisions, client, last, passed>>
NodeFails ==
    /\ pc = "execute" /\ node \notin Barrier
    /\ TrySend(1)
    /\ Fail("NodeFailed")
    /\ UNCHANGED <<counter, cache, decisions, client, last, passed>>

\* BarrierNode::execute numbers the pause, on_barrier_waiting announces it.
NextCount(b) == counter[b] + 1
Pause ==
    /\ pc = "execute" /\ node \in Barrier
    /\ TrySend(2)
    /\ counter' = [counter EXCEPT ![node] = NextCount(node)]
    /\ pc' = "waiting"
    /\ UNCHANGED <<node, step, cache, outcome, decisions, client, last, passed>>

-----------------------------------------------------------------------------
(* Waiting for a decision: ChannelBarrierSink::wait_decision.  One poll of its *)
(* select is one step: what the client does between the polls of two channels   *)
(* could as well come before or after, for its own steps do not read the run's.  *)

Paused == [node |-> node, occurrence |-> counter[node] - 1]

\* mutant of Matches
MatchesNode(m, id) == m.id.node = id.node
\* Exact messages name an occurrence, wildcards a node.
Matches(m, id) ==
    /\ m.id.node = id.node
    /\ m.kind = "Exact" => m.id = id

\* Where a decision, or the default action after a timeout, leads.
Follow(d) ==
    IF d.kind = "Reject" \/ (d = NoDecision /\ node \in Rejects)
    THEN Advance(RejectTarget[node])
    ELSE IF d.kind = "Reroute" THEN Advance(d.target)
    ELSE \E n \in Route[node] : Advance(n)

Pass(d) ==
    /\ passed' = passed \cup {[id |-> Paused, decision |-> d]}
    /\ Follow(d)

FromCache ==
    /\ pc = "waiting" /\ cache[node] # NoDecision
    /\ Pass(cache[node])
    /\ UNCHANGED <<counter, cache, decisions, client, events, last>>

\* mutant of CancelReady: the token is not taken from a channel whose sender is gone
CancelReadyIfHeld == cancel /\ handle
\* cancel_rx is polled first, and a dropped handle closes it.
CancelReady == cancel \/ ~handle
Cancelled ==
    /\ pc = "waiting" /\ cache[node] = NoDecision /\ CancelReady
    /\ Fail("BarrierCancelled")
    /\ UNCHANGED <<counter, cache, decisions, client, events, last, passed>>

\* A wildcard is kept for every later occurrence.
Cached(m) ==
    IF m.kind = "Wildcard" THEN [cache EXCEPT ![m.id.node] = m.decision] ELSE cache
Decided ==
    /\ pc = "waiting" /\ cache[node] = NoDecision /\ ~CancelReady
    /\ decisions # << >> /\ Matches(Head(decisions), Paused)
    /\ Pass(Head(decisions).decision)
    /\ cache' = Cached(Head(decisions))
    /\ decisions' = Tail(decisions)
    /\ UNCHANGED <<counter, client, events, last>>

\* Any other message goes to pending_queue and the wait ends as if cancelled.  The run
\* ends with it, so that no wait ever finds a message in the queue.
Mismatched ==
    /\ pc = "waiting" /\ cache[node] = NoDecision /\ ~CancelReady
    /\ decisions # << >> /\ ~Matches(Head(decisions), Paused)
    /\ Fail("BarrierCancelled")
    /\ decisions' = Tail(decisions)
    /\ UNCHANGED <<counter, cache, client, events, last, passed>>

\* The sleep is polled last.
TimesOut ==
    /\ pc = "waiting" /\ node \in Timed /\ cache[node] = NoDecision
    /\ ~CancelReady /\ decisions = << >>
    /\ Pass(NoDecision)
    /\ UNCHANGED <<counter, cache, decisions, client, events, last>>

-----------------------------------------------------------------------------
(* The end of run_execution_loop.                                           *)

\* GraphComplete is tried, and lost when it finds no room; GraphError is awaited.
Room == reading /\ events < Buffer
Completes ==
    /\ pc = "completing"
    /\ TrySend(1)
    /\ last' = IF Room THEN "queued" ELSE "none"
    /\ pc' = "finished" /\ outcome' = "Complete"
    /\ UNCHANGED <<node, step, counter, cache, decisions, client, passed>>
\* mutant of ErrorFits
ErrorIsTried == TRUE
ErrorFits == ~reading \/ Room
Errs ==
    /\ pc = "failing" /\ ErrorFits
    /\ TrySend(1)
    /\ last' = IF Room THEN "queued" ELSE "none"
    /\ pc' = "finished"
    /\ UNCHANGED <<node, step, outcome, counter, cache, decisions, client, passed>>

LoopStep ==
    \/ Top \/ Execute \/ Pause \/ FromCache \/ Cancelled \/ Decided \/ Mismatched \/ TimesOut
    \/ Completes \/ Errs

-----------------------------------------------------------------------------
(* The client.  It may name any BarrierId, ahead of its barrier or after it. *)

run == <<pc, node, step, counter, cache, outcome, passed>>

Send(m) ==
    /\ handle /\ pc # "finished" /\ Len(decisions) < MaxSends
    /\ Cardinality(sent \cup {m}) <= MaxSends
    /\ decisions' = Append(decisions, m) /\ sent' = sent \cup {m}
    /\ UNCHANGED <<run, cancel, handle, events, reading, last>>

\* GraphHandle::cancel leaves its token in the channel until a wait takes it.
Cancel ==
    /\ handle /\ ~cancel
    /\ cancel' = TRUE
    /\ UNCHANGED <<run, decisions, handle, events, reading, last, sent>>
DropHandle ==
    /\ handle
    /\ handle' = FALSE
    /\ UNCHANGED <<run, decisions, cancel, events, reading, last, sent>>

Receive ==
    /\ reading /\ events > 0
    /\ events' = events - 1
    /\ last' = IF events = 1 /\ last = "queued" THEN "received" ELSE last
    /\ UNCHANGED <<run, decisions, cancel, handle, reading, sent>>
Leave ==
    /\ reading
    /\ reading' = FALSE /\ events' = 0
    /\ UNCHANGED <<run, decisions, cancel, handle, last, sent>>

-----------------------------------------------------------------------------
\* A client may name the next occurrence before it comes.
MayDecide(n) == 0 .. counter[n]
Client ==
    \/ \E n \in Barrier, d \in Decision :
          \/ Send(Wildcard(n, d))
          \/ \E k \in MayDecide(n) : Send(Exact([node |-> n, occurrence |-> k], d))
    \/ Cancel \/ DropHandle \/ Receive \/ Leave
Next == LoopStep \/ NodeFails \/ Client

Spec == Init /\ [][Next]_vars

\* The run is scheduled, its nodes end and its timers fire; a client that holds the
\* receiver reads it.  Nobody has to decide anything.
Fairness == WF_vars(LoopStep) /\ WF_vars(Receive)
FairSpec == Spec /\ Fairness

-----------------------------------------------------------------------------
(* Properties.                                                             *)

\* Every variable stays within its type.
TypeOK ==
    /\ pc \in {"top", "execute", "waiting", "completing", "failing", "finished"}
    /\ node \in Target /\ step \in 0 .. MaxSteps
    /\ counter \in [Barrier -> Nat] /\ cache \in [Barrier -> Decision \cup {NoDecision}]
    /\ outcome \in {"running", "Complete", "StepsExceeded", "NodeNotFound", "NodeFailed",
                     "BarrierCancelled"}
    /\ decisions \in Seq(Message)
    /\ cancel \in BOOLEAN /\ handle \in BOOLEAN /\ reading \in BOOLEAN /\ events \in 0 .. Buffer
    /\ last \in {"none", "queued", "received"}
    /\ sent \subseteq Message
    /\ passed \subseteq [id : BarrierId, decision : Decision \cup {NoDecision}]
    /\ pc \in {"execute", "waiting"} => node \in Node
    /\ pc = "waiting" => node \in Barrier

\* m answers the pause id.
SentFor(m, id) == m.id.node = id.node /\ (m.kind = "Wildcard" \/ m.id = id)

\* Every pause is left at most once, under a decision sent for that very occurrence or
\* for all of its node, or by its timeout: the late answer to one occurrence, the early
\* answer to another, a second answer and a cached wildcard included.
DecidedByItsOwn ==
    \A x \in passed :
        /\ IF x.decision = NoDecision THEN x.id.node \in Timed
           ELSE \E m \in sent : SentFor(m, x.id) /\ m.decision = x.decision
        /\ \A y \in passed : x.id = y.id => x = y

\* A run that is cancelled ends, even at a barrier without a timeout, with decisions it never
\* reads, and when the handle is dropped after its token was sent.  Of a handle that is only
\* dropped nothing is said: the code takes that for a cancellation (barrier_sink.rs:218), and
\* docs/v02-graph-design.md:501 says that it is none.
CancelEnds == cancel ~> pc = "finished"

\* The error of a run reaches a client that reads, however full the channel is.
ErrorIsTold == pc = "failing" ~> last = "received" \/ ~reading

=============================================================================
