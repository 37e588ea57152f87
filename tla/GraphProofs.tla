------------------------------ MODULE GraphProofs ------------------------------
(***************************************************************************)
(* Theorems about a graph from its builder to its end: GraphStream, for every  *)
(* graph, budget and client, and GraphBuild, for every graph that can be built. *)
(* Each specification has its own variables and constants; the last part of    *)
(* this module is about GraphBuild.                                          *)
(***************************************************************************)
EXTENDS GraphStream, GraphBuild, FiniteSetTheorems, WellFoundedInduction, TLAPS

\* What waits in the channel or in the cache was sent.
ChannelSent == \A i \in 1 .. Len(decisions) : decisions[i] \in sent
CacheSent ==
    \A n \in Barrier : cache[n] # NoDecision =>
        \E m \in sent : m.kind = "Wildcard" /\ m.id.node = n /\ m.decision = cache[n]

\* The counter of a barrier is ahead of the occurrences it has left, and one that is
\* waited for is not among them.
Counted == \A x \in passed : x.id.occurrence < counter[x.id.node]
Fresh == pc = "waiting" => counter[node] > 0 /\ \A x \in passed : x.id # Paused

IInv == TypeOK /\ ChannelSent /\ CacheSent /\ Counted /\ Fresh /\ DecidedByItsOwn

LEMMA Initially == Init => IInv
<1> SUFFICES ASSUME Init PROVE IInv
  OBVIOUS
<1>1. counter \in [Barrier -> Nat]
  BY GraphAssumption DEF Init
<1>2. cache \in [Barrier -> Decision \cup {NoDecision}]
  BY DEF Init
<1>3. decisions \in Seq(Message) /\ node \in Target /\ events \in 0 .. Buffer
      /\ step \in 0 .. MaxSteps
  BY GraphAssumption DEF Init, Target
<1>4. TypeOK
  BY <1>1, <1>2, <1>3 DEF Init, TypeOK
<1>5. ChannelSent /\ CacheSent /\ Counted /\ Fresh /\ DecidedByItsOwn
  BY DEF Init, ChannelSent, CacheSent, Counted, Fresh, DecidedByItsOwn
<1> QED
  BY <1>4, <1>5 DEF IInv

-----------------------------------------------------------------------------
(* Steps of the run.                                                        *)

LEMMA NoDecisionIsNone == NoDecision \notin Decision
BY DEF NoDecision, Decision

\* The event channel stays within its capacity.
LEMMA EventsFit ==
    ASSUME TypeOK, NEW k \in Nat, TrySend(k)
    PROVE  events' \in 0 .. Buffer
BY GraphAssumption DEF TypeOK, TrySend

\* A pause that ends under a decision sent for it, or by its timeout.
LEMMA PassKeeps ==
    ASSUME IInv, pc = "waiting", NEW d, Pass(d),
           d \in Decision => \E m \in sent : SentFor(m, Paused) /\ m.decision = d,
           d \in Decision \/ (d = NoDecision /\ node \in Timed),
           counter' = counter, sent' = sent
    PROVE  /\ pc' \in {"top", "completing"} /\ node' \in Target
           /\ step' = step /\ outcome' = outcome
           /\ passed' \subseteq [id : BarrierId, decision : Decision \cup {NoDecision}]
           /\ Counted' /\ DecidedByItsOwn'
<1>1. Paused \in BarrierId
  BY DEF IInv, TypeOK, Fresh, Paused, BarrierId
<1>2. /\ Paused.node \in Barrier /\ Paused.node = node
      /\ Paused.occurrence = counter[node] - 1 /\ counter[node] \in Nat
  BY DEF IInv, TypeOK, Paused
<1>3. passed' = passed \cup {[id |-> Paused, decision |-> d]}
  BY DEF Pass
<1>4. passed' \subseteq [id : BarrierId, decision : Decision \cup {NoDecision}]
  BY <1>1, <1>3 DEF IInv, TypeOK
<1>5. Counted'
  BY <1>2, <1>3 DEF IInv, Counted
<1>6. DecidedByItsOwn'
  <2>1. ASSUME NEW x \in passed'
        PROVE  IF x.decision = NoDecision THEN x.id.node \in Timed
               ELSE \E m \in sent : SentFor(m, x.id) /\ m.decision = x.decision
    BY <1>2, <1>3, NoDecisionIsNone DEF IInv, DecidedByItsOwn
  <2>2. ASSUME NEW x \in passed', NEW y \in passed', x.id = y.id  PROVE x = y
    BY <1>3, <2>2 DEF IInv, DecidedByItsOwn, Fresh
  <2> QED
    BY <2>1, <2>2 DEF DecidedByItsOwn
<1>7. /\ pc' \in {"top", "completing"} /\ node' \in Target
      /\ step' = step /\ outcome' = outcome
  BY GraphAssumption, NoDecisionIsNone
  DEF Pass, Follow, Advance, Target, IInv, TypeOK, Decision, NoDecision
<1> QED
  BY <1>4, <1>5, <1>6, <1>7

\* What the run does outside of a wait.
LEMMA WalkKeeps ==
    ASSUME IInv, Top \/ Execute \/ NodeFails \/ Completes \/ Errs
    PROVE  IInv'
<1>1. UNCHANGED <<counter, cache, decisions, cancel, handle, reading, sent, passed>>
  BY DEF Top, Execute, NodeFails, Completes, Errs, client
<1>2. events' \in 0 .. Buffer
  BY EventsFit DEF IInv, TypeOK, Top, Execute, NodeFails, Completes, Errs
<1>3. pc' \in {"top", "execute", "completing", "failing", "finished"}
  BY DEF Top, Execute, NodeFails, Completes, Errs, Fail, Advance
<1>4. node' \in Target /\ step' \in 0 .. MaxSteps /\ (pc' = "execute" => node' \in Node)
  BY GraphAssumption
  DEF IInv, TypeOK, Top, Execute, NodeFails, Completes, Errs, Fail, Advance, Target
<1>5. /\ outcome' \in {"running", "Complete", "StepsExceeded", "NodeNotFound", "NodeFailed",
                       "BarrierCancelled"}
      /\ last' \in {"none", "queued", "received"}
  BY DEF IInv, TypeOK, Top, Execute, NodeFails, Completes, Errs, Fail, Advance
<1>6. TypeOK'
  BY <1>1, <1>2, <1>3, <1>4, <1>5 DEF IInv, TypeOK
<1>7. (ChannelSent /\ CacheSent /\ Counted /\ DecidedByItsOwn)'
  BY <1>1 DEF IInv, ChannelSent, CacheSent, Counted, DecidedByItsOwn
<1>8. Fresh'
  BY <1>3 DEF Fresh
<1> QED
  BY <1>6, <1>7, <1>8 DEF IInv

\* A pause takes the next number.
LEMMA PauseKeeps == ASSUME IInv, Pause PROVE IInv'
<1>1. UNCHANGED <<node, step, cache, outcome, decisions, cancel, handle, reading, sent, last,
                  passed>>
  BY DEF Pause, client
<1>2. events' \in 0 .. Buffer
  BY EventsFit DEF IInv, Pause
<1>3. /\ pc' = "waiting" /\ node \in Barrier
      /\ counter' = [counter EXCEPT ![node] = counter[node] + 1]
  BY DEF Pause, NextCount
<1>4. /\ counter' \in [Barrier -> Nat]
      /\ counter'[node] = counter[node] + 1
      /\ \A n \in Barrier : counter'[n] >= counter[n]
  BY <1>3 DEF IInv, TypeOK
<1>5. TypeOK'
  BY <1>1, <1>2, <1>3, <1>4, GraphAssumption DEF IInv, TypeOK
<1>6. \A x \in passed : /\ x.id.node \in Barrier /\ x.id.occurrence \in Nat
                        /\ x.id.occurrence < counter[x.id.node]
  BY DEF IInv, TypeOK, Counted, BarrierId
<1>7. Counted'
  BY <1>1, <1>4, <1>6 DEF Counted, IInv, TypeOK
<1>8. Fresh'
  <2>1. Paused'.node = node /\ Paused'.occurrence = counter[node]
    BY <1>1, <1>3, <1>4 DEF Paused, IInv, TypeOK
  <2>2. \A x \in passed : x.id # Paused'
    BY <1>3, <1>6, <2>1 DEF IInv, TypeOK
  <2> QED
    BY <1>1, <1>3, <1>4, <2>2 DEF Fresh, IInv, TypeOK
<1>9. (ChannelSent /\ CacheSent /\ DecidedByItsOwn)'
  BY <1>1 DEF IInv, ChannelSent, CacheSent, DecidedByItsOwn
<1> QED
  BY <1>5, <1>7, <1>8, <1>9 DEF IInv

\* The first message of the channel leaves it.
LEMMA TakesFirst ==
    ASSUME IInv, decisions # << >>, decisions' = Tail(decisions), sent' = sent
    PROVE  /\ Head(decisions) \in sent /\ Head(decisions) \in Message
           /\ decisions' \in Seq(Message) /\ ChannelSent'
BY DEF IInv, TypeOK, ChannelSent

\* A wait that ends in a decision.
LEMMA PassedKeeps == ASSUME IInv, FromCache \/ Decided \/ TimesOut PROVE IInv'
<1>1. /\ UNCHANGED <<counter, cancel, handle, reading, sent, events, last>>
      /\ pc = "waiting" /\ node \in Barrier
  BY DEF FromCache, Decided, TimesOut, client, IInv, TypeOK
<1>2. /\ pc' \in {"top", "completing"} /\ node' \in Target
      /\ step' = step /\ outcome' = outcome
      /\ passed' \subseteq [id : BarrierId, decision : Decision \cup {NoDecision}]
      /\ Counted' /\ DecidedByItsOwn'
  <2>1. CASE FromCache
    <3>1. cache[node] \in Decision /\ Pass(cache[node])
      BY <1>1, <2>1 DEF FromCache, IInv, TypeOK
    <3>2. \E m \in sent : SentFor(m, Paused) /\ m.decision = cache[node]
      BY <1>1, <2>1 DEF FromCache, IInv, CacheSent, SentFor, Paused
    <3> QED
      BY <1>1, <3>1, <3>2, PassKeeps
  <2>2. CASE Decided
    <3> DEFINE m == Head(decisions)
    <3>1. m \in sent /\ m \in Message /\ Matches(m, Paused) /\ Pass(m.decision)
      BY <1>1, <2>2, TakesFirst DEF Decided
    <3>2. SentFor(m, Paused) /\ m.decision \in Decision
      BY <3>1 DEF Matches, SentFor, Message
    <3> QED
      BY <1>1, <3>1, <3>2, PassKeeps
  <2>3. CASE TimesOut
    BY <1>1, <2>3, PassKeeps, NoDecisionIsNone DEF TimesOut
  <2> QED
    BY <2>1, <2>2, <2>3
<1>3. /\ cache' \in [Barrier -> Decision \cup {NoDecision}] /\ CacheSent'
      /\ decisions' \in Seq(Message) /\ ChannelSent'
  <2>1. CASE UNCHANGED <<cache, decisions>>
    BY <1>1, <2>1 DEF IInv, TypeOK, CacheSent, ChannelSent
  <2>2. CASE Decided
    <3> DEFINE m == Head(decisions)
    <3>1. /\ m \in sent /\ m \in Message
          /\ decisions' \in Seq(Message) /\ ChannelSent'
      BY <1>1, <2>2, TakesFirst DEF Decided
    <3>2. cache' = IF m.kind = "Wildcard" THEN [cache EXCEPT ![m.id.node] = m.decision]
                   ELSE cache
      BY <2>2 DEF Decided, Cached
    <3>3. m.id.node \in Barrier /\ m.decision \in Decision
      BY <3>1 DEF Message, BarrierId
    <3> HIDE DEF m
    <3>4. cache' \in [Barrier -> Decision \cup {NoDecision}]
      BY <3>2, <3>3 DEF IInv, TypeOK
    <3>5. CacheSent'
      BY <1>1, <3>1, <3>2, <3>3 DEF IInv, TypeOK, CacheSent
    <3> QED
      BY <3>1, <3>4, <3>5
  <2> QED
    BY <2>1, <2>2 DEF FromCache, TimesOut
<1>4. TypeOK' /\ Fresh'
  BY <1>1, <1>2, <1>3 DEF IInv, TypeOK, Fresh
<1> QED
  BY <1>2, <1>3, <1>4 DEF IInv

\* A wait that ends as cancelled.
LEMMA CancelledKeeps == ASSUME IInv, Cancelled \/ Mismatched PROVE IInv'
<1>1. /\ UNCHANGED <<node, step, counter, cache, cancel, handle, reading, sent, events, last,
                     passed>>
      /\ pc' = "failing" /\ outcome' = "BarrierCancelled"
  BY DEF Cancelled, Mismatched, Fail, client
<1>2. decisions' \in Seq(Message) /\ ChannelSent'
  <2>1. CASE Cancelled
    BY <2>1, <1>1 DEF Cancelled, IInv, TypeOK, ChannelSent
  <2>2. CASE Mismatched
    BY <2>2, <1>1, TakesFirst DEF Mismatched
  <2> QED
    BY <2>1, <2>2
<1>3. TypeOK'
  BY <1>1, <1>2 DEF IInv, TypeOK
<1>4. (CacheSent /\ Counted /\ DecidedByItsOwn /\ Fresh)'
  BY <1>1 DEF IInv, CacheSent, Counted, DecidedByItsOwn, Fresh
<1> QED
  BY <1>2, <1>3, <1>4 DEF IInv

-----------------------------------------------------------------------------
(* Steps of the client.                                                     *)

\* What was sent only grows.
LEMMA SendKeeps == ASSUME IInv, NEW m \in Message, Send(m) PROVE IInv'
<1>1. /\ UNCHANGED <<pc, node, step, counter, cache, outcome, passed, cancel, handle, events,
                     reading, last>>
      /\ decisions' = Append(decisions, m) /\ sent' = sent \cup {m}
  BY DEF Send, run
<1>2. TypeOK'
  BY <1>1 DEF IInv, TypeOK
<1>3. ChannelSent'
  BY <1>1 DEF IInv, TypeOK, ChannelSent
<1>4. CacheSent'
  BY <1>1 DEF IInv, CacheSent
<1>5. DecidedByItsOwn'
  BY <1>1 DEF IInv, DecidedByItsOwn
<1>6. (Counted /\ Fresh)'
  BY <1>1 DEF IInv, Counted, Fresh, Paused
<1> QED
  BY <1>2, <1>3, <1>4, <1>5, <1>6 DEF IInv

LEMMA QuietKeeps ==
    ASSUME IInv, Cancel \/ DropHandle \/ Receive \/ Leave \/ UNCHANGED vars PROVE IInv'
<1>1. UNCHANGED <<pc, node, step, counter, cache, outcome, passed, decisions, sent>>
  BY DEF Cancel, DropHandle, Receive, Leave, vars, run
<1>2. /\ cancel' \in BOOLEAN /\ handle' \in BOOLEAN /\ reading' \in BOOLEAN
      /\ events' \in 0 .. Buffer /\ last' \in {"none", "queued", "received"}
  <2>1. CASE Cancel
    BY <2>1 DEF Cancel, IInv, TypeOK
  <2>2. CASE DropHandle
    BY <2>2 DEF DropHandle, IInv, TypeOK
  <2>3. CASE Receive
    <3>1. UNCHANGED <<cancel, handle, reading>>
      BY <2>3 DEF Receive
    <3>2. events' \in 0 .. Buffer /\ last' \in {"none", "queued", "received"}
      BY <2>3, GraphAssumption DEF Receive, IInv, TypeOK
    <3> QED
      BY <3>1, <3>2 DEF IInv, TypeOK
  <2>4. CASE Leave
    <3>1. UNCHANGED <<cancel, handle, last>> /\ reading' \in BOOLEAN /\ events' = 0
      BY <2>4 DEF Leave
    <3>2. events' \in 0 .. Buffer
      BY <3>1, GraphAssumption
    <3> QED
      BY <3>1, <3>2 DEF IInv, TypeOK
  <2>5. CASE UNCHANGED vars
    BY <2>5 DEF vars, IInv, TypeOK
  <2> QED
    BY <2>1, <2>2, <2>3, <2>4, <2>5
<1>3. TypeOK'
  BY <1>1, <1>2 DEF IInv, TypeOK
<1>4. (ChannelSent /\ CacheSent /\ Counted /\ DecidedByItsOwn /\ Fresh)'
  BY <1>1 DEF IInv, ChannelSent, CacheSent, Counted, DecidedByItsOwn, Fresh, Paused
<1> QED
  BY <1>3, <1>4 DEF IInv

LEMMA Inductive == ASSUME IInv, [Next]_vars PROVE IInv'
<1>1. CASE LoopStep \/ NodeFails
  BY <1>1, WalkKeeps, PauseKeeps, PassedKeeps, CancelledKeeps DEF LoopStep
<1>2. CASE Client
  <2>1. ASSUME NEW n \in Barrier, NEW d \in Decision, Send(Wildcard(n, d))  PROVE IInv'
    <3>1. Wildcard(n, d) \in Message
      BY DEF Wildcard, Message, BarrierId
    <3> QED
      BY <2>1, <3>1, SendKeeps
  <2>2. ASSUME NEW n \in Barrier, NEW d \in Decision, NEW k \in MayDecide(n),
               Send(Exact([node |-> n, occurrence |-> k], d))
        PROVE  IInv'
    <3>1. Exact([node |-> n, occurrence |-> k], d) \in Message
      BY DEF Exact, Message, BarrierId, MayDecide, IInv, TypeOK
    <3> QED
      BY <2>2, <3>1, SendKeeps
  <2> QED
    BY <1>2, <2>1, <2>2, QuietKeeps DEF Client
<1>3. CASE UNCHANGED vars
  BY <1>3, QuietKeeps
<1> QED
  BY <1>1, <1>2, <1>3 DEF Next

-----------------------------------------------------------------------------
\* The inductive invariant holds throughout.
THEOREM Invariance == Spec => []IInv
BY Initially, Inductive, PTL DEF Spec

\* In any graph, whatever a client sends early, late, twice or by wildcard, no pause is
\* left under a decision that was not sent for it, and none is left twice.
THEOREM OwnDecisions == Spec => []DecidedByItsOwn
<1>1. IInv => DecidedByItsOwn
  BY DEF IInv
<1> QED
  BY <1>1, Invariance, PTL

\* Every variable keeps its type.
THEOREM TypeCorrect == Spec => []TypeOK
<1>1. IInv => TypeOK
  BY DEF IInv
<1> QED
  BY <1>1, Invariance, PTL

-----------------------------------------------------------------------------
(***************************************************************************)
(* The builder and the run of what it built.  A graph that build() returned  *)
(* is whole: its start is a node, and its edges join nodes (Whole).  The run   *)
(* is on one of the nodes unless a leap led it elsewhere (OnGraph), every edge *)
(* it took, the one it is about to take included, is an edge of the graph it   *)
(* began with where build() computed the fingerprint (Followed), and it runs    *)
(* only where no declared barrier can be met without a handler (MayRun).      *)
(***************************************************************************)
Early == {"building", "MissingEntryPoint", "MissingExitPoint", "MissingNode",
          "InvalidEdgeDefinition"}
Going == {"built", "running", "restored"}
Via == EdgeKind \cup Leaps \cup {"start"}
Visit == [node : Name, via : Via]
Closing == {"complete", "failed", "InvalidGraph", "Unsupported", "BarrierHandlerMissing",
            "BarrierCancelled"}

AllKinds(ns) == \A n \in DOMAIN ns : ns[n] \in Kind
Whole(g) ==
    /\ DOMAIN g = {"nodes", "edges", "start", "end", "hash"}
    /\ DOMAIN g.nodes \subseteq Name /\ AllKinds(g.nodes)
    /\ g.edges \in Seq(Edge) /\ validate(g)

Shape ==
    /\ DOMAIN nodes \subseteq Name /\ AllKinds(nodes) /\ edges \in Seq(Edge)
    /\ via \in Via /\ path \in Seq(Visit)
    /\ phase \in Early => path = <<>> /\ via = "start"
    /\ phase \notin Early =>
          /\ Whole(graph) /\ Whole(origin)
          /\ origin.hash = None => Range(graph.edges) = Range(origin.edges)
          /\ graph.start = origin.start

MayRun ==
    /\ phase = "running" => Handled(graph, handler)
    /\ phase = "restored" => Persistable(graph)

OnGraph ==
    /\ phase \in Going /\ via \notin Leaps => at \in DOMAIN graph.nodes \/ phase = "built"
    /\ phase = "built" => path = <<>>
    /\ path = <<>> => via = "start" /\ (phase = "running" => at = graph.start)
    /\ phase \in Going /\ path # <<>> => via # "start"
    /\ path # <<>> => path[1].node = origin.start
    /\ \A i \in 2 .. Len(path) : path[i].via # "start"
    /\ phase = "restored" => path # <<>>
    /\ graph = origin => \A i \in DOMAIN path : path[i].node \in DOMAIN graph.nodes

Joins(g, m, n, k) == \E e \in Range(g.edges) : e.from = m /\ e.to = n /\ e.kind = k
Followed == graph = origin \/ origin.hash = None =>
    /\ \A i \in 2 .. Len(path) : path[i].via \in EdgeKind =>
          Joins(origin, path[i - 1].node, path[i].node, path[i].via)
    /\ phase \in Going /\ path # <<>> /\ via \in EdgeKind =>
          Joins(origin, path[Len(path)].node, at, via)

BuildInv == /\ Shape /\ MayRun /\ OnGraph /\ Followed
            /\ (phase = "NodeNotFound" => via \in Leaps) /\ DeclaredIsChecked

LEMMA BuildInitially == BuildInit => BuildInv
<1> SUFFICES ASSUME BuildInit PROVE BuildInv
  OBVIOUS
<1>1. DOMAIN nodes = {} /\ Len(path) = 0
  BY DEF BuildInit
<1>2. Shape
  BY <1>1 DEF BuildInit, Shape, Early, Via, AllKinds
<1> QED
  BY <1>1, <1>2 DEF BuildInit, BuildInv, MayRun, OnGraph, Followed, Going,
     DeclaredIsChecked

\* The builder's own calls, and the errors of build().
LEMMA BuilderKeeps ==
    ASSUME BuildInv, phase = "building", phase' \in Early,
           DOMAIN nodes' \subseteq Name, AllKinds(nodes'),
           edges' \in Seq(Edge),
           UNCHANGED <<graph, origin, handler, at, via, path>>
    PROVE  BuildInv'
<1>1. Shape'
  BY DEF BuildInv, Shape, Early
<1>2. MayRun' /\ OnGraph' /\ Followed'
  BY DEF BuildInv, Shape, MayRun, OnGraph, Followed, Early, Going
<1> QED
  BY <1>1, <1>2 DEF BuildInv, DeclaredIsChecked, Early

LEMMA AddNodeKeeps ==
    ASSUME BuildInv, NEW n \in Name, NEW k \in Kind, AddNode(n, k) PROVE BuildInv'
<1>1. DOMAIN nodes' = DOMAIN nodes \cup {n}
  BY DEF AddNode
<1>2. AllKinds(nodes')
  BY DEF AddNode, BuildInv, Shape, AllKinds
<1> QED
  BY <1>1, <1>2, BuilderKeeps DEF AddNode, Unbuilt, BuildInv, Shape, Early

LEMMA AddEdgeKeeps == ASSUME BuildInv, NEW e \in Edge, AddEdge(e) PROVE BuildInv'
<1>1. edges' \in Seq(Edge)
  BY DEF AddEdge, BuildInv, Shape
<1> QED
  BY <1>1, BuilderKeeps DEF AddEdge, Unbuilt, BuildInv, Shape, Early

LEMMA BuildKeeps ==
    ASSUME BuildInv, NEW s \in StartNode, NEW e \in EndNode, NEW h \in Hash, Build(s, e, h)
    PROVE  BuildInv'
<1> DEFINE g == [nodes |-> nodes, edges |-> edges, start |-> s, end |-> e, hash |-> h]
<1>1. DOMAIN nodes' \subseteq Name /\ AllKinds(nodes') /\ edges' \in Seq(Edge)
  BY DEF Build, AllKinds
<1>2. CASE None \notin {s, e} /\ validate(g)
  <2>1. /\ phase' = "built" /\ graph' = g /\ origin' = g
        /\ UNCHANGED <<handler, at, via, path>> /\ phase = "building"
    BY <1>2 DEF Build
  <2>2. g.nodes = nodes /\ g.edges = edges /\ DOMAIN g = {"nodes", "edges", "start", "end", "hash"}
    OBVIOUS
  <2> HIDE DEF g
  <2>3. Whole(g)
    BY <1>2, <2>2 DEF Whole, BuildInv, Shape
  <2>4. path = <<>> /\ via = "start"
    BY <2>1 DEF BuildInv, Shape, Early
  <2>5. Shape'
    BY <1>1, <2>1, <2>3, <2>4 DEF BuildInv, Shape, Early
  <2>6. MayRun' /\ OnGraph' /\ Followed'
    BY <2>1, <2>4 DEF BuildInv, MayRun, OnGraph, Followed, Going
  <2> QED
    BY <2>1, <2>5, <2>6 DEF BuildInv, DeclaredIsChecked
<1>3. CASE ~(None \notin {s, e} /\ validate(g))
  <2>1. phase' = BuildError(s, e) /\ UNCHANGED <<graph, origin, handler, at, via, path>>
        /\ phase = "building"
    BY <1>3 DEF Build
  <2>2. BuildError(s, e) \in Early
    BY DEF BuildError, Early
  <2> QED
    BY <1>1, <2>1, <2>2, BuilderKeeps
<1> QED
  BY <1>2, <1>3

LEMMA BeginKeeps == ASSUME BuildInv, NEW h \in BOOLEAN, Begin(h) PROVE BuildInv'
<1>1. /\ phase \in {"built", "restored"} /\ handler' = h
      /\ UNCHANGED <<nodes, edges, origin, graph, via, path>>
  BY DEF Begin, Built
<1>2. phase \notin Early /\ phase' \notin Early
  BY <1>1 DEF Begin, Early
<1>3. Shape'
  BY <1>1, <1>2 DEF BuildInv, Shape
<1>4. CASE Handled(graph, h)
  <2>1. phase' = "running" /\ (IF phase = "built" THEN at' = graph.start ELSE at' = at)
    BY <1>4 DEF Begin
  <2>2. graph.start \in DOMAIN graph.nodes
    BY <1>2 DEF BuildInv, Shape, Whole, validate
  <2>3. MayRun'
    BY <1>1, <1>4, <2>1 DEF MayRun
  <2>4. OnGraph'
    BY <1>1, <2>1, <2>2 DEF BuildInv, Shape, OnGraph, Going
  <2>5. Followed'
    BY <1>1, <2>1 DEF BuildInv, OnGraph, Followed, Going
  <2> QED
    BY <1>3, <2>1, <2>3, <2>4, <2>5 DEF BuildInv, DeclaredIsChecked
<1>5. CASE ~Handled(graph, h)
  <2>1. phase' = "BarrierHandlerMissing" /\ at' = at
    BY <1>5 DEF Begin
  <2>2. phase = "built"
    <3>1. SUFFICES ASSUME phase = "restored" PROVE FALSE
      BY <1>1
    <3>2. \A n \in DOMAIN graph.nodes : graph.nodes[n] \in Range(graph.nodes)
      BY DEF Range
    <3> QED
      BY <1>5, <3>1, <3>2 DEF BuildInv, MayRun, Persistable, Handled
  <2>3. path = <<>>
    BY <2>2 DEF BuildInv, OnGraph
  <2>4. MayRun' /\ OnGraph' /\ Followed' /\ DeclaredIsChecked'
    BY <1>1, <2>1, <2>3 DEF BuildInv, MayRun, OnGraph, Followed, Going, DeclaredIsChecked
  <2> QED
    BY <1>3, <2>1, <2>4 DEF BuildInv
<1> QED
  BY <1>4, <1>5

(* The least of a set of positions, as resolve_next takes it.               *)
LEMMA LeastExists ==
    ASSUME NEW T \in SUBSET Nat, T # {}
    PROVE  Least(T) \in T /\ \A y \in T : Least(T) <= y
<1> DEFINE R == OpToRel(<, Nat)
<1>1. IsWellFoundedOn(R, Nat)
  BY NatLessThanWellFounded
<1>2. \A x, y \in Nat : y < x => <<y, x>> \in R
  BY Zenon DEF OpToRel
<1> HIDE DEF R
<1>3. PICK x \in T : \A y \in T : ~ (<<y, x>> \in R)
  BY <1>1, WFMin
<1>4. \A y \in T : ~ (y < x)
  BY <1>2, <1>3
<1>5. \E i \in T : \A j \in T : i <= j
  BY <1>4
<1> QED
  BY <1>5 DEF Least

\* The edge that is followed is one of the graph's, out of the node that ended.
LEMMA ResolvedIsEdge ==
    ASSUME NEW g, g.edges \in Seq(Edge), NEW n, NEW holds \in SUBSET DOMAIN g.edges,
           resolve_next(g, n, holds) # 0
    PROVE  /\ resolve_next(g, n, holds) \in DOMAIN g.edges
           /\ g.edges[resolve_next(g, n, holds)].from = n
<1> DEFINE of(k) == {i \in DOMAIN g.edges : g.edges[i].from = n /\ g.edges[i].kind = k}
           met == of("if") \cap holds
<1>1. \A k : of(k) \in SUBSET Nat
  OBVIOUS
<1>2. \A k : of(k) # {} => Least(of(k)) \in of(k)
  BY <1>1, LeastExists
<1>3. met # {} => Least(met) \in met
  <2>1. met \in SUBSET Nat
    OBVIOUS
  <2> HIDE DEF met
  <2> QED
    BY <2>1, LeastExists
<1>4. resolve_next(g, n, holds) = IF met # {} THEN Least(met)
                                  ELSE IF of("normal") # {} THEN Least(of("normal"))
                                  ELSE IF of("fallback") # {} THEN Least(of("fallback")) ELSE 0
  BY DEF resolve_next
<1>5. CASE met # {}
  BY <1>3, <1>4, <1>5
<1>6. ASSUME NEW k, resolve_next(g, n, holds) = Least(of(k)), of(k) # {}
      PROVE  /\ resolve_next(g, n, holds) \in DOMAIN g.edges
             /\ g.edges[resolve_next(g, n, holds)].from = n
  <2>1. resolve_next(g, n, holds) \in of(k)
    BY <1>2, <1>6
  <2> QED
    BY <2>1
<1>7. CASE met = {}
  <2>1. \/ resolve_next(g, n, holds) = Least(of("normal")) /\ of("normal") # {}
        \/ resolve_next(g, n, holds) = Least(of("fallback")) /\ of("fallback") # {}
    <3> HIDE DEF of
    <3> QED
      BY <1>4, <1>7
  <2> QED
    BY <1>6, <2>1
<1> QED
  BY <1>5, <1>7

\* An edge of a whole graph leads to one of its nodes.
LEMMA EdgesStay ==
    ASSUME NEW g, Whole(g), NEW i \in DOMAIN g.edges
    PROVE  /\ g.edges[i] \in Edge /\ g.edges[i] \in Range(g.edges)
           /\ g.edges[i].from \in DOMAIN g.nodes /\ g.edges[i].to \in DOMAIN g.nodes
<1>1. g.edges[i] \in Edge
  BY DEF Whole
<1>2. g.edges[i] \in Range(g.edges)
  BY DEF Range
<1>3. i \notin Dangling(g.nodes, g.edges)
  BY DEF Whole, validate
<1> QED
  BY <1>1, <1>2, <1>3 DEF Dangling

LEMMA StepKeeps == ASSUME BuildInv, Step PROVE BuildInv'
<1>1. phase = "running" /\ UNCHANGED <<nodes, edges, origin, graph, handler>>
  BY DEF Step, Built
<1>2. phase \notin Early /\ phase \in Going
  BY <1>1 DEF Early, Going
<1>3. /\ Whole(graph)
      /\ graph = origin \/ origin.hash = None => Range(graph.edges) = Range(origin.edges)
      /\ path \in Seq(Visit) /\ via \in Via /\ Handled(graph, handler)
  BY <1>1, <1>2 DEF BuildInv, Shape, MayRun
<1>4. CASE Len(path) = StepLimit
  <2>1. phase' = "StepsExceeded" /\ UNCHANGED <<at, via, path>>
    BY <1>4 DEF Step, Stops
  <2>2. Shape' /\ MayRun' /\ OnGraph' /\ Followed' /\ DeclaredIsChecked'
    BY <1>1, <1>2, <2>1 DEF BuildInv, Shape, MayRun, OnGraph, Followed, Early, Going,
       DeclaredIsChecked
  <2> QED
    BY <2>1, <2>2 DEF BuildInv
<1>5. CASE Len(path) # StepLimit /\ at \notin DOMAIN graph.nodes
  <2>1. phase' = "NodeNotFound" /\ UNCHANGED <<at, via, path>>
    BY <1>5 DEF Step, Stops
  <2>2. Shape' /\ MayRun' /\ OnGraph' /\ Followed' /\ DeclaredIsChecked'
    BY <1>1, <1>2, <2>1 DEF BuildInv, Shape, MayRun, OnGraph, Followed, Early, Going,
       DeclaredIsChecked
  <2>3. via' \in Leaps
    BY <1>1, <1>2, <1>5, <2>1 DEF BuildInv, OnGraph
  <2> QED
    BY <2>1, <2>2, <2>3 DEF BuildInv
<1>6. CASE Len(path) # StepLimit /\ at \in DOMAIN graph.nodes
  <2> DEFINE v == [node |-> at, via |-> via]
  <2>1. path' = Append(path, v) /\ \E holds \in SUBSET DOMAIN graph.edges : Ends(holds)
    BY <1>6 DEF Step
  <2>2. v \in Visit /\ v.node = at /\ v.via = via
    BY <1>3, <1>6 DEF Visit, Whole
  <2> HIDE DEF v
  <2>3. /\ path' \in Seq(Visit) /\ Len(path') = Len(path) + 1 /\ path' # <<>>
        /\ path'[Len(path) + 1] = v /\ \A i \in DOMAIN path : path'[i] = path[i]
    BY <1>3, <2>1, <2>2
  <2>4. /\ graph.nodes[at] \in Kind /\ graph.nodes[at] # "Nested"
        /\ graph.nodes[at] = "Barrier" => handler
    BY <1>3, <1>6 DEF Whole, AllKinds, Handled
  <2>5. \/ \E n \in Name, how \in Leaps : Moves(n, how)
        \/ /\ phase' \in Closing /\ UNCHANGED <<at, via>>
           /\ phase' = "BarrierHandlerMissing" => graph.nodes[at] = "Task"
        \/ \E i \in DOMAIN graph.edges :
              graph.edges[i].from = at /\ Moves(graph.edges[i].to, graph.edges[i].kind)
    <3>1. PICK holds \in SUBSET DOMAIN graph.edges : Ends(holds)
      BY <2>1
    <3>2. CASE Follows(holds)
      <4>1. graph.edges \in Seq(Edge)
        BY <1>3 DEF Whole
      <4>2. CASE at = graph.end \/ resolve_next(graph, at, holds) = 0
        BY <3>2, <4>2 DEF Follows, Stops, Closing
      <4>3. CASE ~(at = graph.end \/ resolve_next(graph, at, holds) = 0)
        BY <3>2, <4>1, <4>3, ResolvedIsEdge DEF Follows
      <4> QED
        BY <4>2, <4>3
    <3>3. ASSUME NEW how \in Leaps, Leap(how) PROVE \E n \in Name, k \in Leaps : Moves(n, k)
      BY <3>3 DEF Leap
    <3>4. ASSUME NEW why \in Closing, Stops(why),
                 why = "BarrierHandlerMissing" => graph.nodes[at] = "Task"
          PROVE  /\ phase' \in Closing /\ UNCHANGED <<at, via>>
                 /\ phase' = "BarrierHandlerMissing" => graph.nodes[at] = "Task"
      BY <3>4 DEF Stops
    <3>5. {"goto", "reroute", "reject"} \subseteq Leaps
      BY DEF Leaps
    <3>6. {"complete", "failed", "Unsupported", "BarrierHandlerMissing", "BarrierCancelled"}
            \subseteq Closing
      BY DEF Closing
    <3>7. \/ Follows(holds) \/ Leap("goto") \/ Leap("reroute") \/ Leap("reject")
          \/ Stops("complete") \/ Stops("failed") \/ Stops("Unsupported")
          \/ Stops("BarrierCancelled")
          \/ Stops("BarrierHandlerMissing") /\ graph.nodes[at] = "Task"
      <4>1. CASE graph.nodes[at] = "Task"
        BY <3>1, <4>1 DEF Ends, TaskEnds
      <4>2. CASE graph.nodes[at] = "Condition"
        BY <3>1, <4>2 DEF Ends, ConditionEnds
      <4>3. CASE graph.nodes[at] = "Barrier"
        BY <2>4, <3>1, <4>3 DEF Ends, BarrierEnds
      <4> QED
        BY <2>4, <4>1, <4>2, <4>3 DEF Kind
    <3>8. CASE Leap("goto") \/ Leap("reroute") \/ Leap("reject")
      BY <3>3, <3>5, <3>8
    <3>9. CASE \/ Stops("complete") \/ Stops("failed") \/ Stops("Unsupported")
               \/ Stops("BarrierCancelled")
      BY <3>4, <3>6, <3>9
    <3>10. CASE Stops("BarrierHandlerMissing") /\ graph.nodes[at] = "Task"
      BY <3>4, <3>6, <3>10
    <3> QED
      BY <3>2, <3>7, <3>8, <3>9, <3>10
  <2>6. /\ via' \in Via /\ phase' \in Closing \cup {"running"}
        /\ phase' = "BarrierHandlerMissing" => graph.nodes[at] = "Task" /\ at' = at
        /\ phase' = "running" =>
              /\ via' # "start" /\ (via' \notin Leaps => at' \in DOMAIN graph.nodes)
              /\ (graph = origin \/ origin.hash = None) /\ via' \in EdgeKind
                    => Joins(origin, at, at', via')
    <3>1. CASE \E n \in Name, how \in Leaps : Moves(n, how)
      BY <1>1, <3>1 DEF Moves, Via, EdgeKind, Leaps
    <3>2. CASE /\ phase' \in Closing /\ UNCHANGED <<at, via>>
               /\ phase' = "BarrierHandlerMissing" => graph.nodes[at] = "Task"
      BY <1>3, <3>2 DEF Closing
    <3>3. ASSUME NEW i \in DOMAIN graph.edges, graph.edges[i].from = at,
                 Moves(graph.edges[i].to, graph.edges[i].kind)
          PROVE  <2>6
      <4>1. at' = graph.edges[i].to /\ via' = graph.edges[i].kind /\ phase' = phase
        BY <3>3 DEF Moves
      <4>2. /\ graph.edges[i] \in Edge
            /\ graph = origin \/ origin.hash = None => graph.edges[i] \in Range(origin.edges)
            /\ graph.edges[i].to \in DOMAIN graph.nodes
        BY <1>3, EdgesStay
      <4>3. via' \in EdgeKind
        BY <4>1, <4>2 DEF Edge
      <4>4. graph = origin \/ origin.hash = None => Joins(origin, at, at', via')
        BY <3>3, <4>1, <4>2 DEF Joins
      <4> QED
        BY <1>1, <4>1, <4>2, <4>3, <4>4 DEF Via, EdgeKind
    <3> QED
      BY <2>5, <3>1, <3>2, <3>3
  <2>7. phase' \notin Early /\ phase' # "NodeNotFound"
        /\ (phase' \in Going => phase' = "running")
    BY <2>6 DEF Early, Going, Closing
  <2>8. Shape'
    BY <1>1, <1>2, <2>3, <2>6, <2>7 DEF BuildInv, Shape
  <2>9. MayRun'
    BY <1>1, <1>3, <2>6 DEF MayRun, Closing
  <2>10. OnGraph'
    <3>1. path' # <<>> /\ (phase' \in Going /\ via' \notin Leaps => at' \in DOMAIN graph'.nodes)
          /\ (phase' \in Going => via' # "start") /\ phase' # "built"
      BY <1>1, <2>3, <2>6, <2>7 DEF Closing
    <3>2. path'[1].node = origin'.start
      <4>1. CASE path = <<>>
        BY <1>1, <1>2, <2>2, <2>3, <4>1 DEF BuildInv, Shape, OnGraph
      <4>2. CASE path # <<>>
        <5>1. 1 \in DOMAIN path
          BY <1>3, <4>2
        <5> QED
          BY <1>1, <2>3, <4>2, <5>1 DEF BuildInv, OnGraph
      <4> QED
        BY <4>1, <4>2
    <3>3. ASSUME graph' = origin'
          PROVE  \A i \in DOMAIN path' : path'[i].node \in DOMAIN graph'.nodes
      <4>0. graph = origin
        BY <1>1, <3>3
      <4> TAKE i \in DOMAIN path'
      <4>1. CASE i = Len(path) + 1
        BY <1>1, <1>6, <2>2, <2>3, <4>1
      <4>2. CASE i # Len(path) + 1
        <5>1. i \in DOMAIN path
          BY <1>3, <2>3, <4>2
        <5> QED
          BY <1>1, <2>3, <4>0, <5>1 DEF BuildInv, OnGraph
      <4> QED
        BY <4>1, <4>2
    <3>4. \A i \in 2 .. Len(path') : path'[i].via # "start"
      <4> TAKE i \in 2 .. Len(path')
      <4>1. CASE i = Len(path) + 1
        <5>1. path # <<>>
          BY <4>1
        <5> QED
          BY <1>2, <2>2, <2>3, <4>1, <5>1 DEF BuildInv, OnGraph
      <4>2. CASE i # Len(path) + 1
        <5>1. i \in DOMAIN path /\ i \in 2 .. Len(path)
          BY <1>3, <2>3, <4>2
        <5> QED
          BY <2>3, <5>1 DEF BuildInv, OnGraph
      <4> QED
        BY <4>1, <4>2
    <3>5. phase' # "restored"
      BY <2>6 DEF Closing
    <3> QED
      BY <3>1, <3>2, <3>3, <3>4, <3>5 DEF OnGraph
  <2>11. Followed'
    <3> SUFFICES ASSUME graph = origin \/ origin.hash = None
                 PROVE  /\ \A i \in 2 .. Len(path') : path'[i].via \in EdgeKind =>
                              Joins(origin, path'[i - 1].node, path'[i].node, path'[i].via)
                        /\ phase' \in Going /\ path' # <<>> /\ via' \in EdgeKind =>
                              Joins(origin, path'[Len(path')].node, at', via')
      BY <1>1 DEF Followed, Joins
    <3>1. path'[Len(path')].node = at
      BY <2>2, <2>3, <1>3
    <3>2. phase' \in Going /\ via' \in EdgeKind => Joins(origin, at, at', via')
      BY <2>6, <2>7
    <3>3. ASSUME NEW i \in 2 .. Len(path'), path'[i].via \in EdgeKind
          PROVE  Joins(origin, path'[i - 1].node, path'[i].node, path'[i].via)
      <4>1. i - 1 \in DOMAIN path /\ path'[i - 1] = path[i - 1]
        BY <1>3, <2>3
      <4>2. CASE i = Len(path) + 1
        <5>1. path # <<>> /\ Len(path) = i - 1
          BY <4>1, <4>2, <1>3
        <5> QED
          BY <1>2, <2>2, <2>3, <3>3, <4>1, <4>2, <5>1 DEF BuildInv, Followed
      <4>3. CASE i # Len(path) + 1
        <5>1. i \in 2 .. Len(path) /\ path'[i] = path[i]
          BY <1>3, <2>3, <4>3
        <5> QED
          BY <3>3, <4>1, <5>1 DEF BuildInv, Followed
      <4> QED
        BY <4>2, <4>3
    <3> QED
      BY <3>1, <3>2, <3>3
  <2>12. DeclaredIsChecked'
    BY <1>1, <2>6 DEF DeclaredIsChecked
  <2> QED
    BY <2>7, <2>8, <2>9, <2>10, <2>11, <2>12 DEF BuildInv
<1> QED
  BY <1>4, <1>5, <1>6

\* A variant has the start of the graph, and is whole as it is.
LEMMA VariantIsWhole ==
    ASSUME NEW h, Whole(h), NEW g \in Variant(h)
    PROVE  Whole(g) /\ g.start = h.start
<1>1. DOMAIN h = {"nodes", "edges", "start", "end", "hash"} /\ h.edges \in Seq(Edge)
      /\ DOMAIN h.nodes \subseteq Name /\ AllKinds(h.nodes)
  BY DEF Whole
<1>2. \A i \in DOMAIN h.edges : h.edges[i] \in Edge /\ h.edges[i].from \in DOMAIN h.nodes
                                /\ h.edges[i].to \in DOMAIN h.nodes
  BY EdgesStay
<1>3. {h.start, h.end} \subseteq DOMAIN h.nodes
  BY DEF Whole, validate
<1>4. CASE g = [h EXCEPT !.edges = Reverse(@)]
  <2>1. /\ g.edges = Reverse(h.edges) /\ g.nodes = h.nodes /\ g.start = h.start
        /\ g.end = h.end /\ DOMAIN g = DOMAIN h
    BY <1>1, <1>4
  <2>2. g.edges = [i \in 1 .. Len(h.edges) |-> h.edges[Len(h.edges) - i + 1]]
    BY <2>1 DEF Reverse
  <2>3. \A i \in 1 .. Len(h.edges) : Len(h.edges) - i + 1 \in DOMAIN h.edges
    BY <1>1
  <2>4. \A i \in 1 .. Len(h.edges) : /\ g.edges[i] \in Edge /\ g.edges[i].from \in DOMAIN h.nodes
                                     /\ g.edges[i].to \in DOMAIN h.nodes
    BY <1>2, <2>2, <2>3
  <2>5. g.edges \in Seq(Edge) /\ DOMAIN g.edges = 1 .. Len(h.edges)
    <3>1. Len(h.edges) \in Nat
      BY <1>1
    <3>2. g.edges \in [1 .. Len(h.edges) -> Edge]
      BY <2>2, <2>4
    <3> QED
      BY <3>1, <3>2
  <2>6. Dangling(g.nodes, g.edges) = {}
    BY <2>1, <2>4, <2>5 DEF Dangling
  <2> QED
    BY <1>1, <1>3, <2>1, <2>5, <2>6 DEF Whole, validate
<1>5. ASSUME NEW n \in DOMAIN h.nodes, g = [h EXCEPT !.end = n]
      PROVE  Whole(g) /\ g.start = h.start
  <2>1. /\ g.edges = h.edges /\ g.nodes = h.nodes /\ g.start = h.start
        /\ g.end = n /\ DOMAIN g = DOMAIN h
    BY <1>1, <1>5
  <2> QED
    BY <1>1, <1>3, <2>1 DEF Whole, validate
<1>6. ASSUME NEW j \in DOMAIN h.edges, NEW n \in DOMAIN h.nodes, g = [h EXCEPT !.edges[j].to = n]
      PROVE  Whole(g) /\ g.start = h.start
  <2>1. /\ g.edges = [h.edges EXCEPT ![j] = [h.edges[j] EXCEPT !.to = n]]
        /\ g.nodes = h.nodes /\ g.start = h.start
        /\ g.end = h.end /\ DOMAIN g = DOMAIN h
    BY <1>1, <1>6
  <2> DEFINE e == [h.edges[j] EXCEPT !.to = n]
  <2>2. e \in Edge /\ e.from = h.edges[j].from /\ e.to = n
    <3>1. h.edges[j] \in Edge /\ n \in Name
      BY <1>1, <1>2
    <3> QED
      BY <3>1 DEF Edge
  <2> HIDE DEF e
  <2>3. \A i \in DOMAIN h.edges : g.edges[i] = IF i = j THEN e ELSE h.edges[i]
    BY <2>1 DEF e
  <2>4. g.edges \in Seq(Edge) /\ DOMAIN g.edges = DOMAIN h.edges
    BY <1>1, <2>1, <2>2 DEF e
  <2>5. \A i \in DOMAIN g.edges : /\ g.edges[i].from \in DOMAIN h.nodes
                                  /\ g.edges[i].to \in DOMAIN h.nodes
    BY <1>2, <2>2, <2>3, <2>4
  <2>6. Dangling(g.nodes, g.edges) = {}
    BY <2>1, <2>5 DEF Dangling
  <2> QED
    BY <1>1, <1>3, <2>1, <2>4, <2>6 DEF Whole, validate
<1>7. ASSUME NEW n \in DOMAIN h.nodes, NEW k \in Kind, g = [h EXCEPT !.nodes[n] = k]
      PROVE  Whole(g) /\ g.start = h.start
  <2>1. /\ g.nodes = [h.nodes EXCEPT ![n] = k] /\ g.edges = h.edges /\ g.start = h.start
        /\ g.end = h.end /\ DOMAIN g = DOMAIN h
    BY <1>1, <1>7
  <2>2. DOMAIN g.nodes = DOMAIN h.nodes /\ AllKinds(g.nodes)
    BY <1>1, <2>1 DEF AllKinds
  <2>3. Dangling(g.nodes, g.edges) = {}
    BY <2>1, <2>2 DEF Whole, validate, Dangling
  <2> QED
    BY <1>1, <1>3, <2>1, <2>2, <2>3 DEF Whole, validate
<1>8. ASSUME NEW x \in Hash, g = [h EXCEPT !.hash = x]
      PROVE  Whole(g) /\ g.start = h.start
  <2>1. /\ g.nodes = h.nodes /\ g.edges = h.edges /\ g.start = h.start
        /\ g.end = h.end /\ DOMAIN g = DOMAIN h
    BY <1>1, <1>8
  <2> QED
    BY <1>1, <1>3, <2>1 DEF Whole, validate
<1>9. CASE g = [h EXCEPT !.nodes = [n \in DOMAIN @ \cap {h.start, h.end} |-> @[n]], !.edges = <<>>]
  <2> DEFINE ns == [n \in DOMAIN h.nodes \cap {h.start, h.end} |-> h.nodes[n]]
  <2>1. g = [[h EXCEPT !.nodes = ns] EXCEPT !.edges = <<>>]
    BY <1>1, <1>9
  <2>2. DOMAIN ns = {h.start, h.end} /\ AllKinds(ns)
    BY <1>1, <1>3 DEF AllKinds
  <2> HIDE DEF ns
  <2>3. /\ g.nodes = ns /\ g.edges = <<>> /\ g.start = h.start
        /\ g.end = h.end /\ DOMAIN g = DOMAIN h
    BY <1>1, <2>1
  <2>4. g.edges \in Seq(Edge) /\ Dangling(g.nodes, g.edges) = {}
    BY <2>3 DEF Dangling
  <2> QED
    BY <1>1, <1>3, <2>2, <2>3, <2>4 DEF Whole, validate
<1> QED
  BY <1>4, <1>5, <1>6, <1>7, <1>8, <1>9 DEF Variant

\* Graphs with one computed fingerprint have the same edges.
LEMMA SameEdges ==
    ASSUME NEW g, NEW h, g.edges \in Seq(Edge), h.edges \in Seq(Edge),
           Fingerprint(g) = Fingerprint(h), h.hash = None
    PROVE  Range(g.edges) = Range(h.edges)
<1> DEFINE shown(e) == <<e.from, e.to, e.kind>>
           shows(x) == {shown(e) : e \in Range(x.edges)}
           many(x) == [y \in shows(x) |-> Cardinality({i \in DOMAIN x.edges : shown(x.edges[i]) = y})]
<1>0. Structure(g) = Structure(h)
  <2>1. g.hash = h.hash
    BY DEF Fingerprint
  <2> QED
    BY <2>1 DEF Fingerprint
<1>1. Structure(g)[2] = many(g) /\ Structure(h)[2] = many(h)
  BY DEF Structure
<1>2. many(g) = many(h)
  <2> HIDE DEF many
  <2> QED
    BY <1>0, <1>1
<1>3. shows(g) = shows(h)
  <2>1. DOMAIN many(g) = shows(g) /\ DOMAIN many(h) = shows(h)
    OBVIOUS
  <2> HIDE DEF many, shows
  <2> QED
    BY <1>2, <2>1
<1>4. Range(g.edges) \subseteq Edge /\ Range(h.edges) \subseteq Edge
  BY DEF Range
<1>5. \A e, f \in Edge : shown(e) = shown(f) => e = f
  BY DEF Edge
<1> HIDE DEF shown
<1>6. ASSUME NEW e \in Range(g.edges) PROVE e \in Range(h.edges)
  <2>1. shown(e) \in shows(g)
    OBVIOUS
  <2>2. PICK f \in Range(h.edges) : shown(f) = shown(e)
    BY <1>3, <2>1
  <2> QED
    BY <1>4, <1>5, <2>2
<1>7. ASSUME NEW e \in Range(h.edges) PROVE e \in Range(g.edges)
  <2>1. shown(e) \in shows(h)
    OBVIOUS
  <2>2. PICK f \in Range(g.edges) : shown(f) = shown(e)
    BY <1>3, <2>1
  <2> QED
    BY <1>4, <1>5, <2>2
<1> QED
  BY <1>6, <1>7

LEMMA RestartKeeps ==
    ASSUME BuildInv, NEW g \in Variant(graph), Restart(g) PROVE BuildInv'
<1>1. /\ phase = "running" /\ path # <<>> /\ graph = origin /\ Persistable(graph)
      /\ phase' = validate_restore(g)
      /\ graph' = IF phase' = "restored" THEN g ELSE graph
      /\ UNCHANGED <<nodes, edges, origin, handler, at, via, path>>
  BY DEF Restart, Built
<1>2. phase \notin Early /\ phase \in Going
  BY <1>1 DEF Early, Going
<1>3. Whole(graph) /\ Whole(origin)
  BY <1>2 DEF BuildInv, Shape
<1>4. Whole(g) /\ g.start = graph.start
  BY <1>3, VariantIsWhole
<1>5. /\ phase' \in {"RestoreUnsupported", "RestoreGraphMismatch", "RestoreNodeNotFound",
                     "StepsExceeded", "restored"}
      /\ phase' = "restored" =>
            Fingerprint(g) = Fingerprint(graph) /\ at \in DOMAIN g.nodes /\ Persistable(g)
  BY <1>1 DEF validate_restore
<1>6. /\ Whole(graph') /\ graph'.start = origin.start
      /\ origin.hash = None => Range(graph'.edges) = Range(origin.edges)
  <2>1. CASE phase' = "restored"
    <3>1. graph' = g /\ g.edges \in Seq(Edge) /\ graph.edges \in Seq(Edge)
      BY <1>1, <1>3, <1>4, <2>1 DEF Whole
    <3>2. origin.hash = None => Range(g.edges) = Range(graph.edges)
      BY <1>1, <1>5, <2>1, <3>1, SameEdges
    <3> QED
      BY <1>1, <1>4, <3>1, <3>2
  <2>2. CASE phase' # "restored"
    BY <1>1, <1>3, <2>2
  <2> QED
    BY <2>1, <2>2
<1>7. Shape'
  BY <1>1, <1>2, <1>3, <1>5, <1>6 DEF BuildInv, Shape, Early
<1>8. MayRun'
  BY <1>1, <1>5 DEF MayRun
<1>9. OnGraph'
  <2>1. phase' \in Going => phase' = "restored" /\ at' \in DOMAIN graph'.nodes
    BY <1>1, <1>5 DEF Going
  <2>2. \A i \in DOMAIN path : path[i].node \in DOMAIN graph.nodes
    BY <1>1 DEF BuildInv, OnGraph
  <2>3. graph' = origin' => \A i \in DOMAIN path' : path'[i].node \in DOMAIN graph'.nodes
    BY <1>1, <2>2
  <2>4. phase' # "built" /\ phase' # "running"
    BY <1>5
  <2> QED
    BY <1>1, <1>2, <2>1, <2>3, <2>4 DEF BuildInv, OnGraph
<1>10. Followed'
  <2>1. phase' \in Going => phase \in Going
    BY <1>2
  <2> QED
    BY <1>1, <2>1 DEF BuildInv, Followed, Joins
<1>11. DeclaredIsChecked' /\ phase' # "NodeNotFound"
  BY <1>5 DEF DeclaredIsChecked
<1> QED
  BY <1>7, <1>8, <1>9, <1>10, <1>11 DEF BuildInv

LEMMA BuildInductive == BuildInv /\ [BuildNext]_buildVars => BuildInv'
<1> SUFFICES ASSUME BuildInv, [BuildNext]_buildVars PROVE BuildInv'
  OBVIOUS
<1>1. ASSUME NEW n \in Name, NEW k \in KindOf[n], AddNode(n, k) PROVE BuildInv'
  <2>1. k \in Kind
    BY BuildAssumption
  <2> QED
    BY <1>1, <2>1, AddNodeKeeps
<1>2. CASE UNCHANGED buildVars
  BY <1>2 DEF buildVars, BuildInv, Shape, MayRun, OnGraph, Followed, DeclaredIsChecked
<1> QED
  BY <1>1, <1>2, AddEdgeKeeps, BuildKeeps, BeginKeeps, StepKeeps, RestartKeeps DEF BuildNext

\* What holds of the builder's graph and of the run on it, throughout.
THEOREM BuildInvariance == BuildSpec => []BuildInv
BY BuildInitially, BuildInductive, PTL DEF BuildSpec

\* In any graph, a run that has executed a node ends for want of a handler only because a
\* Task paused: of declared barriers a run is asked before its first node, and a restored
\* graph, whose kinds may be others, once more.
THEOREM HandlersAreAskedForFirst == BuildSpec => []DeclaredIsChecked
<1>1. BuildInv => DeclaredIsChecked
  BY DEF BuildInv
<1> QED
  BY <1>1, BuildInvariance, PTL

\* Whatever variant of the graph is offered to a checkpoint, where build() computed the
\* fingerprint the run goes on along edges of the first graph, of the kind it had.
THEOREM RestoredRunsKeepEdges == BuildSpec => []RestoredKeepsEdges
<1>1. BuildInv => RestoredKeepsEdges
  BY DEF BuildInv, Followed, Joins, RestoredKeepsEdges
<1> QED
  BY <1>1, BuildInvariance, PTL

-----------------------------------------------------------------------------
(***************************************************************************)
(* What analyze() says, against the walk of a run along edges.               *)
(***************************************************************************)
LEMMA JoinedHasEdge ==
    ASSUME NEW g, g.edges \in Seq(Edge), NEW m, NEW n, NEW k, Joins(g, m, n, k)
    PROVE  HasEdge(g, m, n)
<1>1. PICK e \in Range(g.edges) : e.from = m /\ e.to = n
  BY DEF Joins
<1>2. PICK i \in DOMAIN g.edges : e = g.edges[i]
  BY <1>1 DEF Range
<1> QED
  BY <1>1, <1>2 DEF HasEdge

\* A run that has followed edges only has not left what is reached from the start.
LEMMA WalkIsReached ==
    ASSUME BuildInv, phase \notin Early, graph = origin, ByEdges(1, Len(path)),
           NEW j \in DOMAIN path
    PROVE  path[j].node \in Reached(graph)
<1>1. Whole(graph) /\ path \in Seq(Visit)
  BY DEF BuildInv, Shape
<1>2. \A i \in DOMAIN path : path[i].node \in DOMAIN graph.nodes
  BY DEF BuildInv, OnGraph
<1> SUFFICES ASSUME NEW S \in SUBSET DOMAIN graph.nodes, graph.start \in S,
                    \A m \in S, n \in DOMAIN graph.nodes : HasEdge(graph, m, n) => n \in S
             PROVE  path[j].node \in S
  BY <1>2 DEF Reached
<1> DEFINE T == {i \in DOMAIN path : path[i].node \notin S}
<1> SUFFICES ASSUME j \in T PROVE FALSE
  OBVIOUS
<1>3. T \in SUBSET Nat /\ T # {}
  BY <1>1
<1> DEFINE i == Least(T)
<1>4. i \in T /\ \A y \in T : i <= y
  BY <1>3, LeastExists
<1> HIDE DEF i
<1>5. path # <<>> /\ path[1].node = graph.start
  <2>1. path # <<>>
    BY <1>1
  <2> QED
    BY <2>1 DEF BuildInv, OnGraph
<1>6. i # 1
  BY <1>4, <1>5
<1>7. i \in 2 .. Len(path) /\ i - 1 \in DOMAIN path /\ i - 1 \notin T
  BY <1>1, <1>4, <1>6
<1>8. path[i].via \in EdgeKind
  BY <1>1, <1>7 DEF ByEdges
<1>9. HasEdge(graph, path[i - 1].node, path[i].node)
  <2>1. Joins(graph, path[i - 1].node, path[i].node, path[i].via)
    BY <1>7, <1>8 DEF BuildInv, Followed
  <2>2. graph.edges \in Seq(Edge)
    BY <1>1 DEF Whole
  <2> QED
    BY <2>1, <2>2, JoinedHasEdge
<1> QED
  BY <1>2, <1>4, <1>7, <1>9

\* q is a way of n nodes along edges, from v to w.
IsWay(g, v, w, n, q) ==
    /\ n \in Nat \ {0} /\ q \in [1 .. n -> Name] /\ q[1] = v /\ q[n] = w
    /\ \A i \in 1 .. n - 1 : HasEdge(g, q[i], q[i + 1])

\* The shortest way passes no node twice, for what is between could be left out.
LEMMA ShortestWay ==
    ASSUME NEW g, NEW v, NEW w, NEW n0, NEW q0, IsWay(g, v, w, n0, q0)
    PROVE  \E n, q : IsWay(g, v, w, n, q) /\ IsInjective(q)
<1> DEFINE T == {n \in Nat : \E q : IsWay(g, v, w, n, q)}
<1>1. T \in SUBSET Nat /\ T # {}
  BY DEF IsWay
<1> DEFINE n == Least(T)
<1>2. n \in T /\ \A y \in T : n <= y
  BY <1>1, LeastExists
<1> HIDE DEF n
<1>3. PICK q : IsWay(g, v, w, n, q)
  BY <1>2
<1>4. n \in Nat \ {0} /\ q \in [1 .. n -> Name] /\ DOMAIN q = 1 .. n
  BY <1>3 DEF IsWay
<1>5. ASSUME NEW a \in 1 .. n, NEW b \in 1 .. n, a < b, q[a] = q[b] PROVE FALSE
  <2> DEFINE k == n - (b - a)
             r == [i \in 1 .. k |-> IF i <= a THEN q[i] ELSE q[i + (b - a)]]
  <2>1. k \in Nat \ {0} /\ k < n
    BY <1>4, <1>5
  <2>2. \A i \in 1 .. k : i <= a => i \in 1 .. n
    BY <1>4, <1>5
  <2>3. \A i \in 1 .. k : i > a => i + (b - a) \in 1 .. n
    BY <1>4, <1>5
  <2>4. r \in [1 .. k -> Name]
    BY <1>4, <2>2, <2>3
  <2>5. r[1] = v
    BY <1>3, <1>5, <2>1 DEF IsWay
  <2>6. r[k] = w
    <3>1. CASE k <= a
      <4>1. b = n /\ k = a
        BY <1>4, <1>5, <3>1
      <4> QED
        BY <1>3, <1>5, <2>1, <4>1 DEF IsWay
    <3>2. CASE k > a
      <4>1. k + (b - a) = n
        BY <1>4, <1>5
      <4> QED
        BY <1>3, <2>1, <3>2, <4>1 DEF IsWay
    <3> QED
      BY <1>4, <1>5, <2>1, <3>1, <3>2
  <2>7. ASSUME NEW i \in 1 .. k - 1 PROVE HasEdge(g, r[i], r[i + 1])
    <3>0. i \in 1 .. k /\ i + 1 \in 1 .. k /\ i \in 1 .. n - 1
      BY <1>4, <1>5, <2>1
    <3>1. CASE i < a
      <4>1. r[i] = q[i] /\ r[i + 1] = q[i + 1]
        BY <1>4, <1>5, <3>0, <3>1
      <4> QED
        BY <1>3, <3>0, <4>1 DEF IsWay
    <3>2. CASE i = a
      <4>1. r[i] = q[b] /\ r[i + 1] = q[b + 1] /\ b \in 1 .. n - 1
        <5>1. i + 1 + (b - a) = b + 1
          BY <1>4, <1>5, <3>2
        <5> QED
          BY <1>4, <1>5, <3>0, <3>2, <5>1
      <4> QED
        BY <1>3, <4>1 DEF IsWay
    <3>3. CASE i > a
      <4>1. r[i] = q[i + (b - a)] /\ r[i + 1] = q[i + (b - a) + 1] /\ i + (b - a) \in 1 .. n - 1
        <5>1. i + 1 + (b - a) = i + (b - a) + 1 /\ i + 1 > a
          BY <1>4, <1>5, <3>0, <3>3
        <5> QED
          BY <1>4, <1>5, <3>0, <3>3, <5>1
      <4> QED
        BY <1>3, <4>1 DEF IsWay
    <3> QED
      BY <1>4, <1>5, <3>0, <3>1, <3>2, <3>3
  <2> HIDE DEF k, r
  <2>8. IsWay(g, v, w, k, r)
    BY <2>1, <2>4, <2>5, <2>6, <2>7 DEF IsWay
  <2>9. k \in T
    BY <2>1, <2>8
  <2> QED
    BY <1>2, <1>4, <2>1, <2>9
<1>6. IsInjective(q)
  <2> SUFFICES ASSUME NEW a \in 1 .. n, NEW b \in 1 .. n, q[a] = q[b] PROVE a = b
    BY <1>4 DEF IsInjective
  <2>1. a < b \/ b < a \/ a = b
    BY <1>4
  <2> QED
    BY <1>5, <2>1
<1> QED
  BY <1>3, <1>6

\* An edge from the end of such a way to its beginning closes a cycle that is listed: the
\* ring begins with its least node.
LEMMA CycleThrough ==
    ASSUME NEW g, NEW v, NEW w, NEW n, NEW q, IsWay(g, v, w, n, q), IsInjective(q),
           HasEdge(g, w, v), v # w
    PROVE  \E p \in find_all_cycles(g) : \E l \in DOMAIN p : p[l] = w /\ After(p, l) = v
<1>1. n \in Nat \ {0} /\ q \in [1 .. n -> Name] /\ q[1] = v /\ q[n] = w
      /\ \A i \in 1 .. n - 1 : HasEdge(g, q[i], q[i + 1])
  BY DEF IsWay
<1>2. \A a, b \in 1 .. n : q[a] = q[b] => a = b
  BY <1>1 DEF IsInjective
<1>3. n \in 2 .. Cardinality(Name)
  <2>1. q \in Injection(1 .. n, Name)
    BY <1>1 DEF Injection
  <2>2. Cardinality(1 .. n) <= Cardinality(Name)
    BY <2>1, BuildAssumption, FS_Injection
  <2>3. Cardinality(1 .. n) = n
    BY <1>1, FS_Interval
  <2>4. Cardinality(Name) \in Nat
    BY BuildAssumption, FS_CardinalityType
  <2>5. n # 1
    BY <1>1
  <2> QED
    BY <1>1, <2>2, <2>3, <2>4, <2>5
<1> DEFINE T == {q[i] : i \in 1 .. n}
<1>4. T \in SUBSET Nat /\ T # {}
  <2>1. \A i \in 1 .. n : q[i] \in Nat
    BY <1>1, BuildAssumption
  <2>2. q[1] \in T
    BY <1>1
  <2> QED
    BY <2>1, <2>2
<1>5. Least(T) \in T /\ \A y \in T : Least(T) <= y
  <2> HIDE DEF T
  <2> QED
    BY <1>4, LeastExists
<1>6. PICK m \in 1 .. n : \A i \in 1 .. n : q[m] <= q[i]
  <2>1. PICK m \in 1 .. n : Least(T) = q[m]
    BY <1>5
  <2>2. \A i \in 1 .. n : q[i] \in T
    OBVIOUS
  <2> QED
    BY <1>5, <2>1, <2>2
<1> DEFINE turn(i) == IF i + m - 1 <= n THEN i + m - 1 ELSE i + m - 1 - n
           p == [i \in 1 .. n |-> q[turn(i)]]
           l == n - m + 1
<1>7. \A i \in 1 .. n : turn(i) \in 1 .. n
  BY <1>1
<1>8. \A i, j \in 1 .. n : turn(i) = turn(j) => i = j
  BY <1>1
<1>9. turn(1) = m /\ l \in 1 .. n /\ turn(l) = n
  BY <1>1
<1>10. \A i \in 1 .. n - 1 : IF turn(i) = n THEN turn(i + 1) = 1 ELSE turn(i + 1) = turn(i) + 1
  BY <1>1
<1>11. IF turn(n) = n THEN m = 1 ELSE m = turn(n) + 1
  BY <1>1
<1> HIDE DEF turn
<1>12. p \in [1 .. n -> Name] /\ DOMAIN p = 1 .. n
  BY <1>1, <1>7
<1>13. Len(p) = n
  <2>1. p \in Seq(Name)
    BY <1>1, <1>12
  <2> QED
    BY <1>1, <1>12, <2>1
<1>14. \A i \in 1 .. n : p[i] = q[turn(i)]
  OBVIOUS
<1>15. \A i \in 1 .. n : After(p, i) = IF turn(i) = n THEN q[1] ELSE q[turn(i) + 1]
  <2> TAKE i \in 1 .. n
  <2>1. CASE i = n
    <3>1. After(p, i) = q[m]
      BY <1>1, <1>9, <1>13, <1>14, <2>1 DEF After
    <3> QED
      BY <1>11, <2>1, <3>1
  <2>2. CASE i # n
    <3>1. i \in 1 .. n - 1 /\ i + 1 \in 1 .. n
      BY <1>1, <2>2
    <3>2. After(p, i) = q[turn(i + 1)]
      BY <1>13, <1>14, <2>2, <3>1 DEF After
    <3> QED
      BY <1>10, <3>1, <3>2
  <2> QED
    BY <2>1, <2>2
<1> HIDE DEF p, l
<1>16. \A i \in 1 .. n : HasEdge(g, p[i], After(p, i))
  <2> TAKE i \in 1 .. n
  <2>1. CASE turn(i) = n
    BY <1>1, <1>14, <1>15, <2>1
  <2>2. CASE turn(i) # n
    <3>1. turn(i) \in 1 .. n - 1
      <4> DEFINE x == turn(i)
      <4>1. x \in 1 .. n /\ x # n
        BY <1>7, <2>2
      <4> HIDE DEF x
      <4>2. x \in 1 .. n - 1
        BY <1>1, <4>1
      <4> QED
        BY <4>2 DEF x
    <3> QED
      BY <1>1, <1>14, <1>15, <2>2, <3>1
  <2> QED
    BY <2>1, <2>2
<1>17. IsInjective(p)
  BY <1>2, <1>7, <1>8, <1>12, <1>14 DEF IsInjective
<1>18. \A i \in 2 .. n : p[i] > p[1]
  <2> TAKE i \in 2 .. n
  <2>1. i \in 1 .. n /\ 1 \in 1 .. n /\ turn(i) # m /\ turn(i) \in 1 .. n
    BY <1>1, <1>7, <1>8, <1>9
  <2>2. q[turn(i)] # q[m] /\ q[m] <= q[turn(i)]
    BY <1>2, <1>6, <2>1
  <2>3. q[turn(i)] \in Nat /\ q[m] \in Nat
    BY <1>1, <2>1, BuildAssumption
  <2> QED
    BY <1>9, <1>14, <2>1, <2>2, <2>3
<1>19. p \in find_all_cycles(g)
  BY <1>3, <1>12, <1>13, <1>16, <1>17, <1>18 DEF find_all_cycles, Rings
<1>20. p[l] = w /\ After(p, l) = v
  BY <1>1, <1>9, <1>14, <1>15
<1> QED
  BY <1>9, <1>12, <1>19, <1>20

\* Of a run that comes back to a node along edges, every step from a node to another is an
\* edge of a listed cycle: from where it leads, the way on and the way up to it lead back.
LEMMA WalkIsListed ==
    ASSUME BuildInv, phase \notin Early, graph = origin, NEW i \in DOMAIN path,
           NEW j \in DOMAIN path, NEW l \in i .. j - 1,
           path[i].node = path[j].node, ByEdges(i, j), path[l].node # path[l + 1].node
    PROVE  /\ Joins(graph, path[l].node, path[l + 1].node, path[l + 1].via)
           /\ \E p \in find_all_cycles(graph) : \E k \in DOMAIN p :
                 p[k] = path[l].node /\ After(p, k) = path[l + 1].node
<1>1. Whole(graph) /\ path \in Seq(Visit) /\ graph.edges \in Seq(Edge)
  BY DEF BuildInv, Shape, Whole
<1>2. ASSUME NEW k \in i + 1 .. j
      PROVE  /\ Joins(graph, path[k - 1].node, path[k].node, path[k].via)
             /\ HasEdge(graph, path[k - 1].node, path[k].node)
  <2>1. k \in 2 .. Len(path) /\ path[k].via \in EdgeKind
    BY <1>1 DEF ByEdges
  <2>2. Joins(graph, path[k - 1].node, path[k].node, path[k].via)
    BY <2>1 DEF BuildInv, Followed
  <2> QED
    BY <1>1, <2>2, JoinedHasEdge
<1> DEFINE n == j - i
           a == j - l
           turn(k) == IF k <= a THEN l + k ELSE l + k - n
           q == [k \in 1 .. n |-> path[turn(k)].node]
           v == path[l + 1].node
           w == path[l].node
<1>3. /\ i \in Nat /\ j \in Nat /\ l \in Nat /\ i >= 1 /\ i <= l /\ l + 1 <= j
      /\ n \in Nat \ {0} /\ a \in 1 .. n
  BY <1>1
<1>4. \A k \in 1 .. n : turn(k) \in i .. j /\ turn(k) \in DOMAIN path
  <2> TAKE k \in 1 .. n
  <2>1. k \in Nat /\ k >= 1 /\ k <= j - i
    BY <1>3
  <2>2. turn(k) \in i .. j
    <3>1. k <= j - l => l + k \in i .. j
      BY <1>3, <2>1
    <3>2. ~(k <= j - l) => l + k - (j - i) \in i .. j
      BY <1>3, <2>1
    <3> QED
      BY <3>1, <3>2
  <2>3. i .. j \subseteq DOMAIN path
    BY <1>1, <1>3
  <2> HIDE DEF turn
  <2> QED
    BY <2>2, <2>3
<1>5. q \in [1 .. n -> Name]
  <2>1. ASSUME NEW k \in 1 .. n PROVE path[turn(k)].node \in Name
    <3>1. path[turn(k)] \in Visit
      BY <1>1, <1>4
    <3> QED
      BY <3>1 DEF Visit
  <2> QED
    BY <2>1
<1>6. q[1] = v /\ q[n] = w
  <2>1. turn(1) = l + 1 /\ 1 \in 1 .. n /\ n \in 1 .. n
    BY <1>3
  <2>2. turn(n) = l \/ (turn(n) = j /\ l = i)
    BY <1>3
  <2> HIDE DEF turn
  <2> QED
    BY <2>1, <2>2
<1>7. \A k \in 1 .. n - 1 : HasEdge(graph, q[k], q[k + 1])
  <2> TAKE k \in 1 .. n - 1
  <2>1. k \in 1 .. n /\ k + 1 \in 1 .. n
    BY <1>3
  <2>2. CASE k # a
    <3>1. turn(k + 1) \in i + 1 .. j /\ turn(k + 1) - 1 = turn(k)
      BY <1>3, <2>1, <2>2
    <3> HIDE DEF turn
    <3> QED
      BY <1>2, <2>1, <3>1
  <2>3. CASE k = a
    <3>1. turn(k) = j /\ turn(k + 1) = i + 1 /\ i + 1 \in i + 1 .. j /\ (i + 1) - 1 = i
      BY <1>3, <2>1, <2>3
    <3>2. HasEdge(graph, path[i].node, path[i + 1].node)
      BY <1>2, <3>1
    <3> HIDE DEF turn
    <3> QED
      BY <2>1, <3>1, <3>2
  <2> QED
    BY <2>2, <2>3
<1>8. l + 1 \in i + 1 .. j /\ (l + 1) - 1 = l
  BY <1>3
<1>9. HasEdge(graph, w, v) /\ Joins(graph, w, v, path[l + 1].via)
  BY <1>2, <1>8
<1> HIDE DEF n, q
<1>10. IsWay(graph, v, w, n, q)
  BY <1>3, <1>5, <1>6, <1>7 DEF IsWay
<1>11. PICK n1, q1 : IsWay(graph, v, w, n1, q1) /\ IsInjective(q1)
  BY <1>10, ShortestWay
<1> QED
  BY <1>9, <1>11, CycleThrough

\* What analyze() rules out does not happen on the graph it looked at: nodes it calls
\* unreachable are not executed along edges, and every step of a way round, with the
\* fallback edges among them, is listed; and no edge leads out of a graph build() let pass.
THEOREM DiagnosticsHold == BuildSpec => []DiagnosticsAreTrue
<1>1. ASSUME BuildInv, graph = origin, ByEdges(1, Len(path))
      PROVE  {path[i].node : i \in DOMAIN path} \cap Unreachable(graph) = {}
  <2>1. CASE phase \in Early
    BY <1>1, <2>1 DEF BuildInv, Shape
  <2>2. CASE phase \notin Early
    <3>1. \A i \in DOMAIN path : path[i].node \in Reached(graph)
      BY <1>1, <2>2, WalkIsReached
    <3> QED
      BY <3>1 DEF Unreachable
  <2> QED
    BY <2>1, <2>2
<1>2. ASSUME BuildInv, graph = origin, NEW i \in DOMAIN path, NEW j \in DOMAIN path,
             NEW l \in i .. j - 1, path[i].node = path[j].node, ByEdges(i, j),
             path[l].node # path[l + 1].node
      PROVE  /\ \E p \in find_all_cycles(graph) : path[l].node \in Range(p)
             /\ path[l + 1].via = "fallback" =>
                   \E e \in FallbackInCycle(graph) :
                       e.from = path[l].node /\ e.to = path[l + 1].node
  <2>1. phase \notin Early
    BY <1>2 DEF BuildInv, Shape
  <2>2. Joins(graph, path[l].node, path[l + 1].node, path[l + 1].via)
    BY <1>2, <2>1, WalkIsListed
  <2>3. PICK p \in find_all_cycles(graph) : \E k \in DOMAIN p :
            p[k] = path[l].node /\ After(p, k) = path[l + 1].node
    BY <1>2, <2>1, WalkIsListed
  <2>4. path[l].node \in Range(p)
    BY <2>3 DEF Range
  <2>5. ASSUME path[l + 1].via = "fallback"
        PROVE  \E e \in FallbackInCycle(graph) :
                  e.from = path[l].node /\ e.to = path[l + 1].node
    BY <2>2, <2>3, <2>5 DEF Joins, FallbackInCycle
  <2> QED
    BY <2>3, <2>4, <2>5
<1>3. BuildInv => DiagnosticsAreTrue
  BY <1>1, <1>2 DEF DiagnosticsAreTrue, BuildInv
<1> QED
  BY <1>3, BuildInvariance, PTL
=============================================================================
