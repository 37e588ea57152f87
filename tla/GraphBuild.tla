------------------------------ MODULE GraphBuild ------------------------------
(***************************************************************************)
(* A graph from its builder to its runs: the calls on GraphBuilder, build and *)
(* its errors, the static analysis of analyze(), the check for approval        *)
(* handlers, the routing of a run that has no durable record, and a restart    *)
(* that offers another graph to the checkpoint of the first.                  *)
(*                                                                         *)
(* Names are numbers, ordered as the strings are.  Calls on the builder        *)
(* commute, so the nodes come first, in order, then the edges by their source. *)
(* What a condition, a node or a client decides is a choice, and so is what a  *)
(* node was made with: the branches of a condition, a barrier's reject_target. *)
(* An operator marked "mutant of" is used by no action.                       *)
(***************************************************************************)
EXTENDS Naturals, Sequences, FiniteSets, SequencesExt

CONSTANTS
    Name,        \* names of nodes, positive numbers
    KindOf,      \* the NodeKinds a node of that name may get
    KindFrom,    \* the kinds an edge from a node of that name may get
    StartNode, EndNode, Hash, \* what start(), end() and canonical_hash() may be given,
                 \* None without the call
    None,
    MaxEdges,    \* bound on the edges
    MaxLeaps,    \* bound on the steps of a run that follow no edge
    StepLimit

\* Task: also an External and an ExternalLeaf, whose code may do all that a Task's may.
\* Nested: a Subgraph, or a Parallel of graphs, whose inner graph holds a barrier.
Kind == {"Task", "Condition", "Barrier", "Nested"}
EdgeKind == {"if", "normal", "fallback"}
Edge == [from : Name, to : Name, kind : EdgeKind]

ASSUME BuildAssumption ==
    /\ Name \subseteq Nat \ {0} /\ IsFiniteSet(Name) /\ None \notin Name
    /\ KindOf \in [Name -> SUBSET Kind] /\ KindFrom \in [Name -> SUBSET EdgeKind]
    /\ StartNode \subseteq Name \cup {None} /\ EndNode \subseteq Name \cup {None}

VARIABLES
    phase,     \* "building", "built", "running", "restored", or how it ended
    nodes, edges, \* of the builder
    graph,     \* what build returned
    origin,    \* history: the graph the run began with
    handler,   \* the engine has a BarrierSink
    at, via,   \* the node to execute next, and how the run came to choose it
    path       \* history: the nodes executed, each with its via

buildVars == <<phase, nodes, edges, graph, origin, handler, at, via, path>>

NoGraph == [nodes |-> <<>>, edges |-> <<>>, start |-> None, end |-> None, hash |-> None]
BuildInit ==
    /\ phase = "building" /\ nodes = <<>> /\ edges = <<>>
    /\ graph = NoGraph /\ origin = NoGraph
    /\ handler = FALSE /\ at = None /\ via = "start" /\ path = <<>>

-----------------------------------------------------------------------------
(* The builder.                                                             *)

Unbuilt == UNCHANGED <<graph, origin, handler, at, via, path>>

AddNode(n, k) ==
    /\ phase = "building" /\ edges = <<>> /\ \A m \in DOMAIN nodes : m < n
    /\ nodes' = [m \in DOMAIN nodes \cup {n} |-> IF m = n THEN k ELSE nodes[m]]
    /\ UNCHANGED <<phase, edges>> /\ Unbuilt

\* edge, edge_if or edge_fallback; max_visits of a PendingEdge changes no run.
AddEdge(e) ==
    /\ phase = "building" /\ Len(edges) < MaxEdges
    /\ edges # <<>> => edges[Len(edges)].from <= e.from
    /\ edges' = Append(edges, e)
    /\ UNCHANGED <<phase, nodes>> /\ Unbuilt

Dangling(ns, es) == {i \in DOMAIN es : {es[i].from, es[i].to} \ DOMAIN ns # {}}

validate(g) == {g.start, g.end} \subseteq DOMAIN g.nodes /\ Dangling(g.nodes, g.edges) = {}

BuildError(s, e) ==
    CASE s = None                    -> "MissingEntryPoint"
      [] s # None /\ e = None        -> "MissingExitPoint"
      [] Dangling(nodes, edges) # {} -> "MissingNode"
      [] OTHER                       -> "InvalidEdgeDefinition"

Build(s, e, h) ==
    LET g == [nodes |-> nodes, edges |-> edges, start |-> s, end |-> e, hash |-> h]
    IN /\ phase = "building"
       /\ IF None \notin {s, e} /\ validate(g)
          THEN phase' = "built" /\ graph' = g /\ origin' = g
          ELSE phase' = BuildError(s, e) /\ UNCHANGED <<graph, origin>>
       /\ nodes' = <<>> /\ edges' = <<>>
       /\ UNCHANGED <<handler, at, via, path>>

-----------------------------------------------------------------------------
(* graph_analysis.rs.                                                       *)

HasEdge(g, a, b) == \E i \in DOMAIN g.edges : g.edges[i].from = a /\ g.edges[i].to = b
After(p, i) == p[IF i = Len(p) THEN 1 ELSE i + 1]

\* A cycle is found from its least node, along nodes that are greater.
Rings == {p \in UNION {[1 .. k -> Name] : k \in 2 .. Cardinality(Name)} :
             /\ IsInjective(p)
             /\ \A i \in 2 .. Len(p) : p[i] > p[1]}
\* mutant of find_all_cycles: a cycle of two nodes is taken for its edge and back
LongCycles(g) == {p \in Rings : Len(p) > 2 /\ \A i \in DOMAIN p : HasEdge(g, p[i], After(p, i))}
find_all_cycles(g) == {p \in Rings : \A i \in DOMAIN p : HasEdge(g, p[i], After(p, i))}

\* The fallback edges that check_fallback_in_cycles warns of.
FallbackInCycle(g) ==
    {e \in Range(g.edges) :
        /\ e.kind = "fallback"
        /\ \E p \in find_all_cycles(g) :
              \E i \in DOMAIN p : e.from = p[i] /\ e.to = After(p, i)}

\* What the stack of check_unreachable_nodes has found when it is empty: the start, and
\* with a node every node an edge of it leads to.
Reached(g) ==
    LET closed(S) == \A m \in S, n \in DOMAIN g.nodes : HasEdge(g, m, n) => n \in S
    IN {n \in DOMAIN g.nodes :
           \A S \in SUBSET DOMAIN g.nodes : g.start \in S /\ closed(S) => n \in S}
Unreachable(g) == DOMAIN g.nodes \ Reached(g)

-----------------------------------------------------------------------------
(* A run.                                                                   *)

\* mutant of Handled: a nested graph is not looked into
HandledHere(g, h) == \A n \in DOMAIN g.nodes : g.nodes[n] = "Barrier" => h
\* validate_approval_handlers: a nested graph never has a handler.
Handled(g, h) == \A n \in DOMAIN g.nodes :
    /\ g.nodes[n] = "Barrier" => h
    /\ g.nodes[n] # "Nested"

Built == UNCHANGED <<nodes, edges, origin>>

\* run_inline from the start node, or run_inline_from where the restored run goes on.
Begin(h) ==
    /\ phase \in {"built", "restored"}
    /\ handler' = h
    /\ IF Handled(graph, h)
       THEN /\ phase' = "running"
            /\ IF phase = "built" THEN at' = graph.start ELSE UNCHANGED at
       ELSE phase' = "BarrierHandlerMissing" /\ UNCHANGED at
    /\ UNCHANGED <<graph, via, path>> /\ Built

Least(S) == CHOOSE i \in S : \A j \in S : i <= j
\* The edge taken after n when the conditions of the edges in holds are true, 0 if none is.
resolve_next(g, n, holds) ==
    LET of(k) == {i \in DOMAIN g.edges : g.edges[i].from = n /\ g.edges[i].kind = k}
        met == of("if") \cap holds
    IN IF met # {} THEN Least(met)
       ELSE IF of("normal") # {} THEN Least(of("normal"))
       ELSE IF of("fallback") # {} THEN Least(of("fallback"))
       ELSE 0

Moves(n, how) == at' = n /\ via' = how /\ UNCHANGED phase
\* To the name that a node, a client or a reject_target gives.
Leaps == {"goto", "reroute", "reject"}
Leap(how) ==
    /\ Len(SelectSeq(path, LAMBDA v : v.via \in Leaps)) < MaxLeaps
    /\ \E n \in Name : Moves(n, how)
Stops(why) == phase' = why /\ UNCHANGED <<at, via>>

\* NextAction::Next
Follows(holds) ==
    IF at = graph.end THEN Stops("complete")
    ELSE LET i == resolve_next(graph, at, holds)
         IN IF i = 0 THEN Stops("InvalidGraph") ELSE Moves(graph.edges[i].to, graph.edges[i].kind)

\* What node at may do, holds being the edges whose condition is true: NextAction::Next,
\* Goto or End, or a Pause.  Only a Barrier may pause, which is seen when the pause has
\* been decided; a node fails by itself or by the save of its checkpoint.
TaskEnds(holds) ==
    \/ Follows(holds)
    \/ Leap("goto")
    \/ Stops("complete")
    \/ Stops(IF handler THEN "Unsupported" ELSE "BarrierHandlerMissing")
    \/ Stops("failed")

ConditionEnds(holds) ==
    \/ Follows(holds)
    \/ Leap("goto")
    \/ Stops("failed")

\* Follows: approved, modified, or its timeout says so.  Rejected, it goes to its
\* reject_target, or completes the run where it has none.
BarrierEnds(holds) ==
    \/ ~handler /\ Stops("BarrierHandlerMissing")
    \/ handler /\ Follows(holds)
    \/ handler /\ (Leap("reroute") \/ Leap("reject"))
    \/ handler /\ (Stops("complete") \/ Stops("BarrierCancelled"))

Ends(holds) ==
    CASE graph.nodes[at] = "Task"      -> TaskEnds(holds)
      [] graph.nodes[at] = "Condition" -> ConditionEnds(holds)
      [] graph.nodes[at] = "Barrier"   -> BarrierEnds(holds)
      [] graph.nodes[at] = "Nested"    -> Stops("BarrierHandlerMissing")

\* One iteration of run_graph_loop.
Step ==
    /\ phase = "running"
    /\ IF Len(path) = StepLimit THEN Stops("StepsExceeded") /\ UNCHANGED path
       ELSE IF at \notin DOMAIN graph.nodes THEN Stops("NodeNotFound") /\ UNCHANGED path
       ELSE /\ path' = Append(path, [node |-> at, via |-> via])
            /\ \E holds \in SUBSET DOMAIN graph.edges : Ends(holds)
    /\ UNCHANGED <<graph, handler>> /\ Built

-----------------------------------------------------------------------------
(* A restart: a process with the graph g offers it to the last checkpoint.    *)

\* mutant of Fingerprint: the edges do not count
NamesOnly(g) == <<g.hash, <<DOMAIN g.nodes>>>>
\* compute_structural_hash: the names and what each edge is, in sorted order; neither
\* the kinds of the nodes nor start, end or the order of the edges.
Structure(g) ==
    LET shown(e) == <<e.from, e.to, e.kind>>
        shows == {shown(e) : e \in Range(g.edges)}
    IN <<DOMAIN g.nodes,
         [x \in shows |-> Cardinality({i \in DOMAIN g.edges : shown(g.edges[i]) = x})]>>
\* The canonical_hash of a graph: what the builder was given stands for the structure.
Fingerprint(g) == <<g.hash, IF g.hash = None THEN Structure(g) ELSE <<>>>>

\* The graph with its edges in another order, another end, a node of another kind, another
\* hash, one edge led elsewhere, or cut down to its start and its end.
Variant(g) ==
    {[g EXCEPT !.edges = Reverse(@)]} \cup
    {[g EXCEPT !.end = n] : n \in DOMAIN g.nodes} \cup
    {[g EXCEPT !.nodes[n] = k] : n \in DOMAIN g.nodes, k \in Kind} \cup
    {[g EXCEPT !.hash = h] : h \in Hash} \cup
    {[g EXCEPT !.edges[i].to = n] : i \in DOMAIN g.edges, n \in DOMAIN g.nodes} \cup
    {[g EXCEPT !.nodes = [n \in DOMAIN @ \cap {g.start, g.end} |-> @[n]], !.edges = <<>>]}

\* validate_persistable: a run keeps checkpoints only in a graph without these.
Persistable(g) == Range(g.nodes) \cap {"Barrier", "Nested"} = {}

\* mutant of validate_restore: that the graph may be checkpointed was asked at the start
FingerprintAlone(g) ==
    IF Fingerprint(g) # Fingerprint(graph) THEN "RestoreGraphMismatch"
    ELSE IF at \notin DOMAIN g.nodes THEN "RestoreNodeNotFound"
    ELSE IF Len(path) >= StepLimit THEN "StepsExceeded" ELSE "restored"
\* RestoreNodeNotFound: the NodeNotFound of a run, but before it.
validate_restore(g) ==
    IF ~Persistable(g) THEN "RestoreUnsupported"
    ELSE IF Fingerprint(g) # Fingerprint(graph) THEN "RestoreGraphMismatch"
    ELSE IF at \notin DOMAIN g.nodes THEN "RestoreNodeNotFound"
    ELSE IF Len(path) >= StepLimit THEN "StepsExceeded" ELSE "restored"

Restart(g) ==
    /\ Persistable(graph)
    /\ phase = "running" /\ path # <<>> /\ graph = origin
    /\ phase' = validate_restore(g)
    /\ graph' = IF phase' = "restored" THEN g ELSE graph
    /\ UNCHANGED <<handler, at, via, path>> /\ Built

BuildNext ==
    \/ \E n \in Name : \E k \in KindOf[n] : AddNode(n, k)
    \/ \E e \in Edge : e.kind \in KindFrom[e.from] /\ AddEdge(e)
    \/ \E s \in StartNode, e \in EndNode, h \in Hash : Build(s, e, h)
    \/ \E h \in BOOLEAN : Begin(h)
    \/ Step
    \/ \E g \in Variant(graph) : Restart(g)

BuildSpec == BuildInit /\ [][BuildNext]_buildVars

-----------------------------------------------------------------------------
(* Properties.                                                              *)

BuildTypes ==
    /\ phase \in {"building", "built", "running", "restored", "complete", "failed",
               "MissingEntryPoint", "MissingExitPoint", "MissingNode", "InvalidEdgeDefinition",
               "NodeNotFound", "BarrierHandlerMissing", "BarrierCancelled", "Unsupported",
               "StepsExceeded", "InvalidGraph", "RestoreUnsupported", "RestoreGraphMismatch",
               "RestoreNodeNotFound"}
    /\ \A i \in DOMAIN edges : edges[i] \in Edge
    /\ at \in Name \cup {None} /\ via \in EdgeKind \cup Leaps \cup {"start"}
    /\ handler \in BOOLEAN /\ Len(path) <= StepLimit

ByEdges(i, j) == \A l \in i + 1 .. j : path[l].via \in EdgeKind

\* What analyze() says of the graph is true of its runs, as far as they follow edges: a
\* node it calls unreachable is not executed, and of a run that comes back to a node every
\* step on the way is part of a cycle that is listed, and a warning names it if it took a
\* fallback edge (graph_analysis.rs:11, :192, :229).  An edge from a node to itself is no
\* cycle there.  And no edge of what build() lets pass leads out of the graph: only the
\* name a node, a client or a reject_target gives does (run_loop.rs:76, :170, :173).
DiagnosticsAreTrue ==
    /\ phase = "NodeNotFound" => via \in Leaps
    /\ graph = origin =>
           /\ ByEdges(1, Len(path)) =>
                 {path[i].node : i \in DOMAIN path} \cap Unreachable(graph) = {}
           /\ \A i, j \in DOMAIN path : \A l \in i .. j - 1 :
                 /\ path[i].node = path[j].node /\ ByEdges(i, j)
                 /\ path[l].node # path[l + 1].node
                 => /\ \E p \in find_all_cycles(graph) : path[l].node \in Range(p)
                    /\ path[l + 1].via = "fallback" =>
                          \E e \in FallbackInCycle(graph) :
                              e.from = path[l].node /\ e.to = path[l + 1].node

\* A run that has executed a node ends for want of a handler only because a Task paused: a
\* barrier that was declared, at whatever depth, is asked about before the first node, and
\* about a restored graph again, whose kinds no fingerprint tells (graph_core.rs:353, :386).
DeclaredIsChecked ==
    phase = "BarrierHandlerMissing" /\ path # <<>> => graph.nodes[at] = "Task"

\* Where build() computed the fingerprint, a run follows after a restart edges the first
\* graph had, of the kind it had.  That is less than "no silent mismatch"
\* (checkpoint_data.rs:83): a graph with another end, other kinds or the edges in another
\* order is taken for the first, and so is any graph under the same canonical_hash().
RestoredKeepsEdges ==
    origin.hash = None =>
        \A i \in 2 .. Len(path) : path[i].via \in EdgeKind =>
            \E e \in Range(origin.edges) :
                e.from = path[i - 1].node /\ e.to = path[i].node /\ e.kind = path[i].via

=============================================================================
