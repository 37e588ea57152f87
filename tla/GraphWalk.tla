------------------------------- MODULE GraphWalk -------------------------------
(***************************************************************************)
(* What a checkpointed run of a graph promises: the boundaries it has made   *)
(* durable form one walk of the graph.  The walk grows by the node its last  *)
(* boundary named, the node after that is fixed in the same step, and        *)
(* nothing, not a crash, a failed save or a restore, takes a step back.      *)
(***************************************************************************)
EXTENDS Sequences

CONSTANTS Node, Entry, Route

VARIABLES walk, next

Init == walk = << >> /\ next = Entry

Extend ==
    /\ next \in Node
    /\ walk' = Append(walk, next)
    /\ next' \in Route[next]

Spec == Init /\ [][Extend]_<<walk, next>>
=============================================================================
