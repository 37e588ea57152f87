---------------------------- MODULE MCDurableRun ----------------------------
(***************************************************************************)
(* Two graphs for DurableRun.  "Fan" is a parallel node, one branch of which  *)
(* calls a graph with an approval and a task while the other asks for an       *)
(* approval of its own; each turn of "Loop" calls a subgraph with a task and   *)
(* asks for an approval.                                                      *)
(***************************************************************************)
EXTENDS DurableRun, TLC

\* root: fan -> ship;  a: the graph review -> pay;  b: check
FanFrame == {"root", "a", "a.graph", "b"}
FanNode  == {"fan", "ship", "body", "review", "pay", "check"}
FanGraph == [f \in FanFrame |->
    CASE f = "root"    -> {"fan", "ship"}
      [] f = "a"       -> {"body"}
      [] f = "a.graph" -> {"review", "pay"}
      [] f = "b"       -> {"check"}]
FanEntry == [f \in FanFrame |->
    CASE f = "root" -> "fan" [] f = "a" -> "body" [] f = "a.graph" -> "review"
      [] f = "b" -> "check"]
FanRoute == [n \in FanNode |->
    CASE n = "fan" -> {"ship"} [] n = "review" -> {"pay"} [] OTHER -> {"end"}]
FanKind == [n \in FanNode |->
    CASE n \in {"fan", "body"}     -> "group"
      [] n \in {"review", "check"} -> "barrier"
      [] n = "pay"                 -> "task"
      [] n = "ship"                -> "plain"]
FanParent == [f \in FanFrame \ {"root"} |->
    [frame |-> IF f = "a.graph" THEN "a" ELSE "root",
     node |-> IF f = "a.graph" THEN "body" ELSE "fan", invocation |-> 1]]
FanBudget == [f \in FanFrame |->
    CASE f = "root" -> 8 [] f \in {"a", "b"} -> 1 [] OTHER -> 2]

\* root: turn -> ask -> turn | note;  turn1, turn2: act
LoopFrame == {"root", "turn1", "turn2"}
LoopNode  == {"turn", "note", "ask", "act"}
LoopGraph == [f \in LoopFrame |-> IF f = "root" THEN {"turn", "ask", "note"} ELSE {"act"}]
LoopEntry == [f \in LoopFrame |-> IF f = "root" THEN "turn" ELSE "act"]
LoopRoute == [n \in LoopNode |->
    CASE n = "turn" -> {"ask"} [] n = "ask" -> {"turn", "note"} [] OTHER -> {"end"}]
LoopKind == [n \in LoopNode |->
    CASE n = "turn" -> "group" [] n = "note" -> "plain" [] n = "ask" -> "barrier"
      [] n = "act" -> "task"]
LoopParent == [f \in LoopFrame \ {"root"} |->
    [frame |-> "root", node |-> "turn", invocation |-> IF f = "turn1" THEN 1 ELSE 3]]
\* The second turn leaves no step for note.
LoopBudget == [f \in LoopFrame |-> IF f = "root" THEN 6 ELSE 1]

RequestSymmetry == Permutations(Request)
=============================================================================
