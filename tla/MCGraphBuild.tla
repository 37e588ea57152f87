----------------------------- MODULE MCGraphBuild -----------------------------
(* A task, a condition or a barrier, and a task or a nested graph.            *)
EXTENDS GraphBuild

MCKindOf == [n \in Name |->
    CASE n = 1 -> {"Task"} [] n = 2 -> {"Condition", "Barrier"} [] OTHER -> {"Task", "Nested"}]
MCKindFrom == [n \in Name |->
    CASE n = 1 -> {"normal", "fallback"} [] n = 2 -> {"if"} [] OTHER -> {}]
=============================================================================
