---------------------------- MODULE MCCheckpointRun ----------------------------
(***************************************************************************)
(* A loop with a way out and a goto to a node that does not exist:           *)
(* a -> b -> a | end | gone.                                                *)
(***************************************************************************)
EXTENDS CheckpointRun

LoopRoute == [n \in Node |-> IF n = "a" THEN {"b"} ELSE {"a", "end", "gone"}]
=============================================================================
