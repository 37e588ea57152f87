----------------------------- MODULE MCGraphStream -----------------------------
(***************************************************************************)
(* draft -> review -> sign -> draft | end: a rejected review goes back to    *)
(* draft, a rejected or timed out signature ends the run.                    *)
(***************************************************************************)
EXTENDS GraphStream

MCRoute == [n \in Node |->
    CASE n = "draft" -> {"review"} [] n = "review" -> {"sign"} [] OTHER -> {"draft", End}]
MCRejectTarget == [b \in Barrier |-> IF b = "review" THEN "draft" ELSE End]
=============================================================================
