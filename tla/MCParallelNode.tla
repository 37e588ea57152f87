---------------------------- MODULE MCParallelNode ----------------------------
(* Three branches, of which one may run until it is cancelled, and a parent    *)
(* that holds one of two keys, or one message and one token.                   *)
EXTENDS ParallelNode

MCStateBase == [k \in {"k1"} |-> "v1"]
MCAgentBase == [messages |-> <<0>>, iterations |-> 1, output_tokens |-> 1,
                stop_reason |-> NoReason, last_response |-> NoReason]
=============================================================================
