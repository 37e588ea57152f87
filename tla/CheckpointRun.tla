----------------------------- MODULE CheckpointRun -----------------------------
(***************************************************************************)
(* A run that saves a checkpoint after every node, its trace in a            *)
(* BlobCheckpointStore, and the host that starts it, loads its latest         *)
(* checkpoint and restores it after a crash or an error.                      *)
(*                                                                         *)
(* The executor is run_graph_loop without a durable frame, the sink is         *)
(* CheckpointSaveSink, the entries are execute_stream_with_checkpoint and       *)
(* execute_stream_with_restore (the same as ToolUseLoop::invoke_with_checkpoint  *)
(* and invoke_with_restore).  A trace has one executor at a time, as the        *)
(* store's documentation demands; the host may load at any time.              *)
(*                                                                         *)
(* An operator whose comment reads "mutant of" is used by no action.          *)
(***************************************************************************)
EXTENDS Naturals, Sequences, FiniteSets

CONSTANTS
    Node,          \* the nodes of the graph (Graph::nodes)
    Stray,         \* names a node may goto although no such node exists
    End,           \* next_node = None
    Entry,         \* Graph::start_node
    Route,         \* what routing may choose after a node
    Budget,        \* the max_steps a host may pass
    Keep,          \* RetentionPolicy: the n of KeepLatest(n)
    KeepAll,
    MaxMishaps     \* bound on crashes, node errors, failed saves, damaged files

ASSUME GraphAssumption ==
    /\ Entry \in Node /\ End \notin Node
    /\ Route \in [Node -> SUBSET (Node \cup Stray \cup {End})]
    /\ Budget \subseteq Nat /\ Keep \subseteq Nat /\ KeepAll \notin Nat
    /\ MaxMishaps \in Nat

Target == Node \cup Stray \cup {End}

\* Checkpoint: next_node, steps_used and the state.  The state is the sequence of
\* nodes whose mutations it has applied.
Checkpoint == [walk : Seq(Node), next : Target, steps : Nat]
Origin == [walk |-> << >>, next |-> Entry, steps |-> 0]

VARIABLES
    backend,    \* "file" (FileBlobStore) or "memory" (InMemoryBlobStore)
    keep,       \* the retention policy
    files,      \* the trace's committed checkpoints by seq
    tmp,        \* seqs of the .tmp files on disk
    damaged,    \* seqs of files that no longer decode
    held,       \* seq of the checkpoint the host loaded last, 0 for none
    pc,         \* where the executor stands, "idle" when there is none
    mem,        \* its state and cursor
    budget,     \* its max_steps
    told,       \* steps for which CheckpointSaved was delivered
    mishaps

vars == <<backend, keep, files, tmp, damaged, held, pc, mem, budget, told, mishaps>>
policy == <<backend, keep>>
store == <<files, tmp, damaged>>
executor == <<pc, mem, budget>>

Init ==
    /\ backend \in {"file", "memory"} /\ keep \in Keep \cup {KeepAll}
    /\ files = << >> /\ tmp = {} /\ damaged = {}
    /\ held = 0 /\ pc = "idle" /\ mem = Origin /\ budget = 0 /\ told = {}
    /\ mishaps = 0

Mishap == mishaps < MaxMishaps /\ mishaps' = mishaps + 1

-----------------------------------------------------------------------------
(* The store.                                                              *)

\* The greatest of a set of seqs, 0 for the empty set.
Greatest(S) == IF S = {} THEN 0 ELSE CHOOSE m \in S : \A s \in S : s <= m

\* FileBlobStore::scan_trace_dir skips .tmp files; the index of the memory store
\* holds what was saved.
\* (mutant of Scanned: a .tmp left by a crash counts)
ScannedWithTmp == DOMAIN files \cup tmp
Scanned == DOMAIN files
Latest == Greatest(Scanned)
NextSeq == Latest + 1
Readable(s) == s \in DOMAIN files \ damaged

\* The checkpoints prune deletes: all but the keep newest.
\* (mutant of Surplus: the list is sorted the other way round)
SurplusNewest == {s \in DOMAIN files : Cardinality({u \in DOMAIN files : u < s}) >= keep}
Surplus == {s \in DOMAIN files : Cardinality({u \in DOMAIN files : u > s}) >= keep}

Without(S) == [s \in DOMAIN files \ S |-> files[s]]
With(q, c) == [s \in DOMAIN files \cup {q} |-> IF s = q THEN c ELSE files[s]]

-----------------------------------------------------------------------------
(* The host.                                                               *)

Run(c, b) == pc' = "top" /\ mem' = c /\ budget' = b

\* assert_fresh_trace, or a new trace id: the trace has no checkpoint.
Start(b) ==
    /\ pc = "idle" /\ Latest = 0
    /\ Run(Origin, b)
    /\ UNCHANGED <<policy, store, held, told, mishaps>>

\* load_latest; a damaged latest is an error and never an older checkpoint.
Load ==
    /\ Readable(Latest)
    /\ held' = Latest
    /\ UNCHANGED <<policy, store, executor, told, mishaps>>

\* check_restore_latest.
\* (mutant of StillLatest: any checkpoint of the trace will do)
StillThere(s) == Readable(s)
StillLatest(s) == s = Latest /\ Readable(Latest)
\* validate_restore_checkpoint.  A checkpoint with next_node = None is a valid one
\* whose restore executes and saves nothing: no step.
Restorable(c, b) == c.next \in Node /\ c.steps < b
Resumed(c) == c
Restore(b) ==
    /\ pc = "idle" /\ StillLatest(held)
    /\ Restorable(files[held], b)
    /\ Run(Resumed(files[held]), b)
    /\ UNCHANGED <<policy, store, held, told, mishaps>>

-----------------------------------------------------------------------------
(* The executor.                                                           *)

Goto(to) == pc' = to /\ UNCHANGED <<mem, budget>>

\* The head of the loop: the budget, then the node.
Top ==
    /\ pc = "top"
    /\ Goto(IF mem.steps + 1 > budget \/ mem.next \notin Node THEN "idle" ELSE "execute")
    /\ UNCHANGED <<policy, store, held, told, mishaps>>

\* The node returns, its mutations are committed and the next node is resolved.
Advanced(c, n) == [walk |-> Append(c.walk, c.next), next |-> n, steps |-> c.steps + 1]
Finish ==
    /\ pc = "execute"
    /\ \E n \in Route[mem.next] : mem' = Advanced(mem, n)
    /\ pc' = "boundary"
    /\ UNCHANGED <<policy, store, held, budget, told, mishaps>>

\* The node or its routing returns an error.
NodeFails ==
    /\ pc = "execute"
    /\ Mishap
    /\ Goto("idle")
    /\ UNCHANGED <<policy, store, held, told>>

\* save_with_trace of the file store: the .tmp file, then the rename.
WriteTmp ==
    /\ pc = "boundary" /\ backend = "file"
    /\ tmp' = tmp \cup {NextSeq}
    /\ Goto("rename")
    /\ UNCHANGED <<policy, files, damaged, held, told, mishaps>>
Publish ==
    /\ pc = (IF backend = "file" THEN "rename" ELSE "boundary")
    /\ files' = With(NextSeq, mem)
    /\ tmp' = tmp \ {NextSeq}
    /\ Goto("saved")
    /\ UNCHANGED <<policy, damaged, held, told, mishaps>>

\* emit_checkpoint returns CheckpointSaveFailed.
\* (mutant of AfterFailedSave: the executor crosses the boundary)
AfterFailedSaveOn == IF mem.next = End THEN "idle" ELSE "top"
AfterFailedSave == "idle"
SaveFails ==
    /\ pc \in {"boundary", "rename"} /\ backend = "file"
    /\ Mishap
    /\ Goto(AfterFailedSave)
    /\ UNCHANGED <<policy, store, held, told>>

\* CheckpointSaved is tried once the save has returned; then KeepLatest(0) is refused.
Announcing == {"saved"}
Announce ==
    /\ pc \in Announcing
    /\ told' \in {told, told \cup {mem.steps}}
    /\ Goto(IF keep = 0 THEN "idle" ELSE "prune")
    /\ UNCHANGED <<policy, store, held, mishaps>>

\* prune deletes the files one by one, the newest first, and gives up at an error; the
\* memory store drops them together.
Prune ==
    /\ pc = "prune" /\ keep # KeepAll
    /\ \E s \in Surplus :
          /\ \A u \in Surplus : u <= s
          /\ files' = Without(IF backend = "file" THEN {s} ELSE Surplus)
    /\ UNCHANGED <<policy, tmp, damaged, held, executor, told, mishaps>>
Proceed ==
    /\ pc = "prune"
    /\ \/ keep = KeepAll
       \/ keep # KeepAll /\ (Surplus = {} \/ backend = "file")
    /\ Goto(IF mem.next = End THEN "idle" ELSE "top")
    /\ UNCHANGED <<policy, store, held, told, mishaps>>

Executor ==
    Top \/ Finish \/ WriteTmp \/ Publish \/ Announce \/ Prune \/ Proceed

\* The executing task dies; the store survives it.
Crash ==
    /\ pc # "idle"
    /\ Mishap
    /\ Goto("idle")
    /\ UNCHANGED <<policy, store, held, told>>

\* A file stops decoding (the store promises nothing against a power failure).
Damage ==
    /\ backend = "file" /\ Scanned # {}
    /\ Mishap
    /\ damaged' = damaged \cup {Latest}
    /\ UNCHANGED <<policy, files, tmp, held, executor, told>>

Next ==
    \/ (\E b \in Budget : Start(b) \/ Restore(b))
    \/ Load
    \/ Executor
    \/ NodeFails \/ SaveFails \/ Crash \/ Damage

Spec == Init /\ [][Next]_vars

\* The executor runs on, and the host starts the run and restores it until it ends.
Fairness ==
    /\ WF_vars(\E b \in Budget : Start(b)) /\ WF_vars(\E b \in Budget : Restore(b))
    /\ WF_vars(Load) /\ WF_vars(Executor)
FairSpec == Spec /\ Fairness

-----------------------------------------------------------------------------
(* Properties.                                                             *)

\* Every variable stays within its type; seqs start at 1.
TypeOK ==
    /\ backend \in {"file", "memory"} /\ keep \in Keep \cup {KeepAll}
    /\ DOMAIN files \subseteq Nat \ {0} /\ files \in [DOMAIN files -> Checkpoint]
    /\ tmp \subseteq Nat \ {0} /\ damaged \subseteq Nat \ {0} /\ held \in Nat
    /\ pc \in {"idle", "top", "execute", "boundary", "rename", "saved", "prune"}
    /\ mem \in Checkpoint /\ budget \in Budget \cup {0}
    /\ told \subseteq Nat /\ mishaps \in 0 .. MaxMishaps

\* What the trace records: its newest checkpoint, readable or not.
Recorded == IF DOMAIN files = {} THEN Origin ELSE files[Greatest(DOMAIN files)]

\* The trace is one walk of the graph: every crash, failed save, prune and restore
\* keeps its end, and no saved boundary is re-executed, skipped or routed again.
Walk == INSTANCE GraphWalk WITH walk <- Recorded.walk, next <- Recorded.next
ContinuesWalk == Walk!Spec

\* emit_checkpoint: no node is executed before the boundary of the one before it is in
\* the trace, so what a crash can lose is the node it interrupts.
NoUnsavedBoundary == pc = "execute" => mem = Recorded

\* steps_used counts every node of the trace, restores included: max_steps is a total.
StepsAreTotal == \A s \in DOMAIN files : files[s].steps = Len(files[s].walk)

\* A step whose CheckpointSaved a consumer has seen is never executed again.
AnnouncedIsRecorded == \A k \in told : k <= Recorded.steps

\* The trace is not behind what was done, counted or said on the strength of it, whatever
\* save fails, whatever is pruned and wherever a crash or a restore comes in between.
TraceIsTrue == NoUnsavedBoundary /\ StepsAreTotal /\ AnnouncedIsRecorded

\* The run ends, as far as its budget and its files allow, however often it dies.
Concluded ==
    /\ pc = "idle" /\ DOMAIN files # {}
    /\ \/ Greatest(DOMAIN files) \in damaged
       \/ Recorded.next \notin Node
       \/ \A b \in Budget : Recorded.steps >= b
RunConcludes == <>[]Concluded
=============================================================================
