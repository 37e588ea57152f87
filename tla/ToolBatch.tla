------------------------------ MODULE ToolBatch ------------------------------
(* The tool executor of lellm-agent (runtime/tools/executor.rs with            *)
(* runtime/retry.rs): one batch of tool calls at a time is run against a       *)
(* snapshot of a catalogue that other tasks may change meanwhile.              *)
(*                                                                             *)
(* run_batch_internal spawns one task per group: the Safe group spawns a task  *)
(* per call, every category and the exclusive calls run one after another in   *)
(* the order of the calls.  All groups run concurrently and the batch ends     *)
(* when the last of them has.  A panic of a tool ends the task it runs in: the *)
(* call alone in the Safe group, the whole group elsewhere.                    *)
(*                                                                             *)
(* In a durable run (runtime/tools/durable.rs) every call is a task of the     *)
(* run's record: its start and its result are saved, the exclusive calls come  *)
(* after all others, and a call that cannot go on stops its group and, when    *)
(* the others have ended, the process.  The batch is then taken up again from  *)
(* the record.  The record itself is the subject of DurableRun.                *)
(*                                                                             *)
(* A tool's arguments, its result's text and the duration are left out; a      *)
(* result says only whether it reports success.                                *)
EXTENDS Integers, Sequences, FiniteSets

CONSTANTS
  Tools,         \* names a model may call
  Safety,        \* ParallelSafety of each tool
  Category,      \* ToolCategory of each tool, NoCategory when it has none
  NoCategory,
  Manual,        \* tools under ToolReplayPolicy::ManualRecovery
  MaxAttempts,   \* RetryPolicy::max_attempts: first execution and retries
  MaxCalls,      \* bound: calls in one response
  MaxChanges,    \* bound: changes of the catalogue
  MaxMishaps     \* bound: crashes, panics and repeated calls of durable runs

ASSUME ToolBatchAssumption ==
  /\ Safety \in [Tools -> {"Safe", "CategoryExclusive", "Exclusive"}]
  /\ NoCategory \in STRING
  /\ Category \in [Tools -> STRING]
  /\ \A t \in Tools : Category[t] \notin {"safe", "exclusive"}
  /\ Manual \subseteq Tools
  /\ MaxAttempts \in Nat \ {0}
  /\ MaxCalls \in Nat
  /\ MaxChanges \in Nat
  /\ MaxMishaps \in Nat

VARIABLES
  durable,   \* TaskRuntime::current() is there
  mishaps,
  catalog,   \* the tools the catalogue holds now
  changes,   \* how often it changed
  calls,     \* the batch: the tool each call names, in the order of the response
  frozen,    \* the snapshot the batch was given
  open,      \* a process is at work on the batch
  stuck,     \* the calls at which it has given up a group
  status,    \* per call: queued, running, backoff, answered; of a durable one, what
             \* the record says while no process knows more: started, saved, unknown
  attempts,  \* per call: executions so far
  returned,  \* history, per call: what the tool itself last gave
  result     \* per call: what the batch reports, "none" before

callVars == <<calls, frozen, open, stuck, status, attempts, returned, result>>
batchVars == <<durable, mishaps, catalog, changes, callVars>>

Calls == DOMAIN calls
Mishap == mishaps < MaxMishaps /\ mishaps' = mishaps + 1
InBatch == calls # <<>>
CallLists == UNION {[1..n -> Tools] : n \in 1..MaxCalls}

-----------------------------------------------------------------------------
(* Groups                                                                    *)

\* A tool the snapshot lacks, and a CategoryExclusive tool without a category,
\* are downgraded to Exclusive.
GroupOf(i) ==
  LET t == calls[i] IN
  CASE t \in frozen /\ Safety[t] = "Safe" -> "safe"
    [] t \in frozen /\ Safety[t] = "CategoryExclusive"
         /\ Category[t] # NoCategory -> Category[t]
    [] OTHER -> "exclusive"

Group(i) == {j \in Calls : GroupOf(j) = GroupOf(i)}
IsSerial(i) == GroupOf(i) # "safe"

Waiting(i) == open /\ i \notin stuck /\ status[i] \in {"queued", "started", "saved"}

\* run_serial_indexed reaches a call when the earlier ones of its group are done.
InTurn(i) == IsSerial(i) => \A j \in Group(i) : j < i => status[j] = "answered"

\* Mutant: a durable batch starts its exclusive calls with the others.
MayStartAtOnce(i) == Waiting(i) /\ InTurn(i)

\* execute_durable_batch waits for all other groups before it runs the exclusive one.
MayStart(i) ==
  /\ Waiting(i) /\ InTurn(i)
  /\ durable /\ GroupOf(i) = "exclusive" =>
       \A j \in Calls : GroupOf(j) # "exclusive" => status[j] = "answered"

-----------------------------------------------------------------------------
(* Actions                                                                   *)

BatchInit ==
  /\ durable \in BOOLEAN
  /\ mishaps = 0
  /\ catalog = Tools
  /\ changes = 0
  /\ calls = <<>>
  /\ frozen = {}
  /\ open = FALSE
  /\ stuck = {}
  /\ status = <<>>
  /\ attempts = <<>>
  /\ returned = <<>>
  /\ result = <<>>

\* A source of the catalogue adds or drops a tool at any time.
CatalogChange ==
  /\ changes < MaxChanges
  /\ \E t \in Tools :
       catalog' = IF t \in catalog THEN catalog \ {t} ELSE catalog \union {t}
  /\ changes' = changes + 1
  /\ UNCHANGED <<durable, mishaps, callVars>>

\* execute_batch: take the snapshot, form the groups, spawn them.
Begin(cs) ==
  /\ ~InBatch
  /\ calls' = cs
  /\ frozen' = catalog
  /\ open' = TRUE
  /\ status' = [i \in DOMAIN cs |-> "queued"]
  /\ attempts' = [i \in DOMAIN cs |-> 0]
  /\ returned' = [i \in DOMAIN cs |-> "none"]
  /\ result' = [i \in DOMAIN cs |-> "none"]
  /\ UNCHANGED <<durable, mishaps, catalog, changes, stuck>>

\* DurableRuntime::resume, which refuses while an outcome is unknown, takes the batch up
\* with a snapshot of its own.
Reopen ==
  /\ InBatch /\ ~open
  /\ \A i \in Calls : status[i] # "unknown"
  /\ open' = TRUE
  /\ frozen' = catalog
  /\ UNCHANGED <<durable, mishaps, catalog, changes, calls, stuck, status, attempts,
                 returned, result>>

Becomes(i, s) == status' = [status EXCEPT ![i] = s]
Answer(i, s, r) == Becomes(i, s) /\ result' = [result EXCEPT ![i] = r]

\* dispatch_call finds the tool and executes it; TaskRuntime::execute repeats a call that
\* was started by an earlier process only if the tool allows it, ...
Start(i) ==
  /\ MayStart(i)
  /\ calls[i] \in frozen
  /\ status[i] = "queued" \/ (status[i] = "started" /\ calls[i] \notin Manual)
  /\ Becomes(i, "running")
  /\ attempts' = [attempts EXCEPT ![i] = @ + 1]
  /\ UNCHANGED <<durable, mishaps, catalog, changes, calls, frozen, open, stuck, returned, result>>

\* ... and otherwise leaves it to somebody who can tell what became of it; ...
Doubt(i) ==
  /\ MayStart(i)
  /\ calls[i] \in frozen
  /\ status[i] = "started" /\ calls[i] \in Manual
  /\ Becomes(i, "unknown")
  /\ UNCHANGED <<durable, mishaps, catalog, changes, calls, frozen, open, stuck, attempts,
                 returned, result>>

\* ... a result that is saved is read; ...
Fetch(i) ==
  /\ MayStart(i)
  /\ calls[i] \in frozen
  /\ status[i] = "saved"
  /\ Becomes(i, "answered")
  /\ UNCHANGED <<durable, mishaps, catalog, changes, calls, frozen, open, stuck, attempts,
                 returned, result>>

\* ... an unknown tool is answered as such, but stops a durable batch, which asks for the
\* tool before it looks for a result.
Unknown(i) ==
  /\ MayStart(i)
  /\ calls[i] \notin frozen
  /\ IF durable THEN stuck' = stuck \union {i} /\ UNCHANGED <<status, result>>
                ELSE Answer(i, "answered", "error") /\ UNCHANGED stuck
  /\ UNCHANGED <<durable, mishaps, catalog, changes, calls, frozen, open, attempts, returned>>

\* RetryPolicy::execute: a success or an error that is not retryable is final,
\* and so is the error of the last attempt; another one is slept on.  durable_one calls
\* a tool that may not be repeated once, and takes no error for an answer.
Return(i) ==
  /\ status[i] = "running"
  /\ \E out \in {"ok", "fatal", "retryable"} :
       /\ returned' = [returned EXCEPT ![i] = out]
       /\ IF durable /\ calls[i] \in Manual /\ out # "ok"
            THEN Becomes(i, "unknown") /\ UNCHANGED result
          ELSE IF out = "retryable" /\ attempts[i] < MaxAttempts
            THEN Becomes(i, "backoff") /\ UNCHANGED result
            ELSE Answer(i, "answered", IF out = "ok" THEN "ok" ELSE "error")
  /\ UNCHANGED <<durable, mishaps, catalog, changes, calls, frozen, open, stuck, attempts>>

\* ... and executed again.
Retry(i) ==
  /\ status[i] = "backoff"
  /\ Becomes(i, "running")
  /\ attempts' = [attempts EXCEPT ![i] = @ + 1]
  /\ UNCHANGED <<durable, mishaps, catalog, changes, calls, frozen, open, stuck, returned, result>>

\* Mutant: the calls of the Safe group share one task.
LostTogether(i) == Group(i)

\* The calls that are lost with the task in which i panics: run_serial_indexed
\* keeps its results in the task, so those it had are lost with it.
LostWith(i) == IF IsSerial(i) THEN Group(i) ELSE {i}

\* A tool panics: join_all sees a JoinError and an error is filled in.
Panic(i) ==
  /\ ~durable
  /\ status[i] = "running"
  /\ status' = [j \in Calls |-> IF j \in LostWith(i) THEN "answered" ELSE status[j]]
  /\ result' = [j \in Calls |-> IF j \in LostWith(i) THEN "error" ELSE result[j]]
  /\ returned' = [returned EXCEPT ![i] = "panic"]
  /\ UNCHANGED <<durable, mishaps, catalog, changes, calls, frozen, open, stuck, attempts>>

\* TaskRuntime::execute catches the panic of a durable call and makes it an error.
Caught(i) ==
  /\ durable
  /\ status[i] = "running"
  /\ Mishap
  /\ IF calls[i] \in Manual THEN Becomes(i, "unknown") /\ UNCHANGED stuck
                            ELSE Becomes(i, "started") /\ stuck' = stuck \union {i}
  /\ returned' = [returned EXCEPT ![i] = "panic"]
  /\ UNCHANGED <<durable, catalog, changes, calls, frozen, open, attempts, result>>

Forget ==
  /\ calls' = <<>>
  /\ frozen' = {}
  /\ open' = FALSE
  /\ stuck' = {}
  /\ status' = <<>>
  /\ attempts' = <<>>
  /\ returned' = <<>>
  /\ result' = <<>>

\* The last group has ended: the results go to the caller in the calls' order.
Collect ==
  /\ InBatch
  /\ \A i \in Calls : status[i] = "answered"
  /\ Forget
  /\ UNCHANGED <<durable, mishaps, catalog, changes>>

\* What the record holds of a call whose process is gone.
Left(s) == CASE s \in {"running", "backoff"} -> "started"
             [] s = "answered" -> "saved"
             [] OTHER -> s

Suspend ==
  /\ frozen' = {}
  /\ open' = FALSE
  /\ stuck' = {}
  /\ status' = [i \in Calls |-> Left(status[i])]
  /\ attempts' = [i \in Calls |-> 0]
  /\ UNCHANGED <<calls, returned, result>>

\* All groups have ended, and not all with their results: execute_durable_batch returns
\* the first error.
GiveUp ==
  /\ durable /\ open
  /\ \A i \in Calls : status[i] \notin {"running", "backoff"} /\ ~MayStart(i)
  /\ \E i \in Calls : status[i] # "answered"
  /\ Suspend
  /\ UNCHANGED <<durable, mishaps, catalog, changes>>

\* The process dies with the batch, or while there is none.
Die ==
  /\ Mishap
  /\ IF ~open THEN UNCHANGED callVars ELSE IF durable THEN Suspend ELSE Forget
  /\ UNCHANGED <<durable, catalog, changes>>

\* resolve_task: somebody found out what became of a call, or lets it be made again.
Reconcile(i) ==
  /\ InBatch /\ ~open
  /\ status[i] \in {"started", "unknown"}
  /\ \/ /\ \E r \in {"ok", "error"} : Answer(i, "saved", r)
        /\ returned' = [returned EXCEPT ![i] = "resolved"]
        /\ UNCHANGED mishaps
     \/ Mishap /\ Becomes(i, "queued") /\ UNCHANGED <<returned, result>>
  /\ UNCHANGED <<durable, catalog, changes, calls, frozen, open, stuck, attempts>>

\* What the tasks of a batch do.
CallStep(i) ==
  Start(i) \/ Doubt(i) \/ Fetch(i) \/ Unknown(i) \/ Return(i) \/ Retry(i) \/ Panic(i) \/ Caught(i)

BatchNext ==
  \/ CatalogChange
  \/ \E cs \in CallLists : Begin(cs)
  \/ Reopen
  \/ \E i \in Calls : CallStep(i) \/ Reconcile(i)
  \/ Collect \/ GiveUp \/ Die

BatchSpec == BatchInit /\ [][BatchNext]_batchVars

-----------------------------------------------------------------------------
(* Properties                                                                *)

Status == {"queued", "running", "backoff", "answered", "started", "saved", "unknown"}
BatchTypeOK ==
  /\ durable \in BOOLEAN
  /\ mishaps \in 0..MaxMishaps
  /\ catalog \subseteq Tools
  /\ changes \in 0..MaxChanges
  /\ calls \in CallLists \union {<<>>}
  /\ frozen \subseteq Tools
  /\ open \in BOOLEAN
  /\ stuck \subseteq Calls
  /\ status \in [Calls -> Status]
  /\ attempts \in [Calls -> 0..MaxAttempts]
  /\ returned \in [Calls -> {"none", "ok", "fatal", "retryable", "panic", "resolved"}]
  /\ result \in [Calls -> {"none", "ok", "error"}]

\* A call whose execution has begun and is not over; its backoff counts.
Active(i) == status[i] \in {"running", "backoff"}

\* Two calls of one category, or two exclusive ones, are never under way together: neither
\* overlaps the other's execution nor its retries.  In a durable run an exclusive call
\* overlaps no other at all, whatever died before and whatever the catalogue has become.
OneAtATime ==
  \A i, j \in Calls :
    i # j /\ Active(i) /\ Active(j) =>
      /\ GroupOf(i) = GroupOf(j) => ~IsSerial(i)
      /\ durable => GroupOf(i) # "exclusive"

\* Some call of i's task group panicked.
GroupPanicked(i) == \E j \in LostWith(i) : returned[j] = "panic"

Done(i) == status[i] \in {"answered", "saved"}

\* The batch never reports a success that neither the tool returned nor somebody vouched
\* for, and reports an error for a call that succeeded only if a call of its serial group
\* panicked; a durable batch never does.
ReportsAreTrue ==
  \A i \in Calls : Done(i) =>
    /\ result[i] = "ok" => returned[i] \in {"ok", "resolved"}
    /\ result[i] = "error" /\ returned[i] = "ok" =>
         ~durable /\ IsSerial(i) /\ GroupPanicked(i)
    /\ result[i] # "none"

\* A call that has its answer is never executed again within its batch; a durable one
\* keeps that answer through every restart.
AnswersAreFinal ==
  [][InBatch /\ calls' # <<>> =>
       \A i \in Calls : Done(i) =>
         /\ Done(i)' /\ attempts'[i] <= attempts[i]
         /\ durable => result'[i] = result[i]]_batchVars
=============================================================================
