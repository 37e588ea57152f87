----------------------------- MODULE ParallelNode -----------------------------
(***************************************************************************)
(* A parallel node outside a durable run: parallel_execute.rs, the engine of  *)
(* each branch (execution_engine.rs, node_context.rs), and the strategies      *)
(* that merge what the branches did: StateMerge on the untyped State, and      *)
(* AgentStateMerge on the agent's typed state.                                *)
(*                                                                         *)
(* Every branch works on its own copy of the parent's state.  What it calls    *)
(* on its NodeContext is buffered and applied when its body returns; its state *)
(* counts only if the body succeeded and did not route anywhere.  A merge that *)
(* may fail is a set of at most one state, empty on a conflict.                *)
(* An operator marked "mutant of" is used by no action.                       *)
(***************************************************************************)
EXTENDS Integers, Sequences, FiniteSets, SequencesExt

CONSTANTS
    Branches,     \* how many branches are registered; they are numbered in that order
    Key, Value,   \* of State, a map
    Reason,       \* the stop reasons and responses of an agent: one value stands for both
    NoReason,     \* None
    StateBase, AgentBase,  \* the parent's state, untyped and typed
    UsizeMax,     \* usize::MAX
    MaxCalls      \* bound on the calls all branches make on their contexts

Branch == 1 .. Branches

ASSUME ParallelAssumption ==
    /\ Branches \in Nat \ {0}
    /\ UsizeMax \in Nat /\ MaxCalls \in Nat
    /\ StateBase \in UNION {[held -> Value] : held \in SUBSET Key}
    /\ AgentBase \in [messages : Seq(Nat), iterations : 0 .. UsizeMax,
                      output_tokens : 0 .. UsizeMax, stop_reason : Reason \cup {NoReason},
                      last_response : Reason \cup {NoReason}]
    \* The messages the parent had are none of those the branches append.
    /\ \A i \in DOMAIN AgentBase.messages : AgentBase.messages[i] \notin Branch

VARIABLES
    strategy,   \* the MergeStrategy of the node
    policy,     \* its ParallelErrorStrategy
    base,       \* the clone taken before the branches start
    parent,     \* the state the parent's engine borrows
    calls,      \* per branch: the mutations its context has buffered
    control,    \* per branch: ExecutionControl
    done,       \* per branch: "running", "ok", or why it failed
    states,     \* per branch that is "ok": its state
    errors,     \* the failures, in the order they came
    suspended, stopped,
    group,      \* group_cancel is cancelled
    cancel,     \* the parent's token is
    outcome     \* what execute returned

vars == <<strategy, policy, base, parent, calls, control, done, states, errors,
          suspended, stopped, group, cancel, outcome>>

-----------------------------------------------------------------------------
(* Mutations.                                                               *)

Put(k, v) == [kind |-> "Put", key |-> k, value |-> v]
Delete(k) == [kind |-> "Delete", key |-> k]
StateMutation == {Put(k, v) : k \in Key, v \in Value} \cup {Delete(k) : k \in Key}

\* The message a branch appends is its own number.
AgentMutation(b) ==
    {[kind |-> "AppendMessage", value |-> b], [kind |-> "IncrementIteration"],
     [kind |-> "ReplaceMessages", value |-> <<>>]} \cup
    [kind : {"AddOutputTokens"}, value : {b}] \cup
    [kind : {"SetStopReason", "SetLastResponse"}, value : Reason]

Mutation(b) == IF strategy = "AgentStateMerge" THEN AgentMutation(b) ELSE StateMutation

Without(s, k) == [j \in DOMAIN s \ {k} |-> s[j]]
ApplyState(s, m) ==
    IF m.kind = "Delete" THEN Without(s, m.key)
    ELSE [j \in DOMAIN s \cup {m.key} |-> IF j = m.key THEN m.value ELSE s[j]]

\* An addition that overflows wraps around, as in a release build.
Plus(n, d) == (n + d) % (UsizeMax + 1)
ApplyAgent(s, m) ==
    CASE m.kind = "AppendMessage"      -> [s EXCEPT !.messages = Append(@, m.value)]
      [] m.kind = "ReplaceMessages"    -> [s EXCEPT !.messages = m.value]
      [] m.kind = "IncrementIteration" -> [s EXCEPT !.iterations = Plus(@, 1)]
      [] m.kind = "AddOutputTokens"    -> [s EXCEPT !.output_tokens = Plus(@, m.value)]
      [] m.kind = "SetStopReason"      -> [s EXCEPT !.stop_reason = m.value]
      [] m.kind = "SetLastResponse"    -> [s EXCEPT !.last_response = m.value]

apply_batch(s, batch) ==
    IF strategy = "AgentStateMerge" THEN FoldLeft(ApplyAgent, s, batch)
    ELSE FoldLeft(ApplyState, s, batch)

-----------------------------------------------------------------------------
(* Merging.  all is the sequence of the branches' states, in the order the    *)
(* branches were registered.                                                  *)

Entry(s, k) == IF k \in DOMAIN s THEN <<s[k]>> ELSE <<>>
\* mutant of Changes: a key that is gone is not a change
ChangesIfHeld(from, s, k) == k \in DOMAIN s /\ Entry(from, k) # Entry(s, k)
Changes(from, s, k) == Entry(from, k) # Entry(s, k)

StateMerge(from, all) ==
    LET writers(k) == {i \in DOMAIN all : Changes(from, all[i], k)}
        merged(k) == IF writers(k) = {} THEN Entry(from, k)
                     ELSE Entry(all[CHOOSE i \in writers(k) : TRUE], k)
        held == {k \in Key : merged(k) # <<>>}
    IN IF \E k \in Key : Cardinality(writers(k)) > 1 THEN {}
       ELSE {[k \in held |-> merged(k)[1]]}

MergedMessages(from, all) ==
    LET appends  == {i \in DOMAIN all : IsPrefix(from, all[i])}
        replaces == DOMAIN all \ appends
        Suffix(ms) == SubSeq(ms, Len(from) + 1, Len(ms))
    IN IF replaces = {} THEN {from \o FlattenSeq([i \in DOMAIN all |-> Suffix(all[i])])}
       ELSE IF Cardinality(replaces) = 1 /\ \A i \in appends : all[i] = from
            THEN {all[i] : i \in replaces}
            ELSE {}

Added(values) == FoldLeft(LAMBDA n, v : n + v, 0, values)
SumOf(from, values) == from + Added([i \in DOMAIN values |-> values[i] - from])
MergedCounter(from, values, combined) ==
    LET changed == {i \in DOMAIN values : values[i] # from}
    IN IF changed = {} THEN {from}
       ELSE IF Cardinality(changed) = 1 THEN {values[i] : i \in changed}
       ELSE IF \E i \in changed : values[i] < from THEN {}
       ELSE {n \in {combined} : n <= UsizeMax}
MaxOf(from, values) == FoldLeft(LAMBDA n, v : IF v > n THEN v ELSE n, from, values)

Terminal(s) == <<s.stop_reason, s.last_response>>
\* mutant of MergedTerminal: each of the two is merged by itself
MergedApart(from, all) ==
    LET of(n) == {i \in DOMAIN all : Terminal(all[i])[n] # Terminal(from)[n]}
        one(n) == IF of(n) = {} THEN {Terminal(from)[n]}
                  ELSE IF Cardinality(of(n)) = 1 THEN {Terminal(all[i])[n] : i \in of(n)}
                  ELSE {}
    IN one(1) \X one(2)
MergedTerminal(from, all) ==
    LET changed == {i \in DOMAIN all : Terminal(all[i]) # Terminal(from)}
    IN IF changed = {} THEN {Terminal(from)}
       ELSE IF Cardinality(changed) = 1 THEN {Terminal(all[i]) : i \in changed}
       ELSE {}

AgentStateMerge(from, all) ==
    LET of(f) == [i \in DOMAIN all |-> all[i][f]]
    IN {[messages |-> ms, iterations |-> n, output_tokens |-> t,
         stop_reason |-> e[1], last_response |-> e[2]] :
            ms \in MergedMessages(from.messages, of("messages")),
            n \in MergedCounter(from.iterations, of("iterations"), MaxOf(from.iterations, of("iterations"))),
            t \in MergedCounter(from.output_tokens, of("output_tokens"),
                                SumOf(from.output_tokens, of("output_tokens"))),
            e \in MergedTerminal(from, all)}

Merge(from, all) ==
    IF strategy = "AgentStateMerge" THEN AgentStateMerge(from, all) ELSE StateMerge(from, all)

-----------------------------------------------------------------------------
NoControl == [next |-> "Next", paused |-> FALSE]
NoOutcome == [kind |-> "none", errors |-> <<>>]
Returned(kind, es) == [kind |-> kind, errors |-> es]

Init ==
    /\ strategy \in {"StateMerge", "AgentStateMerge"}
    /\ policy \in {"FailFast", "CollectAll"}
    /\ base = IF strategy = "AgentStateMerge" THEN AgentBase ELSE StateBase
    /\ parent = base
    /\ calls = [b \in Branch |-> <<>>]
    /\ control = [b \in Branch |-> NoControl]
    /\ done = [b \in Branch |-> "running"]
    /\ states = [b \in Branch |-> <<>>]
    /\ errors = <<>> /\ suspended = FALSE /\ stopped = FALSE
    /\ group = FALSE /\ cancel = FALSE /\ outcome = NoOutcome

Running(b) == outcome = NoOutcome /\ done[b] = "running"

Routed == {b \in Branch : control[b] # NoControl}
Made == FoldLeft(LAMBDA n, s : n + Len(s), 0, calls) + Cardinality(Routed)

\* The body of branch b calls record, goto, end or pause.
Record(b) ==
    /\ Running(b) /\ Made < MaxCalls
    /\ \E m \in Mutation(b) : calls' = [calls EXCEPT ![b] = Append(@, m)]
    /\ UNCHANGED <<strategy, policy, base, parent, control, done, states, errors,
                   suspended, stopped, group, cancel, outcome>>

Route(b) ==
    /\ Running(b) /\ (b \in Routed \/ Made < MaxCalls)
    /\ \/ \E n \in {"Goto", "End"} : control' = [control EXCEPT ![b].next = n]
       \/ control' = [control EXCEPT ![b].paused = TRUE]
    /\ UNCHANGED <<strategy, policy, base, parent, calls, done, states, errors,
                   suspended, stopped, group, cancel, outcome>>

\* The graph of a branch is its body, with one step and no barrier handler.
BodyResult(b) ==
    CASE control[b].paused        -> "BarrierHandlerMissing"
      [] control[b].next = "Goto" -> "StepsExceeded"
      [] OTHER                    -> "ok"

\* The branch ends; what its context buffered is dropped with its engine.
Ends(b, why) ==
    /\ done' = [done EXCEPT ![b] = why]
    /\ calls' = [calls EXCEPT ![b] = <<>>] /\ control' = [control EXCEPT ![b] = NoControl]
    /\ UNCHANGED <<strategy, policy, base, parent, states, cancel, outcome>>

Failed(b, why) == [branch |-> b, error |-> why]
\* mutant of Fails: the latest failure comes first
FailsFirst(b, why) ==
    /\ Ends(b, why) /\ errors' = <<Failed(b, why)>> \o errors
    /\ group' = (group \/ policy = "FailFast") /\ UNCHANGED <<suspended, stopped>>
\* mutant of Fails: nobody is cancelled
FailsAlone(b, why) ==
    /\ Ends(b, why) /\ errors' = Append(errors, Failed(b, why))
    /\ UNCHANGED <<group, suspended, stopped>>
\* A failure is recorded before the siblings are cancelled.
Fails(b, why) ==
    /\ Ends(b, why) /\ errors' = Append(errors, Failed(b, why))
    /\ group' = (group \/ policy = "FailFast") /\ UNCHANGED <<suspended, stopped>>

\* The body of branch b returns Ok: commit, then take_control.
Completes(b) ==
    /\ Running(b)
    /\ IF BodyResult(b) = "ok"
       THEN /\ done' = [done EXCEPT ![b] = "ok"]
            /\ states' = [states EXCEPT ![b] = apply_batch(base, calls[b])]
            /\ UNCHANGED <<strategy, policy, base, parent, calls, control, errors,
                           suspended, stopped, group, cancel, outcome>>
       ELSE Fails(b, BodyResult(b))

\* The body returns an error of its own, or the one it makes of a cancelled token.
NodeFails(b) == Running(b) /\ Fails(b, "NodeExecutionFailed")
SeesCancel(b) == Running(b) /\ (group \/ cancel) /\ Fails(b, "Cancelled")

\* In a durable run a branch may suspend, or find the run stopped.
Suspends(b) ==
    /\ Running(b) /\ Ends(b, "Suspended") /\ suspended' = TRUE
    /\ UNCHANGED <<errors, stopped, group>>

Stops(b) ==
    /\ Running(b) /\ Ends(b, "Stopped") /\ stopped' = TRUE /\ group' = TRUE
    /\ UNCHANGED <<errors, suspended>>

\* Whoever runs the parent cancels its token, of which the group's is a child.
CancelParent ==
    /\ outcome = NoOutcome /\ ~cancel
    /\ cancel' = TRUE
    /\ UNCHANGED <<strategy, policy, base, parent, calls, control, done, states, errors,
                   suspended, stopped, group, outcome>>

\* What execute returns when no branch runs any more.
Failure ==
    IF stopped THEN Returned("Stopped", <<>>)
    ELSE IF errors # <<>>
    THEN IF policy = "CollectAll" THEN Returned("ParallelFailures", errors)
         ELSE Returned("NodeExecutionFailed", <<Head(errors)>>)
    ELSE Returned("Suspended", <<>>)

Settle ==
    /\ outcome = NoOutcome /\ \A b \in Branch : done[b] # "running"
    /\ IF stopped \/ errors # <<>> \/ suspended
       THEN outcome' = Failure /\ UNCHANGED parent
       ELSE \/ \E s \in Merge(base, states) :
                  parent' = s /\ outcome' = Returned("Ok", <<>>)
            \/ /\ Merge(base, states) = {}
               /\ outcome' = Returned("StateError", <<>>) /\ UNCHANGED parent
    /\ UNCHANGED <<strategy, policy, base, calls, control, done, states, errors,
                   suspended, stopped, group, cancel>>

Next ==
    \/ \E b \in Branch :
          Record(b) \/ Route(b) \/ Completes(b) \/ NodeFails(b) \/ SeesCancel(b)
          \/ Suspends(b) \/ Stops(b)
    \/ CancelParent
    \/ Settle

Spec == Init /\ [][Next]_vars

\* Only a body that is cancelled is known to return: the node cooperates.
Fairness == (\A b \in Branch : WF_vars(SeesCancel(b))) /\ WF_vars(Settle)
FairSpec == Spec /\ Fairness

-----------------------------------------------------------------------------
(* Properties.                                                              *)

Order == {f \in [Branch -> Branch] : \A i, j \in Branch : f[i] = f[j] => i = j}

\* With StateMerge, what the parent holds under each key is what the branches' mutations would
\* have made of it one branch after the other, in some order: no write and no deletion of a
\* branch is lost, and none comes back (StateMerge::merge).  The order may differ from key to
\* key: states are compared, not mutations, so that a write of what was already there is none.
MergeIsSerialByKey ==
    strategy = "StateMerge" /\ outcome.kind = "Ok" =>
        \A k \in Key : \E f \in Order :
            Entry(parent, k) = Entry(apply_batch(base, FlattenSeq([i \in Branch |-> calls[f[i]]])), k)

Total(b) == Added([i \in DOMAIN calls[b] |->
                     IF calls[b][i].kind = "AddOutputTokens" THEN calls[b][i].value ELSE 0])
Appended(b) == {i \in DOMAIN calls[b] : calls[b][i].kind = "AppendMessage"}
Rewrites(b) == \E i \in DOMAIN calls[b] : calls[b][i].kind = "ReplaceMessages"
Count(ms, b) == Cardinality({i \in DOMAIN ms : ms[i] = b})

\* With AgentStateMerge the parent's state keeps every message a branch appended to the
\* history it was given, counts every token once, and ends for a reason that one state
\* really ended for, with that state's response (typed_state_merge.rs).
AgentMergeKeepsAll ==
    strategy = "AgentStateMerge" /\ outcome.kind = "Ok" =>
        /\ \A b \in Branch : ~Rewrites(b) =>
              Count(parent.messages, b) = Count(base.messages, b) + Cardinality(Appended(b))
        /\ (\A b \in Branch : base.output_tokens + Total(b) <= UsizeMax) =>
              parent.output_tokens = base.output_tokens + Added([b \in Branch |-> Total(b)])
        /\ Terminal(parent) \in {Terminal(states[b]) : b \in Branch}

\* The error of a fail-fast node is the first failure, never one its own cancellation
\* caused; and the parent's state is still the one the branches were given, whatever
\* they did, unless all of them succeeded (parallel_execute.rs, ParallelErrorStrategy).
FirstFailureTold ==
    /\ outcome.kind = "NodeExecutionFailed" /\ ~cancel => outcome.errors[1].error # "Cancelled"
    /\ outcome # NoOutcome /\ (\E b \in Branch : done[b] # "ok") =>
          outcome.kind # "Ok" /\ parent = base

\* A branch that would run on until it is cancelled does not keep a fail-fast node from
\* returning once another branch has failed (parallel_execute.rs:64).
FailFastEnds == (policy = "FailFast" /\ errors # <<>>) ~> (outcome # NoOutcome)
=============================================================================
