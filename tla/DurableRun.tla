------------------------------ MODULE DurableRun ------------------------------
(***************************************************************************)
(* One durable run of lellm-graph: the record a DurableStore keeps, the     *)
(* process that executes the graph under the run's exclusive lease, the     *)
(* clients that decide approvals, reconcile tasks and cancel, the external  *)
(* system that tasks call, the clock, crashes and failing saves.            *)
(*                                                                         *)
(* Every update of the record is one step: FrameScope::update clones the    *)
(* record, edits it, adds one to its revision and saves it whole.  Branches *)
(* of a parallel node are futures polled by one task, so a frame keeps the  *)
(* processor from one await to the next (InSegment).                        *)
(*                                                                         *)
(* No action uses an operator whose comment reads "mutant of": it is the     *)
(* operator after it with a plausible bug, kept to show that a property can  *)
(* tell the two apart.                                                      *)
(***************************************************************************)
EXTENDS Naturals, FiniteSets

CONSTANTS
    Frame, Root,   \* graph calls of the run (root, subgraph, parallel branch), by path
    Node, End,     \* graph nodes; End stands for next_node = None
    Graph,         \* the nodes of a frame's graph
    Entry,         \* its start node
    Route,         \* the nodes routing may choose after a node, End among them
    Kind,          \* what a node does when executed
    Parent,        \* the invocation [frame, node, invocation] that calls a frame
    Budget,        \* max_steps of a frame; the root's is the whole run's
    Manual,        \* task nodes under ReplayPolicy::ManualRecovery
    Timed,         \* barrier nodes with a timeout
    FailFast,      \* group nodes whose first failure cancels the siblings
    Request,       \* client request ids
    NoRequest,
    MaxRevision,   \* the value revision.checked_add(1) refuses to pass (u64::MAX)
    MaxMishaps     \* bound on crashes, failed saves and external errors together

Kinds == {"plain", "task", "barrier", "group"}

ASSUME TopologyAssumption ==
    /\ Root \in Frame /\ End \notin Node /\ NoRequest \notin Request
    /\ IsFiniteSet(Request)
    /\ Graph \in [Frame -> SUBSET Node]
    /\ Entry \in [Frame -> Node] /\ \A f \in Frame : Entry[f] \in Graph[f]
    /\ Route \in [Node -> SUBSET (Node \cup {End})]
    /\ \A f \in Frame : \A n \in Graph[f] : Route[n] \subseteq Graph[f] \cup {End}
    /\ Kind \in [Node -> Kinds]
    /\ Parent \in [Frame \ {Root} -> [frame : Frame, node : Node, invocation : Nat]]
    /\ Budget \in [Frame -> Nat]
    /\ Manual \subseteq Node /\ Timed \subseteq Node /\ FailFast \subseteq Node
    /\ MaxRevision \in Nat /\ MaxMishaps \in Nat

-----------------------------------------------------------------------------
(* The record.  What the code's maps do not hold yet is present here as      *)
(* "Absent"; a FrameRecord is "Active" while its current invocation is begun  *)
(* and "Idle" between two.                                                 *)

Invocation == UNION {{f} \X Graph[f] \X (1 .. Budget[f]) : f \in Frame}
ApprovalId == {x \in Invocation : Kind[x[2]] = "barrier"}
TaskId     == {x \in Invocation : Kind[x[2]] = "task"}

Live     == {"Running", "Suspended"}
Halted   == {"Rejected", "Expired", "Cancelled"}
RunStatus == Live \cup Halted \cup {"Completed"}
Decision == {"Approve", "Reject"}
TaskStatus == {"Planned", "Started", "Completed", "Unknown"}
TaskResolution == {"Completed", "Retry"}

FrameRecord ==
    [phase : {"Absent", "Idle", "Active"}, next_node : Node \cup {End}, steps_used : Nat]
ApprovalRequest ==
    [decision : Decision \cup {"Absent", "Awaited"}, request_id : Request \cup {NoRequest},
     accepted_revision : Nat]
TaskRecord ==
    [status : TaskStatus \cup {"Absent"},
     resolutions : [Request -> TaskResolution \cup {"None"}]]
RunRecord ==
    [status : RunStatus \cup {"Absent"}, revision : Nat, steps_used : Nat,
     frames : [Frame -> FrameRecord], approvals : [ApprovalId -> ApprovalRequest],
     applied : SUBSET ApprovalId, tasks : [TaskId -> TaskRecord]]

NewFrame(f) == [phase |-> "Idle", next_node |-> Entry[f], steps_used |-> 0]
NoApproval ==
    [decision |-> "Absent", request_id |-> NoRequest, accepted_revision |-> 0]
NoTask ==
    [status |-> "Absent", resolutions |-> [q \in Request |-> "None"]]

NoRecord ==
    [status |-> "Absent", revision |-> 0, steps_used |-> 0,
     frames |-> [f \in Frame |-> [NewFrame(f) EXCEPT !.phase = "Absent"]],
     approvals |-> [a \in ApprovalId |-> NoApproval], applied |-> {},
     tasks |-> [t \in TaskId |-> NoTask]]
RootRecord ==
    [NoRecord EXCEPT !.status = "Running", !.frames[Root].phase = "Idle"]

\* The invocation a frame's cursor stands at: NodeScope::id.
\* (mutant of At: an approval or a task is named by its node alone)
AtWithoutInvocation(r, f) == <<f, r.frames[f].next_node, 1>>
At(r, f) == <<f, r.frames[f].next_node, r.frames[f].steps_used>>

\* The approvals that hold back DurableRuntime::execute.
Asked(r) == {a \in ApprovalId : r.approvals[a].decision # "Absent"}
Pending(r) == {a \in ApprovalId : r.approvals[a].decision = "Awaited"}
AnyUnknown(r) == \E t \in TaskId : r.tasks[t].status = "Unknown"

\* RunRecord::validate: what every load demands.
Valid(r) ==
    /\ r.frames[Root].phase # "Absent" /\ r.steps_used <= Budget[Root]
    /\ r.status = "Completed" => r.frames[Root].next_node = End
    /\ \A f \in Frame : /\ r.frames[f].steps_used <= Budget[f]
                       /\ r.frames[f].phase = "Active" => r.frames[f].next_node # End
    /\ \A a \in ApprovalId :
          /\ a \in Asked(r) => r.frames[a[1]].phase # "Absent"
          /\ a \in r.applied => r.approvals[a].decision \in Decision
          /\ r.approvals[a].accepted_revision <= r.revision

-----------------------------------------------------------------------------
VARIABLES
    disk,       \* the record in the store
    mem,        \* Session::record, the executing process's copy
    host,       \* "up" while a process executes the run under its lease
    poisoned,   \* Session::poisoned: a save of this session failed
    cancelled,  \* the host's root CancellationToken
    cut,        \* frames whose group_cancel token was cancelled
    pc,         \* where each frame's run_graph_loop stands
    due,        \* approvals whose deadline has passed on the system clock
    calls,      \* external calls sent for each task
    acked,      \* decisions whose receipt a client has been given
    mishaps     \* crashes, failed saves and external errors so far

vars == <<disk, mem, host, poisoned, cancelled, cut, pc, due, calls, acked, mishaps>>
session == <<mem, host, poisoned, cancelled, cut, pc>>

Outcome == {"ok", "suspended", "stopped", "failed"}
Midway  == {"launch", "top", "approve", "suspend", "start", "send", "error", "spawn",
            "commit"}
Control == {"off", "enter", "work", "call", "finish", "join"} \cup Midway \cup Outcome

\* No other frame is between two awaits: this one is being polled.
InSegment(f) == host = "up" /\ \A g \in Frame \ {f} : pc[g] \notin Midway

Init ==
    /\ disk = NoRecord /\ mem = NoRecord
    /\ host = "down" /\ poisoned = FALSE /\ cancelled = FALSE /\ cut = {}
    /\ pc = [f \in Frame |-> "off"]
    /\ due = {} /\ calls = [t \in TaskId |-> 0] /\ acked = {} /\ mishaps = 0

-----------------------------------------------------------------------------
(* Steps of a frame.                                                       *)

Children(x) == {g \in Frame \ {Root} : <<Parent[g].frame, Parent[g].node,
                                        Parent[g].invocation>> = x}
Siblings(f) == {g \in Frame \ {Root} : Parent[g] = Parent[f]}

\* The frames whose cancellation token is a parent of f's, f's own included.
CallersOf ==
    LET up[n \in Nat] ==
            IF n = 0 THEN [f \in Frame |-> {f}]
            ELSE [f \in Frame |-> IF f = Root THEN {Root}
                                 ELSE {f} \cup up[n - 1][Parent[f].frame]]
    IN  up[Cardinality(Frame)]
Interrupted(f) == cancelled \/ CallersOf[f] \cap cut # {}

\* A branch that ends stopped, or failed under FailFast, cancels its group.
Goto(f, to) ==
    /\ pc' = [pc EXCEPT ![f] = to]
    /\ cut' = IF f # Root /\ ( \/ to = "stopped"
                               \/ to = "failed" /\ Parent[f].node \in FailFast )
              THEN cut \cup Siblings(f) ELSE cut

Mishap == mishaps < MaxMishaps /\ mishaps' = mishaps + 1

\* FrameScope::update: publish r as the next revision, or fail and poison the
\* session.  A failed save may or may not have reached the disk.
Saved(r) == [r EXCEPT !.revision = @ + 1]

Writable == ~poisoned /\ mem.revision < MaxRevision

SaveOk(r, f, to) ==
    /\ Writable
    /\ mem' = Saved(r) /\ disk' = mem'
    /\ Goto(f, to)
    /\ UNCHANGED <<host, poisoned, cancelled, due, calls, acked, mishaps>>

SaveFails(r, f) ==
    /\ Writable
    /\ Mishap
    /\ disk' \in {disk, Saved(r)}
    /\ poisoned' = TRUE
    /\ Goto(f, "failed")
    /\ UNCHANGED <<mem, host, cancelled, due, calls, acked>>

SaveRefused(f) ==
    /\ ~Writable
    /\ Goto(f, "failed")
    /\ UNCHANGED <<disk, mem, host, poisoned, cancelled, due, calls, acked, mishaps>>

Update(r, f, to) == SaveOk(r, f, to) \/ SaveFails(r, f) \/ SaveRefused(f)

\* A step of f that saves nothing.
Silent(f, to) ==
    /\ Goto(f, to)
    /\ UNCHANGED <<disk, mem, host, poisoned, cancelled, due, calls, acked, mishaps>>

WithStatus(r, s) == [r EXCEPT !.status = s]

\* DurableRuntime::execute marks the run running, then calls run_inline.
Launch ==
    /\ pc[Root] = "launch" /\ InSegment(Root)
    /\ Update(WithStatus(mem, "Running"), Root, "enter")

\* FrameScope::enter: open the frame or restore it; a finished one returns at once.
Enter(f) ==
    /\ pc[f] = "enter" /\ InSegment(f)
    /\ IF mem.frames[f].phase # "Absent"
       THEN Silent(f, IF mem.frames[f].next_node = End THEN "ok" ELSE "top")
       ELSE Update([mem EXCEPT !.frames[f] = NewFrame(f)], f, "top")

\* FrameScope::begin refuses a halted run, then charges one step of the frame's
\* and of the run's budget unless the invocation was already begun.
\* (mutant of Exhausted: off by one)
ExhaustedOneLate(r, f) ==
    r.frames[f].steps_used > Budget[f] \/ r.steps_used > Budget[Root]
Exhausted(r, f) ==
    r.frames[f].steps_used >= Budget[f] \/ r.steps_used >= Budget[Root]
Begun(frame) == [frame EXCEPT !.steps_used = @ + 1, !.phase = "Active"]
Charged(r, f) ==
    IF r.frames[f].phase = "Active" THEN r
    ELSE [r EXCEPT !.frames[f] = Begun(@), !.steps_used = @ + 1]
Dispatch(n) ==
    CASE Kind[n] = "plain"   -> "finish"
      [] Kind[n] = "task"    -> "work"
      [] Kind[n] = "barrier" -> "approve"
      [] Kind[n] = "group"   -> "spawn"
\* (mutant of MayNotBegin: the halted check of begin is gone)
BeginsHalted(r) == FALSE
MayNotBegin(r) == r.status \in Halted
Begin(f) ==
    IF poisoned THEN Silent(f, "failed")
    ELSE IF MayNotBegin(mem) THEN Silent(f, "stopped")
    ELSE IF mem.frames[f].phase = "Idle" /\ Exhausted(mem, f) THEN Silent(f, "failed")
    ELSE Update(Charged(mem, f), f, Dispatch(mem.frames[f].next_node))

\* The head of run_graph_loop: the host's cancellation is saved, a group's is not.
Top(f) ==
    /\ pc[f] = "top" /\ InSegment(f)
    /\ IF cancelled THEN Update(WithStatus(mem, "Cancelled"), f, "stopped")
       ELSE IF Interrupted(f) THEN Silent(f, "failed")
       ELSE Begin(f)

\* NodeScope::approve at the invocation a.
Passes(decision) == decision = "Approve"
Approve(f) ==
    /\ pc[f] = "approve" /\ InSegment(f)
    /\ LET a == At(mem, f)
           d == mem.approvals[a].decision
       IN  \/ Passes(d) /\ Silent(f, "commit")
           \/ /\ d = "Reject" /\ ~Passes(d)
              /\ Update([WithStatus(mem, "Rejected") EXCEPT !.applied = @ \cup {a}],
                        f, "stopped")
           \/ /\ d = "Absent"
              /\ Update([mem EXCEPT !.approvals[a].decision = "Awaited"], f, "suspend")
           \/ /\ d = "Awaited"
              /\ IF a \in due THEN Update(WithStatus(mem, "Expired"), f, "stopped")
                 ELSE Silent(f, "suspend")

\* The second save of approve.
Suspend(f) ==
    /\ pc[f] = "suspend" /\ InSegment(f)
    /\ Update(WithStatus(mem, "Suspended"), f, "suspended")

\* TaskRuntime::unknown: a halted run keeps its status and records nothing.
MarkUnknown(f) ==
    IF poisoned THEN Silent(f, "failed")
    ELSE IF mem.status \in Halted THEN Silent(f, "stopped")
    ELSE Update([WithStatus(mem, "Suspended") EXCEPT
                    !.tasks[At(mem, f)].status = "Unknown"], f, "suspended")

\* TaskRuntime::execute up to the save of Planned.
\* (mutant of MustReconcile: a Started record is called again)
MustReconcileUnknown(t, status) == t[2] \in Manual /\ status = "Unknown"
MustReconcile(t, status) == t[2] \in Manual /\ status \in {"Started", "Unknown"}
MayNotStart(r) == r.status \notin Live
Work(f) ==
    /\ pc[f] = "work" /\ InSegment(f)
    /\ LET t == At(mem, f)
           s == mem.tasks[t].status
       IN  IF cancelled THEN Update(WithStatus(mem, "Cancelled"), f, "stopped")
           ELSE IF MayNotStart(mem) THEN Silent(f, "stopped")
           ELSE IF s = "Completed" THEN Silent(f, "finish")
           ELSE IF MustReconcile(t, s) THEN MarkUnknown(f)
           ELSE IF s = "Absent"
                THEN Update([mem EXCEPT !.tasks[t].status = "Planned"], f, "start")
           ELSE Silent(f, "start")

\* The save of Started, and the external call that follows it.
StartTask(f) ==
    /\ pc[f] = "start" /\ InSegment(f)
    /\ Update([mem EXCEPT !.tasks[At(mem, f)].status = "Started"], f, "send")
Send(f) ==
    /\ pc[f] = "send" /\ InSegment(f)
    /\ Goto(f, "call")
    /\ calls' = [calls EXCEPT ![At(mem, f)] = @ + 1]
    /\ UNCHANGED <<disk, mem, host, poisoned, cancelled, due, acked, mishaps>>

\* The external call returns, or fails (an error, a panic).
Return(f) ==
    /\ pc[f] = "call" /\ InSegment(f)
    /\ Update([mem EXCEPT !.tasks[At(mem, f)].status = "Completed"], f, "finish")
ExternalError(f) ==
    /\ pc[f] = "call" /\ InSegment(f)
    /\ Mishap
    /\ Goto(f, "error")
    /\ UNCHANGED <<disk, mem, host, poisoned, cancelled, due, calls, acked>>
TaskFailed(f) ==
    /\ pc[f] = "error" /\ InSegment(f)
    /\ IF mem.frames[f].next_node \in Manual THEN MarkUnknown(f) ELSE Silent(f, "failed")

\* A parallel or subgraph node polls its children and waits for every one of them.
Spawn(f) ==
    /\ pc[f] = "spawn" /\ InSegment(f)
    /\ pc' = [g \in Frame |-> IF g = f THEN "join"
                              ELSE IF g \in Children(At(mem, f)) THEN "enter" ELSE pc[g]]
    /\ UNCHANGED <<disk, mem, host, poisoned, cancelled, cut, due, calls, acked, mishaps>>
\* (mutant of JoinOutcome: a suspended branch counts as finished)
JoinPastSuspension(outcomes) ==
    IF "stopped" \in outcomes THEN "stopped"
    ELSE IF "failed" \in outcomes THEN "failed" ELSE "commit"
JoinOutcome(outcomes) ==
    IF "stopped" \in outcomes THEN "stopped"
    ELSE IF "failed" \in outcomes THEN "failed"
    ELSE IF "suspended" \in outcomes THEN "suspended" ELSE "commit"
Join(f) ==
    LET outcomes == {pc[g] : g \in Children(At(mem, f))}
    IN  /\ pc[f] = "join" /\ InSegment(f)
        /\ outcomes \subseteq Outcome
        /\ Silent(f, JoinOutcome(outcomes))

\* FrameScope::commit: the node's state, the next cursor and the applied approval
\* in one save.
Committed(r, f, next) ==
    [r EXCEPT !.frames[f] = [@ EXCEPT !.next_node = next, !.phase = "Idle"],
              !.applied = @ \cup (Asked(r) \cap {At(r, f)})]
Commit(f) ==
    /\ pc[f] \in {"finish", "commit"} /\ InSegment(f)
    /\ \E next \in Route[mem.frames[f].next_node] :
          Update(Committed(mem, f, next), f, IF next = End THEN "ok" ELSE "top")

FrameStep(f) ==
    \/ Enter(f) \/ Top(f) \/ Approve(f) \/ Suspend(f)
    \/ Work(f) \/ StartTask(f) \/ Send(f) \/ Return(f) \/ TaskFailed(f)
    \/ Spawn(f) \/ Join(f) \/ Commit(f)

-----------------------------------------------------------------------------
(* The process that holds the lease.                                       *)

Release ==
    /\ host' = "down" /\ mem' = disk' /\ poisoned' = FALSE /\ cancelled' = FALSE
    /\ cut' = {} /\ pc' = [f \in Frame |-> "off"]

Take(token) ==
    /\ host' = "up" /\ mem' = disk' /\ poisoned' = FALSE /\ cancelled' = token
    /\ cut' = {} /\ pc' = [f \in Frame |-> IF f = Root THEN "launch" ELSE "off"]

\* DurableRuntime::start: the lease's first save is not one of the session's.
Start ==
    /\ host = "down" /\ disk.status = "Absent"
    /\ \/ disk' = RootRecord /\ Take(FALSE) /\ UNCHANGED mishaps
       \/ disk' \in {disk, RootRecord} /\ Release /\ Mishap
    /\ UNCHANGED <<due, calls, acked>>

\* A save by a session that the caller drops on return.
SaveOnce(r) ==
    /\ disk.revision < MaxRevision
    /\ \/ disk' = Saved(r) /\ UNCHANGED mishaps
       \/ disk' \in {disk, Saved(r)} /\ Mishap
    /\ Release

\* A lease on a run whose record loads and validates.
Loaded == host = "down" /\ disk.status # "Absent" /\ Valid(disk)

\* DurableRuntime::resume and the head of execute.  Undecided approvals and unknown
\* tasks return RunOutcome::Suspended and write nothing: no step.
Overdue(r) == Pending(r) \cap due
ResumeExpired ==
    /\ Loaded /\ disk.status \in Live
    /\ Overdue(disk) # {}
    /\ SaveOnce(WithStatus(disk, "Expired"))
    /\ UNCHANGED <<due, calls, acked>>
\* (mutant of Ready: a decision must be applied before the run resumes)
ReadyOnceApplied(r) ==
    Asked(r) \subseteq r.applied /\ ~AnyUnknown(r)
Ready(r) == Pending(r) = {} /\ ~AnyUnknown(r)
Resume(token) ==
    /\ Loaded /\ disk.status \in Live
    /\ Overdue(disk) = {}
    /\ token \/ Ready(disk)
    /\ UNCHANGED disk
    /\ Take(token)
    /\ UNCHANGED <<due, calls, acked, mishaps>>

\* The tail of execute: the host's cancellation wins over every other outcome.
Conclude ==
    /\ host = "up" /\ pc[Root] \in Outcome
    /\ LET final == IF cancelled THEN "Cancelled" ELSE "Completed"
       IN  IF ~poisoned /\ mem.revision < MaxRevision /\ (cancelled \/ pc[Root] = "ok")
           THEN \/ disk' = Saved(WithStatus(mem, final)) /\ UNCHANGED mishaps
                \/ disk' \in {disk, Saved(WithStatus(mem, final))} /\ Mishap
           ELSE UNCHANGED <<disk, mishaps>>
    /\ Release
    /\ UNCHANGED <<due, calls, acked>>

\* The host triggers the token it passed in; it dies or drops the future.
CancelToken ==
    /\ host = "up" /\ ~cancelled
    /\ cancelled' = TRUE
    /\ UNCHANGED <<disk, mem, host, poisoned, cut, pc, due, calls, acked, mishaps>>
Crash ==
    /\ host = "up"
    /\ Mishap
    /\ UNCHANGED disk
    /\ Release
    /\ UNCHANGED <<due, calls, acked>>

DeadlinePasses(a) ==
    /\ a[2] \in Timed /\ a \notin due
    /\ a \in Asked(disk)
    /\ due' = due \cup {a}
    /\ UNCHANGED <<disk, session, calls, acked, mishaps>>

-----------------------------------------------------------------------------
(* Clients.  Each call takes the lease, so it runs only while no process     *)
(* executes the run; a call refused with an error is no step.  A client has   *)
(* read the revision it expects with inspect, which takes no lease.         *)

\* DurableRuntime::submit_decision.
Decided(r, a, q, d) ==
    [r EXCEPT !.approvals[a] =
        [decision |-> d, request_id |-> q, accepted_revision |-> r.revision + 1]]
\* (mutant of Decidable: a later decision overwrites the first)
DecidableAgain(r, a) == a \in Asked(r) /\ r.status = "Suspended"
Decidable(r, a) == a \in Pending(r) /\ r.status = "Suspended"
SubmitDecision(a, q, d) ==
    /\ Loaded /\ Decidable(disk, a)
    /\ IF a \in due
       THEN SaveOnce(WithStatus(disk, "Expired")) /\ UNCHANGED acked
       ELSE /\ SaveOnce(Decided(disk, a, q, d))
            /\ acked' = IF mishaps' = mishaps THEN acked \cup {<<a, q, d>>} ELSE acked
    /\ UNCHANGED <<due, calls>>
RepeatDecision(a, q, d) ==
    /\ Loaded
    /\ disk.approvals[a].decision = d /\ disk.approvals[a].request_id = q
    /\ acked' = acked \cup {<<a, q, d>>}
    /\ UNCHANGED <<disk, session, due, calls, mishaps>>

\* DurableRuntime::resolve_task.
Resolved(r, t, q, resolution) ==
    [r EXCEPT !.tasks[t] =
        [status |-> IF resolution = "Retry" THEN "Planned" ELSE "Completed",
         resolutions |-> [@.resolutions EXCEPT ![q] = resolution]]]
\* (mutant of Reconcilable: an Unknown task cannot be reconciled)
ReconcilableStarted == {"Started"}
Reconcilable == {"Unknown", "Started"}
ResolveTask(t, q, resolution) ==
    /\ Loaded /\ disk.status \in Live
    /\ disk.tasks[t].resolutions[q] = "None"
    /\ disk.tasks[t].status \in Reconcilable
    /\ SaveOnce(Resolved(disk, t, q, resolution))
    /\ UNCHANGED <<due, calls, acked>>

\* DurableRuntime::cancel.
CancelRun ==
    /\ Loaded /\ disk.status \in Live
    /\ SaveOnce(WithStatus(disk, "Cancelled"))
    /\ UNCHANGED <<due, calls, acked>>

-----------------------------------------------------------------------------
Client ==
    \/ \E a \in ApprovalId, q \in Request, d \in Decision :
          SubmitDecision(a, q, d) \/ RepeatDecision(a, q, d)
    \/ \E t \in TaskId, q \in Request, s \in TaskResolution : ResolveTask(t, q, s)
    \/ CancelRun
Next ==
    \/ Start \/ ResumeExpired \/ (\E token \in BOOLEAN : Resume(token))
    \/ Launch \/ Conclude \/ CancelToken \/ Crash
    \/ \E f \in Frame : FrameStep(f) \/ ExternalError(f)
    \/ \E a \in ApprovalId : DeadlinePasses(a)
    \/ Client

Spec == Init /\ [][Next]_vars

\* The executor polls every woken future, external calls are answered, the host
\* resumes a live run whose lease is free, people reconcile unknown calls, and the
\* clock advances.  Nobody has to decide or to cancel, and nothing has to fail.
Fairness ==
    /\ WF_vars(Start) /\ WF_vars(Resume(FALSE)) /\ WF_vars(ResumeExpired)
    /\ WF_vars(Launch) /\ WF_vars(Conclude)
    /\ \A f \in Frame : WF_vars(FrameStep(f))
    /\ \A a \in ApprovalId : WF_vars(DeadlinePasses(a))
    /\ \A t \in TaskId :
          WF_vars(\E q \in Request, s \in TaskResolution : ResolveTask(t, q, s))
FairSpec == Spec /\ Fairness

-----------------------------------------------------------------------------
(* Properties.                                                             *)

\* Every variable stays within its type.
TypeOK ==
    /\ disk \in RunRecord /\ mem \in RunRecord
    /\ host \in {"up", "down"} /\ poisoned \in BOOLEAN /\ cancelled \in BOOLEAN
    /\ cut \subseteq Frame /\ pc \in [Frame -> Control]
    /\ due \subseteq ApprovalId /\ calls \in [TaskId -> Nat]
    /\ acked \subseteq ApprovalId \X Request \X Decision
    /\ mishaps \in 0 .. MaxMishaps

\* Whatever crashes and whatever save fails, what is on disk passes
\* RunRecord::validate: a run never becomes impossible to load.
DiskIsValid == disk.status # "Absent" => Valid(disk)

\* A barrier invocation is committed only under an Approve of that very invocation:
\* neither a rejection, nor an expiry, nor the approval of an earlier turn of the loop
\* lets NodeScope::approve through.
BarrierNeedsApproval ==
    [][\A f \in Frame :
          LET a == <<f, disk.frames[f].next_node, disk.frames[f].steps_used>>
          IN  /\ a \in ApprovalId
              /\ disk.frames[f].phase = "Active" /\ disk'.frames[f].phase # "Active"
              => disk.approvals[a].decision = "Approve"]_disk

\* TaskRuntime::execute sends an external call only while its Started is on disk and
\* the run is neither halted nor completed, whatever a sibling branch or the host did.
CallIsRecorded ==
    [][\A t \in TaskId : calls'[t] # calls[t] =>
          disk.tasks[t].status = "Started" /\ disk.status \in Live]_calls

\* A ManualRecovery task is called at most once more than resolve_task authorised it.
Retries(t) == {q \in Request : disk.tasks[t].resolutions[q] = "Retry"}
ManualCalledOnce ==
    \A t \in TaskId : t[2] \in Manual => calls[t] <= 1 + Cardinality(Retries(t))

\* A revision names one record: a save replaces exactly the record it was made from,
\* even after a failed save that did reach the disk (Session::poisoned).
RevisionsAreSerial ==
    [][disk' # disk =>
          disk.status = "Absent" \/ disk'.revision = disk.revision + 1]_disk

\* A decision whose receipt submit_decision returned stays in the record for ever.
AckedDecisionKept ==
    \A x \in acked : /\ disk.approvals[x[1]].request_id = x[2]
                     /\ disk.approvals[x[1]].decision = x[3]

\* A completed record never changes.  A halted run begins no invocation, and only the
\* host's cancellation token changes its status.
HaltIsFinal ==
    [][/\ disk.status = "Completed" => disk' = disk
       /\ disk.status \in Halted =>
             /\ disk'.status \in {disk.status, "Cancelled"}
             /\ disk'.steps_used = disk.steps_used]_disk

\* A parallel or subgraph invocation is committed only when every branch it opened, and
\* every sibling of that branch, has finished; and the run, the outermost of them, is
\* completed only with every approval applied as approved and every task's result saved.
GroupIsComplete ==
    /\ disk.status = "Completed" =>
        /\ \A a \in Asked(disk) :
              a \in disk.applied /\ disk.approvals[a].decision = "Approve"
        /\ \A t \in TaskId : disk.tasks[t].status \in {"Absent", "Completed"}
    /\ \A c \in Frame \ {Root} :
        LET p == disk.frames[Parent[c].frame]
            i == Parent[c].invocation
        IN  /\ disk.frames[c].phase # "Absent"
            /\ p.steps_used > i \/ (p.steps_used = i /\ p.phase # "Active")
            => \A s \in Siblings(c) : /\ disk.frames[s].phase # "Absent"
                                      /\ disk.frames[s].next_node = End

\* An accepted decision is eventually applied, or the run halts, however often the
\* executing process dies in between.
DecisionTakesEffect ==
    \A a \in ApprovalId :
        disk.approvals[a].decision \in Decision
            ~> a \in disk.applied \/ disk.status \in Halted

\* With deadlines on its approvals and steps enough, a run ends.
RunEnds == disk.status \in Live ~> disk.status \notin Live
=============================================================================
