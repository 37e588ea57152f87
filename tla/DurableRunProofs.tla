--------------------------- MODULE DurableRunProofs ---------------------------
(***************************************************************************)
(* Invariance proofs for DurableRun, for every topology that satisfies      *)
(* TopologyAssumption and every bound.                                      *)
(*                                                                         *)
(* There are two invariants.  IInv is about each copy of the record by       *)
(* itself and about what a frame remembers of it across an await.  RunInv,   *)
(* which is proved inductive on top of it, is about the frames together: who  *)
(* waits for whom, what a halt forbids, and what has been called.            *)
(***************************************************************************)
EXTENDS DurableRun, FiniteSetTheorems, TLAPS

-----------------------------------------------------------------------------
(* The record's edits stay within the record's type.                       *)

LEMMA RootRecordType == NoRecord \in RunRecord /\ RootRecord \in RunRecord
BY TopologyAssumption
   DEF NoRecord, RootRecord, RunRecord, NewFrame, NoApproval, NoTask, FrameRecord,
       ApprovalRequest, TaskRecord, RunStatus, Live, Halted, Decision, TaskStatus

LEMMA StatusType ==
    ASSUME NEW r \in RunRecord, NEW s \in RunStatus
    PROVE  WithStatus(r, s) \in RunRecord
BY DEF WithStatus, RunRecord

LEMMA SavedType ==
    ASSUME NEW r \in RunRecord
    PROVE  Saved(r) \in RunRecord
BY DEF Saved, RunRecord

LEMMA OpenedType ==
    ASSUME NEW r \in RunRecord, NEW f \in Frame
    PROVE  [r EXCEPT !.frames[f] = NewFrame(f)] \in RunRecord
BY TopologyAssumption DEF RunRecord, NewFrame, FrameRecord

LEMMA BegunType ==
    ASSUME NEW x \in FrameRecord
    PROVE  Begun(x) \in FrameRecord
<1>1. x.steps_used + 1 \in Nat
  BY DEF FrameRecord
<1>2. \A n \in Nat : [x EXCEPT !.steps_used = n, !.phase = "Active"] \in FrameRecord
  BY DEF FrameRecord
<1>. QED BY <1>1, <1>2 DEF Begun

LEMMA ChargedType ==
    ASSUME NEW r \in RunRecord, NEW f \in Frame
    PROVE  Charged(r, f) \in RunRecord
<1>1. r.steps_used + 1 \in Nat /\ r.frames[f] \in FrameRecord
  BY DEF RunRecord
<1>2. \A n \in Nat, x \in FrameRecord :
         [r EXCEPT !.frames[f] = x, !.steps_used = n] \in RunRecord
  BY DEF RunRecord
<1>. QED BY <1>1, <1>2, BegunType DEF Charged

LEMMA CommittedType ==
    ASSUME NEW r \in RunRecord, NEW f \in Frame, NEW next \in Node \cup {End}
    PROVE  Committed(r, f, next) \in RunRecord
<1>1. [r.frames[f] EXCEPT !.next_node = next, !.phase = "Idle"] \in FrameRecord
  BY DEF RunRecord, FrameRecord
<1>2. (r.applied \cup (Asked(r) \cap {At(r, f)})) \in SUBSET ApprovalId
  BY DEF RunRecord, Asked
<1>3. \A x \in FrameRecord, s \in SUBSET ApprovalId :
         [r EXCEPT !.frames[f] = x, !.applied = s] \in RunRecord
  BY DEF RunRecord
<1>. QED BY <1>1, <1>2, <1>3 DEF Committed

\* An update at a key the map does not hold changes nothing.
LEMMA AskedType ==
    ASSUME NEW r \in RunRecord, NEW a
    PROVE  [r EXCEPT !.approvals[a].decision = "Awaited"] \in RunRecord
<1>1. CASE a \in ApprovalId
  BY <1>1 DEF RunRecord, ApprovalRequest
<1>2. CASE a \notin ApprovalId
  <2>1. \A x : [r.approvals EXCEPT ![a] = x] = r.approvals
    BY <1>2 DEF RunRecord
  <2>. QED BY <2>1 DEF RunRecord
<1>. QED BY <1>1, <1>2

LEMMA TaskType ==
    ASSUME NEW r \in RunRecord, NEW t, NEW s \in TaskStatus
    PROVE  [r EXCEPT !.tasks[t].status = s] \in RunRecord
<1>1. CASE t \in TaskId
  BY <1>1 DEF RunRecord, TaskRecord
<1>2. CASE t \notin TaskId
  <2>1. \A x : [r.tasks EXCEPT ![t] = x] = r.tasks
    BY <1>2 DEF RunRecord
  <2>. QED BY <2>1 DEF RunRecord
<1>. QED BY <1>1, <1>2

LEMMA RejectedType ==
    ASSUME NEW r \in RunRecord, NEW a \in ApprovalId
    PROVE  [WithStatus(r, "Rejected") EXCEPT !.applied = @ \cup {a}] \in RunRecord
BY DEF RunRecord, WithStatus, RunStatus, Halted

LEMMA DecidedType ==
    ASSUME NEW r \in RunRecord, NEW a \in ApprovalId, NEW q \in Request, NEW d \in Decision
    PROVE  Decided(r, a, q, d) \in RunRecord
<1>1. r.revision + 1 \in Nat
  BY DEF RunRecord
<1>2. \A n \in Nat : [r EXCEPT !.approvals[a] =
         [decision |-> d, request_id |-> q, accepted_revision |-> n]] \in RunRecord
  BY DEF RunRecord, ApprovalRequest
<1>. QED BY <1>1, <1>2 DEF Decided

LEMMA ResolvedType ==
    ASSUME NEW r \in RunRecord, NEW t \in TaskId, NEW q \in Request, NEW s \in TaskResolution
    PROVE  Resolved(r, t, q, s) \in RunRecord
BY DEF Resolved, RunRecord, TaskRecord, TaskStatus, TaskResolution

-----------------------------------------------------------------------------
(* The inductive invariant.                                                *)

CursorOK(r, f) ==
    /\ r.frames[f].next_node \in Graph[f] \cup {End}
    /\ r.frames[f].steps_used <= Budget[f]
    /\ r.frames[f].phase = "Active" =>
          r.frames[f].next_node # End /\ r.frames[f].steps_used >= 1
ApprovalOK(r, a) ==
    /\ r.approvals[a].decision # "Absent" => r.frames[a[1]].phase # "Absent"
    /\ a \in r.applied => r.approvals[a].decision \in Decision
    /\ r.approvals[a].accepted_revision <= r.revision
RunOK(r) ==
    /\ r.steps_used <= Budget[Root]
    /\ r.status # "Absent" => r.frames[Root].phase # "Absent"
    /\ r.status = "Completed" => r.frames[Root].next_node = End
\* Valid, and what keeps it so.
WellFormed(r) ==
    /\ r \in RunRecord /\ RunOK(r)
    /\ \A f \in Frame : CursorOK(r, f)
    /\ \A a \in ApprovalId : ApprovalOK(r, a)

\* What frame f's place in run_graph_loop says of the session's record.
Local(r, f, p) ==
    /\ p \in {"approve", "suspend", "work", "start", "send", "call", "error", "finish",
              "commit", "spawn", "join"} => r.frames[f].phase = "Active"
    /\ p = "top" => r.frames[f].phase # "Absent" /\ r.frames[f].next_node # End
    /\ p = "ok" => r.frames[f].phase # "Absent" /\ r.frames[f].next_node = End
    /\ p \in {"approve", "suspend"} => Kind[r.frames[f].next_node] = "barrier"
    /\ p \in {"work", "start", "send", "call", "error"} =>
          Kind[r.frames[f].next_node] = "task"
    /\ p = "finish" => Kind[r.frames[f].next_node] \in {"plain", "task"}
    /\ p \in {"spawn", "join"} => Kind[r.frames[f].next_node] = "group"
    /\ p = "commit" => \/ Kind[r.frames[f].next_node] = "group"
                       \/ /\ Kind[r.frames[f].next_node] = "barrier"
                          /\ r.approvals[At(r, f)].decision = "Approve"
    /\ p \in {"launch", "approve", "suspend", "start", "send"} => r.status \in Live
    /\ p = "send" => r.tasks[At(r, f)].status = "Started"

\* The session's record is the one on disk until a save fails, one frame at a time is
\* between two awaits, and an external call follows a save that succeeded.
SessionInv ==
    /\ disk.status = "Absent" => disk = NoRecord
    /\ host = "down" => ~poisoned /\ \A f \in Frame : pc[f] = "off"
    /\ ~poisoned => mem = disk
    /\ host = "up" => mem.status \notin {"Absent", "Completed"}
    /\ \A f, g \in Frame : pc[f] \in Midway /\ pc[g] \in Midway => f = g
    /\ \A f \in Frame : pc[f] = "send" => ~poisoned

IInv ==
    /\ TypeOK
    /\ WellFormed(disk) /\ WellFormed(mem)
    /\ SessionInv
    /\ \A f \in Frame : Local(mem, f, pc[f])
    /\ AckedDecisionKept

-----------------------------------------------------------------------------
(* Facts about the record's edits.                                         *)

LEMMA SavedFacts ==
    ASSUME NEW r \in RunRecord
    PROVE  /\ Saved(r).revision = r.revision + 1 /\ r.revision + 1 \in Nat
           /\ Saved(r).status = r.status /\ Saved(r).steps_used = r.steps_used
           /\ Saved(r).frames = r.frames /\ Saved(r).approvals = r.approvals
           /\ Saved(r).applied = r.applied /\ Saved(r).tasks = r.tasks
BY DEF Saved, RunRecord

LEMMA StatusFacts ==
    ASSUME NEW r \in RunRecord, NEW s \in RunStatus
    PROVE  /\ WithStatus(r, s).status = s /\ WithStatus(r, s).revision = r.revision
           /\ WithStatus(r, s).steps_used = r.steps_used
           /\ WithStatus(r, s).frames = r.frames /\ WithStatus(r, s).approvals = r.approvals
           /\ WithStatus(r, s).applied = r.applied /\ WithStatus(r, s).tasks = r.tasks
BY DEF WithStatus, RunRecord

LEMMA LocalOfSaved ==
    ASSUME NEW r \in RunRecord, NEW f \in Frame, NEW p, Local(r, f, p)
    PROVE  Local(Saved(r), f, p)
BY SavedFacts DEF Local, At

LEMMA WellFormedIsValid ==
    ASSUME NEW r, WellFormed(r), r.status # "Absent"
    PROVE  Valid(r)
<1>1. \A a \in ApprovalId : a \in Asked(r) <=> r.approvals[a].decision # "Absent"
  BY DEF Asked
<1>. QED BY <1>1 DEF WellFormed, Valid, RunOK, CursorOK, ApprovalOK

LEMMA RootFrame == Root \in Frame
BY TopologyAssumption

LEMMA ApprovalFrame ==
    ASSUME NEW a \in ApprovalId
    PROVE  a[1] \in Frame
BY DEF ApprovalId, Invocation

\* An active frame stands at an invocation, of the kind of its node.
LEMMA AtInvocation ==
    ASSUME NEW r, WellFormed(r), NEW f \in Frame, r.frames[f].phase = "Active"
    PROVE  /\ At(r, f) \in Invocation
           /\ At(r, f)[1] = f /\ At(r, f)[2] = r.frames[f].next_node
           /\ Kind[r.frames[f].next_node] = "barrier" <=> At(r, f) \in ApprovalId
           /\ Kind[r.frames[f].next_node] = "task" <=> At(r, f) \in TaskId
<1>1. /\ r.frames[f].next_node \in Graph[f]
      /\ r.frames[f].steps_used \in 1 .. Budget[f]
  BY TopologyAssumption DEF WellFormed, CursorOK, RunRecord, FrameRecord
<1>2. At(r, f) \in Invocation
  BY <1>1 DEF At, Invocation
<1>3. At(r, f)[1] = f /\ At(r, f)[2] = r.frames[f].next_node
  BY DEF At
<1>. QED BY <1>2, <1>3 DEF ApprovalId, TaskId

LEMMA SavedWellFormed ==
    ASSUME NEW r, WellFormed(r)
    PROVE  WellFormed(Saved(r))
<1>1. Saved(r) \in RunRecord
  BY SavedType DEF WellFormed
<1>2. RunOK(Saved(r)) /\ \A f \in Frame : CursorOK(Saved(r), f)
  BY SavedFacts DEF WellFormed, RunOK, CursorOK
<1>3. ASSUME NEW a \in ApprovalId PROVE ApprovalOK(Saved(r), a)
  <2>1. r.revision \in Nat /\ r.approvals[a].accepted_revision \in Nat
    BY DEF WellFormed, RunRecord, ApprovalRequest
  <2>2. r.approvals[a].accepted_revision <= r.revision + 1
    BY <2>1 DEF WellFormed, ApprovalOK
  <2>. QED BY <2>2, SavedFacts DEF WellFormed, ApprovalOK
<1>. QED BY <1>1, <1>2, <1>3 DEF WellFormed

LEMMA StatusWellFormed ==
    ASSUME NEW r, WellFormed(r), r.status # "Absent", NEW s \in RunStatus \ {"Completed"}
    PROVE  WellFormed(WithStatus(r, s))
<1>1. WithStatus(r, s) \in RunRecord
  BY StatusType DEF WellFormed
<1>2. r \in RunRecord /\ s \in RunStatus
  BY DEF WellFormed
<1>. QED BY <1>1, <1>2, StatusFacts DEF WellFormed, RunOK, CursorOK, ApprovalOK

\* What an update may do to the record m on behalf of frame f: the other frames, and
\* every decision, stay as they are, and a begun barrier is left only when approved.
Keeps(m, r, f) ==
    /\ WellFormed(Saved(r)) /\ r \in RunRecord
    /\ r.revision = m.revision /\ r.status # "Absent"
    /\ \A g \in Frame \ {f} : r.frames[g] = m.frames[g]
    /\ \A a \in ApprovalId :
          m.approvals[a].decision \in Decision => r.approvals[a] = m.approvals[a]
    /\ /\ m.frames[f].phase = "Active" /\ r.frames[f].phase # "Active"
       /\ At(m, f) \in ApprovalId
       => m.approvals[At(m, f)].decision = "Approve"
\* FrameScope::update in a live session.
Edit(m, r, f) == Keeps(m, r, f) /\ r.status # "Completed"

LEMMA StatusEdit ==
    ASSUME NEW m, WellFormed(m), m.status \notin {"Absent", "Completed"},
           NEW s \in RunStatus \ {"Completed"}, NEW f \in Frame
    PROVE  Edit(m, WithStatus(m, s), f)
<1>1. WellFormed(WithStatus(m, s))
  BY StatusWellFormed
<1>2. m \in RunRecord /\ s \in RunStatus /\ s # "Absent"
  BY DEF WellFormed, RunStatus, Live, Halted
<1>. QED BY <1>1, <1>2, SavedWellFormed, StatusFacts DEF Edit, Keeps, WellFormed

LEMMA OpenedEdit ==
    ASSUME NEW m, WellFormed(m), m.status \notin {"Absent", "Completed"},
           NEW f \in Frame, m.frames[f].phase = "Absent"
    PROVE  LET r == [m EXCEPT !.frames[f] = NewFrame(f)]
           IN  Edit(m, r, f) /\ Local(r, f, "top")
<1>. DEFINE r == [m EXCEPT !.frames[f] = NewFrame(f)]
<1>1. m \in RunRecord /\ r \in RunRecord
  BY OpenedType DEF WellFormed
<1>2. /\ r.revision = m.revision /\ r.status = m.status /\ r.steps_used = m.steps_used
      /\ r.approvals = m.approvals /\ r.applied = m.applied
      /\ r.frames[f] = NewFrame(f)
      /\ \A g \in Frame \ {f} : r.frames[g] = m.frames[g]
  BY <1>1 DEF RunRecord
<1>3. /\ NewFrame(f).phase = "Idle" /\ NewFrame(f).next_node = Entry[f]
      /\ NewFrame(f).steps_used = 0
      /\ Entry[f] \in Graph[f] /\ Entry[f] # End /\ Budget[f] \in Nat
  BY TopologyAssumption DEF NewFrame
<1>. HIDE DEF r
<1>4. RunOK(r)
  BY <1>2, <1>3, RootFrame DEF WellFormed, RunOK
<1>5. \A g \in Frame : CursorOK(r, g)
  BY <1>2, <1>3 DEF WellFormed, CursorOK
<1>6. \A a \in ApprovalId : ApprovalOK(r, a)
  BY <1>2, <1>3, ApprovalFrame DEF WellFormed, ApprovalOK
<1>7. WellFormed(r)
  BY <1>1, <1>4, <1>5, <1>6 DEF WellFormed
<1>8. Edit(m, r, f)
  BY <1>1, <1>2, <1>7, SavedWellFormed DEF Edit, Keeps
<1>9. Local(r, f, "top")
  BY <1>2, <1>3 DEF Local
<1>. QED BY <1>8, <1>9 DEF r

LEMMA ChargedEdit ==
    ASSUME NEW m, WellFormed(m), m.status \notin {"Absent", "Completed"} \cup Halted,
           NEW f \in Frame, m.frames[f].phase # "Absent", m.frames[f].next_node # End,
           m.frames[f].phase = "Idle" => ~Exhausted(m, f)
    PROVE  LET r == Charged(m, f)
           IN  Edit(m, r, f) /\ Local(r, f, Dispatch(m.frames[f].next_node))
<1>. DEFINE r == Charged(m, f)
            n == m.frames[f].next_node
<1>1. m \in RunRecord /\ r \in RunRecord
  BY ChargedType DEF WellFormed
<1>2. /\ m.frames[f] \in FrameRecord /\ m.steps_used \in Nat
      /\ m.frames[f].steps_used \in Nat /\ m.frames[f].phase \in {"Idle", "Active"}
      /\ Budget[f] \in Nat /\ Budget[Root] \in Nat
      /\ n \in Graph[f] /\ n \in Node /\ Kind[n] \in Kinds /\ m.status \in Live
  BY <1>1, TopologyAssumption DEF WellFormed, CursorOK, RunRecord, FrameRecord, RunStatus
<1>3. /\ r.revision = m.revision /\ r.status = m.status
      /\ r.approvals = m.approvals /\ r.applied = m.applied /\ r.tasks = m.tasks
      /\ \A g \in Frame \ {f} : r.frames[g] = m.frames[g]
  BY <1>1 DEF RunRecord, Charged
<1>4. /\ r.frames[f].phase = "Active" /\ r.frames[f].next_node = n
      /\ r.frames[f].steps_used \in 1 .. Budget[f]
      /\ r.steps_used <= Budget[Root]
  <2>1. CASE m.frames[f].phase = "Active"
    BY <1>2, <2>1 DEF Charged, WellFormed, CursorOK, RunOK
  <2>2. CASE m.frames[f].phase = "Idle"
    <3>1. ~(m.frames[f].steps_used >= Budget[f]) /\ ~(m.steps_used >= Budget[Root])
      BY <2>2 DEF Exhausted
    <3>2. r.frames[f] = Begun(m.frames[f]) /\ r.steps_used = m.steps_used + 1
      BY <1>1, <2>2 DEF Charged, RunRecord
    <3>3. /\ Begun(m.frames[f]).phase = "Active"
          /\ Begun(m.frames[f]).next_node = n
          /\ Begun(m.frames[f]).steps_used = m.frames[f].steps_used + 1
      BY <1>2 DEF Begun, FrameRecord
    <3>. QED BY <1>2, <3>1, <3>2, <3>3
  <2>. QED BY <1>2, <2>1, <2>2
<1>. HIDE DEF r
<1>5. RunOK(r)
  BY <1>2, <1>3, <1>4, RootFrame DEF WellFormed, RunOK
<1>6. \A g \in Frame : CursorOK(r, g)
  BY <1>2, <1>3, <1>4 DEF WellFormed, CursorOK
<1>7. \A a \in ApprovalId : ApprovalOK(r, a)
  BY <1>3, <1>4, ApprovalFrame DEF WellFormed, ApprovalOK
<1>8. WellFormed(r)
  BY <1>1, <1>5, <1>6, <1>7 DEF WellFormed
<1>9. Edit(m, r, f)
  BY <1>1, <1>3, <1>4, <1>8, SavedWellFormed DEF Edit, Keeps
<1>10. Local(r, f, Dispatch(n))
  BY <1>2, <1>3, <1>4 DEF Local, Dispatch, Kinds
<1>. QED BY <1>9, <1>10 DEF r

LEMMA CommittedEdit ==
    ASSUME NEW m, WellFormed(m), m.status \notin {"Absent", "Completed"},
           NEW f \in Frame, NEW p \in {"finish", "commit"}, Local(m, f, p),
           NEW next \in Route[m.frames[f].next_node]
    PROVE  LET r == Committed(m, f, next)
           IN  /\ Edit(m, r, f)
               /\ Local(r, f, IF next = End THEN "ok" ELSE "top")
<1>. DEFINE r == Committed(m, f, next)
            n == m.frames[f].next_node
            a == At(m, f)
<1>1. /\ m.frames[f].phase = "Active" /\ m.frames[f] \in FrameRecord /\ m \in RunRecord
      /\ n \in Graph[f] /\ n \in Node /\ next \in Graph[f] \cup {End}
  BY TopologyAssumption DEF Local, WellFormed, CursorOK, RunRecord, FrameRecord
<1>2. r \in RunRecord
  BY <1>1, CommittedType, TopologyAssumption
<1>3. a \in ApprovalId => m.approvals[a].decision = "Approve"
  BY <1>1, AtInvocation DEF Local
<1>4. /\ r.revision = m.revision /\ r.status = m.status /\ r.steps_used = m.steps_used
      /\ r.approvals = m.approvals /\ r.tasks = m.tasks
      /\ r.applied = m.applied \cup (Asked(m) \cap {a})
      /\ \A g \in Frame \ {f} : r.frames[g] = m.frames[g]
      /\ r.frames[f] = [m.frames[f] EXCEPT !.next_node = next, !.phase = "Idle"]
  BY <1>1 DEF RunRecord, Committed
<1>5. /\ r.frames[f].next_node = next /\ r.frames[f].phase = "Idle"
      /\ r.frames[f].steps_used = m.frames[f].steps_used
  BY <1>1, <1>4 DEF FrameRecord
<1>. HIDE DEF r
<1>6. RunOK(r)
  BY <1>4, <1>5, RootFrame DEF WellFormed, RunOK
<1>7. \A g \in Frame : CursorOK(r, g)
  BY <1>1, <1>4, <1>5 DEF WellFormed, CursorOK
<1>8. ASSUME NEW b \in ApprovalId PROVE ApprovalOK(r, b)
  BY <1>3, <1>4, <1>5, ApprovalFrame DEF WellFormed, ApprovalOK, Decision
<1>9. WellFormed(r)
  BY <1>2, <1>6, <1>7, <1>8 DEF WellFormed
<1>10. Edit(m, r, f)
  BY <1>2, <1>3, <1>4, <1>9, SavedWellFormed DEF Edit, Keeps
<1>11. Local(r, f, IF next = End THEN "ok" ELSE "top")
  BY <1>5 DEF Local
<1>. QED BY <1>10, <1>11 DEF r

LEMMA AskedEdit ==
    ASSUME NEW m, WellFormed(m), NEW f \in Frame, Local(m, f, "approve"),
           m.approvals[At(m, f)].decision = "Absent"
    PROVE  LET r == [m EXCEPT !.approvals[At(m, f)].decision = "Awaited"]
           IN  Edit(m, r, f) /\ Local(r, f, "suspend")
<1>. DEFINE a == At(m, f)
            r == [m EXCEPT !.approvals[a].decision = "Awaited"]
<1>1. /\ m.frames[f].phase = "Active" /\ m \in RunRecord /\ r \in RunRecord
      /\ m.status \in Live
  BY AskedType DEF Local, WellFormed
<1>2. a \in ApprovalId /\ a[1] = f
  BY <1>1, AtInvocation DEF Local
<1>3. m.approvals[a] \in ApprovalRequest
  BY <1>1, <1>2 DEF RunRecord
<1>4. /\ r.revision = m.revision /\ r.status = m.status /\ r.steps_used = m.steps_used
      /\ r.frames = m.frames /\ r.tasks = m.tasks /\ r.applied = m.applied
      /\ \A b \in ApprovalId \ {a} : r.approvals[b] = m.approvals[b]
      /\ r.approvals[a] = [m.approvals[a] EXCEPT !.decision = "Awaited"]
  BY <1>1, <1>2 DEF RunRecord
<1>5. /\ r.approvals[a].decision = "Awaited"
      /\ r.approvals[a].accepted_revision = m.approvals[a].accepted_revision
  BY <1>3, <1>4 DEF ApprovalRequest
<1>. HIDE DEF r
<1>6. RunOK(r) /\ \A g \in Frame : CursorOK(r, g)
  BY <1>4 DEF WellFormed, RunOK, CursorOK
<1>7. a \notin m.applied
  BY <1>2 DEF WellFormed, ApprovalOK, Decision
<1>8. ASSUME NEW b \in ApprovalId PROVE ApprovalOK(r, b)
  BY <1>1, <1>2, <1>4, <1>5, <1>7 DEF WellFormed, ApprovalOK
<1>9. WellFormed(r)
  BY <1>1, <1>6, <1>8 DEF WellFormed
<1>10. Edit(m, r, f)
  BY <1>1, <1>2, <1>4, <1>9, SavedWellFormed DEF Edit, Keeps, Decision, Live
<1>11. Local(r, f, "suspend")
  BY <1>1, <1>4 DEF Local
<1>. QED BY <1>10, <1>11 DEF r

LEMMA RejectedEdit ==
    ASSUME NEW m, WellFormed(m), NEW f \in Frame, Local(m, f, "approve"),
           m.approvals[At(m, f)].decision = "Reject"
    PROVE  Edit(m, [WithStatus(m, "Rejected") EXCEPT !.applied = @ \cup {At(m, f)}], f)
<1>. DEFINE a == At(m, f)
            r == [WithStatus(m, "Rejected") EXCEPT !.applied = @ \cup {a}]
<1>1. /\ m.frames[f].phase = "Active" /\ m \in RunRecord
  BY DEF Local, WellFormed
<1>2. a \in ApprovalId
  BY <1>1, AtInvocation DEF Local
<1>3. r \in RunRecord
  BY <1>1, <1>2, RejectedType
<1>4. /\ r.revision = m.revision /\ r.status = "Rejected" /\ r.steps_used = m.steps_used
      /\ r.frames = m.frames /\ r.approvals = m.approvals
      /\ r.applied = m.applied \cup {a}
  BY <1>1 DEF RunRecord, WithStatus
<1>. HIDE DEF r
<1>5. RunOK(r) /\ \A g \in Frame : CursorOK(r, g)
  BY <1>4, <1>1, RootFrame DEF WellFormed, RunOK, CursorOK, Local, Live
<1>6. \A b \in ApprovalId : ApprovalOK(r, b)
  BY <1>4 DEF WellFormed, ApprovalOK, Decision
<1>7. WellFormed(r)
  BY <1>3, <1>5, <1>6 DEF WellFormed
<1>8. Edit(m, r, f)
  BY <1>3, <1>4, <1>7, SavedWellFormed DEF Edit, Keeps
<1>. QED BY <1>8 DEF r

\* A task's new status touches nothing else.
LEMMA TaskEdit ==
    ASSUME NEW m, WellFormed(m), m.status \notin {"Absent", "Completed"},
           NEW f \in Frame, NEW s \in TaskStatus
    PROVE  LET r == [m EXCEPT !.tasks[At(m, f)].status = s]
           IN  /\ r.status = m.status /\ r.frames = m.frames
               /\ At(m, f) \in TaskId => r.tasks[At(r, f)].status = s
               /\ Edit(m, r, f)
<1>. DEFINE t == At(m, f)
            r == [m EXCEPT !.tasks[t].status = s]
<1>1. m \in RunRecord /\ r \in RunRecord
  BY TaskType DEF WellFormed
<1>2. /\ r.revision = m.revision /\ r.status = m.status /\ r.steps_used = m.steps_used
      /\ r.frames = m.frames /\ r.approvals = m.approvals /\ r.applied = m.applied
  BY <1>1 DEF RunRecord
<1>3. t \in TaskId => r.tasks[t].status = s
  BY <1>1 DEF RunRecord, TaskRecord
<1>. HIDE DEF r
<1>4. WellFormed(r)
  BY <1>1, <1>2 DEF WellFormed, RunOK, CursorOK, ApprovalOK
<1>5. Edit(m, r, f)
  BY <1>1, <1>2, <1>4, SavedWellFormed DEF Edit, Keeps
<1>6. At(r, f) = t
  BY <1>2 DEF At
<1>. QED BY <1>2, <1>3, <1>5, <1>6 DEF r

-----------------------------------------------------------------------------
(* The steps.  StepOK is what the action properties ask of one of them.     *)

Serial == disk' # disk =>
             disk.status = "Absent" \/ disk'.revision = disk.revision + 1
ApprovedStep ==
    \A f \in Frame :
       LET a == <<f, disk.frames[f].next_node, disk.frames[f].steps_used>>
       IN  /\ a \in ApprovalId
           /\ disk.frames[f].phase = "Active" /\ disk'.frames[f].phase # "Active"
           => disk.approvals[a].decision = "Approve"
RecordedStep ==
    \A t \in TaskId : calls'[t] # calls[t] =>
       disk.tasks[t].status = "Started" /\ disk.status \in Live
StepOK == Serial /\ ApprovedStep /\ RecordedStep

LEMMA SegmentOthers ==
    ASSUME IInv, NEW f \in Frame, InSegment(f), NEW to \in Control,
           pc' = [pc EXCEPT ![f] = to]
    PROVE  /\ pc' \in [Frame -> Control] /\ pc'[f] = to
           /\ \A g \in Frame \ {f} : pc'[g] = pc[g] /\ pc[g] \notin Midway
           /\ \A g, h \in Frame : pc'[g] \in Midway /\ pc'[h] \in Midway => g = h
<1>1. pc \in [Frame -> Control]
  BY DEF IInv, TypeOK
<1>2. \A g \in Frame \ {f} : pc[g] \notin Midway
  BY DEF InSegment
<1>. QED BY <1>1, <1>2

\* Another frame's place only speaks of its own cursor while it waits.
LEMMA LocalOfOther ==
    ASSUME NEW m, NEW r, NEW g \in Frame, r.frames[g] = m.frames[g], NEW p,
           p \notin Midway, Local(m, g, p)
    PROVE  Local(r, g, p)
BY DEF Local, Midway

LEMMA SilentStep ==
    ASSUME IInv, NEW f \in Frame, InSegment(f), NEW to \in Control \ {"send"},
           Silent(f, to), Local(mem, f, to)
    PROVE  IInv' /\ StepOK
<1>1. pc' = [pc EXCEPT ![f] = to]
  BY DEF Silent, Goto
<1>2. /\ pc' \in [Frame -> Control] /\ pc'[f] = to
      /\ \A g \in Frame \ {f} : pc'[g] = pc[g] /\ pc[g] \notin Midway
      /\ \A g, h \in Frame : pc'[g] \in Midway /\ pc'[h] \in Midway => g = h
  BY <1>1, SegmentOthers
<1>3. /\ disk' = disk /\ mem' = mem /\ host' = host /\ poisoned' = poisoned
      /\ cancelled' = cancelled /\ due' = due /\ calls' = calls /\ acked' = acked
      /\ mishaps' = mishaps /\ host = "up"
  BY DEF Silent, InSegment
<1>4. cut' \subseteq Frame
  BY DEF Silent, Goto, Siblings, IInv, TypeOK
<1>5. TypeOK'
  BY <1>2, <1>3, <1>4 DEF IInv, TypeOK
<1>6. SessionInv'
  BY <1>2, <1>3 DEF IInv, SessionInv, Midway
<1>7. \A g \in Frame : Local(mem, g, pc[g])'
  BY <1>2, <1>3 DEF IInv
<1>8. WellFormed(disk)' /\ WellFormed(mem)' /\ AckedDecisionKept'
  BY <1>3 DEF IInv, AckedDecisionKept
<1>9. StepOK
  BY <1>3 DEF StepOK, Serial, ApprovedStep, RecordedStep
<1>. QED BY <1>5, <1>6, <1>7, <1>8, <1>9 DEF IInv

\* The record a save may leave on disk: the old one, or an edit of it that keeps what
\* clients were told.
LEMMA KeptByEdit ==
    ASSUME NEW m, NEW r, NEW f \in Frame, Keeps(m, r, f), m = disk, WellFormed(m),
           TypeOK, AckedDecisionKept, disk' \in {disk, Saved(r)}
    PROVE  /\ WellFormed(disk)' /\ Serial /\ ApprovedStep
           /\ disk'.status = "Absent" => disk' = disk
           /\ \A x \in acked : disk'.approvals[x[1]] = disk.approvals[x[1]]
           /\ acked' = acked => AckedDecisionKept'
<1>1. /\ Saved(r).revision = m.revision + 1 /\ Saved(r).frames = r.frames
      /\ Saved(r).approvals = r.approvals /\ Saved(r).status = r.status
  BY SavedFacts DEF Keeps
<1>2. WellFormed(disk)'
  BY DEF Keeps
<1>3. Serial /\ (disk'.status = "Absent" => disk' = disk)
  BY <1>1 DEF Serial, Keeps
<1>4. ApprovedStep
  BY <1>1 DEF Keeps, ApprovedStep, At
<1>5. \A x \in acked : x[1] \in ApprovalId /\ x[3] \in Decision
  BY DEF TypeOK
<1>6. \A x \in acked : disk'.approvals[x[1]] = disk.approvals[x[1]]
  BY <1>1, <1>5 DEF Keeps, AckedDecisionKept
<1>7. acked' = acked => AckedDecisionKept'
  BY <1>6 DEF AckedDecisionKept
<1>. QED BY <1>2, <1>3, <1>4, <1>6, <1>7

LEMMA UpdateStep ==
    ASSUME IInv, NEW f \in Frame, InSegment(f), NEW to \in Control, NEW r,
           Edit(mem, r, f), Local(r, f, to), Update(r, f, to)
    PROVE  IInv' /\ StepOK
<1>. USE DEF IInv
<1>1. CASE SaveOk(r, f, to)
  <2>1. ~poisoned /\ mem = disk /\ r \in RunRecord
    BY <1>1 DEF SaveOk, Writable, SessionInv, Edit, Keeps
  <2>2. /\ pc' = [pc EXCEPT ![f] = to] /\ cut' \subseteq Frame
        /\ mem' = Saved(r) /\ disk' = mem'
        /\ UNCHANGED <<host, poisoned, cancelled, due, calls, acked, mishaps>>
    BY <1>1 DEF SaveOk, Goto, Siblings, TypeOK
  <2>3. /\ WellFormed(disk)' /\ AckedDecisionKept' /\ Serial /\ ApprovedStep
        /\ disk'.status = "Absent" => disk' = disk
    BY <2>1, <2>2, KeptByEdit DEF Edit
  <2>4. /\ pc' \in [Frame -> Control] /\ pc'[f] = to
        /\ \A g \in Frame \ {f} : pc'[g] = pc[g] /\ pc[g] \notin Midway
        /\ \A g, h \in Frame : pc'[g] \in Midway /\ pc'[h] \in Midway => g = h
    BY <2>2, SegmentOthers
  <2>5. TypeOK'
    BY <2>2, <2>3, <2>4 DEF TypeOK, WellFormed
  <2>6. host = "up" /\ mem'.status = r.status /\ mem'.frames = r.frames
    BY <2>1, <2>2, SavedFacts DEF InSegment
  <2>7. SessionInv'
    BY <2>1, <2>2, <2>3, <2>4, <2>6 DEF SessionInv, Edit, Keeps
  <2>8. Local(mem', f, pc'[f])
    BY <2>1, <2>2, <2>4, LocalOfSaved
  <2>9. ASSUME NEW g \in Frame \ {f} PROVE Local(mem', g, pc'[g])
    <3>1. mem'.frames[g] = mem.frames[g]
      BY <2>6 DEF Edit, Keeps
    <3>. QED BY <2>4, <3>1, LocalOfOther
  <2>10. RecordedStep
    BY <2>2 DEF RecordedStep
  <2>. QED BY <2>2, <2>3, <2>5, <2>7, <2>8, <2>9, <2>10 DEF StepOK
<1>2. CASE SaveFails(r, f)
  <2>1. ~poisoned /\ mem = disk
    BY <1>2 DEF SaveFails, Writable, SessionInv
  <2>2. /\ pc' = [pc EXCEPT ![f] = "failed"] /\ cut' \subseteq Frame
        /\ mem' = mem /\ disk' \in {disk, Saved(r)} /\ poisoned' = TRUE
        /\ mishaps' \in 0 .. MaxMishaps
        /\ UNCHANGED <<host, cancelled, due, calls, acked>>
    BY <1>2, TopologyAssumption DEF SaveFails, Goto, Siblings, Mishap, TypeOK
  <2>3. /\ WellFormed(disk)' /\ AckedDecisionKept' /\ Serial /\ ApprovedStep
        /\ disk'.status = "Absent" => disk' = disk
    BY <2>1, <2>2, KeptByEdit DEF Edit
  <2>4. /\ pc' \in [Frame -> Control] /\ pc'[f] = "failed"
        /\ \A g \in Frame \ {f} : pc'[g] = pc[g] /\ pc[g] \notin Midway
        /\ \A g, h \in Frame : pc'[g] \in Midway /\ pc'[h] \in Midway => g = h
    BY <2>2, SegmentOthers DEF Control, Outcome
  <2>5. TypeOK'
    BY <2>2, <2>3, <2>4 DEF TypeOK, WellFormed
  <2>6. host = "up"
    BY DEF InSegment
  <2>7. SessionInv'
    BY <2>2, <2>3, <2>4, <2>6 DEF SessionInv, Midway
  <2>8. \A g \in Frame : Local(mem', g, pc'[g])
    BY <2>2, <2>4 DEF Local
  <2>9. RecordedStep
    BY <2>2 DEF RecordedStep
  <2>. QED BY <2>2, <2>3, <2>5, <2>7, <2>8, <2>9 DEF StepOK
<1>3. CASE SaveRefused(f)
  <2>1. Silent(f, "failed")
    BY <1>3 DEF SaveRefused, Silent
  <2>2. Local(mem, f, "failed") /\ "failed" \in Control \ {"send"}
    BY DEF Local, Control, Outcome
  <2>. QED BY <2>1, <2>2, SilentStep
<1>. QED BY <1>1, <1>2, <1>3 DEF Update

-----------------------------------------------------------------------------
(* The lease is released, or taken; a client's single save.                *)

LEMMA ReleaseStep ==
    ASSUME IInv, Release, WellFormed(disk)', AckedDecisionKept', Serial, ApprovedStep,
           disk'.status = "Absent" => disk' = NoRecord,
           due' = due, calls' = calls, acked' \subseteq ApprovalId \X Request \X Decision,
           mishaps' \in 0 .. MaxMishaps
    PROVE  IInv' /\ StepOK
<1>1. /\ host' = "down" /\ mem' = disk' /\ poisoned' = FALSE /\ cancelled' = FALSE
      /\ cut' = {} /\ pc' = [f \in Frame |-> "off"]
  BY DEF Release
<1>2. TypeOK'
  BY <1>1 DEF IInv, TypeOK, WellFormed, Control
<1>3. SessionInv'
  BY <1>1 DEF SessionInv, Midway
<1>4. \A f \in Frame : Local(mem, f, pc[f])'
  BY <1>1 DEF Local
<1>5. RecordedStep
  BY DEF RecordedStep
<1>. QED BY <1>1, <1>2, <1>3, <1>4, <1>5 DEF IInv, StepOK

LEMMA TakeStep ==
    ASSUME IInv, NEW token \in BOOLEAN, Take(token), WellFormed(disk)',
           AckedDecisionKept', Serial, ApprovedStep, disk'.status \in Live,
           UNCHANGED <<due, calls, acked, mishaps>>
    PROVE  IInv' /\ StepOK
<1>1. /\ host' = "up" /\ mem' = disk' /\ poisoned' = FALSE /\ cancelled' = token
      /\ cut' = {} /\ pc' = [f \in Frame |-> IF f = Root THEN "launch" ELSE "off"]
  BY DEF Take
<1>2. TypeOK'
  BY <1>1 DEF IInv, TypeOK, WellFormed, Control, Midway
<1>3. SessionInv'
  BY <1>1 DEF SessionInv, Midway, Live
<1>4. \A f \in Frame : Local(mem, f, pc[f])'
  BY <1>1 DEF Local
<1>5. RecordedStep
  BY DEF RecordedStep
<1>. QED BY <1>1, <1>2, <1>3, <1>4, <1>5 DEF IInv, StepOK

LEMMA MishapType ==
    ASSUME IInv, UNCHANGED mishaps \/ Mishap
    PROVE  mishaps' \in 0 .. MaxMishaps
BY TopologyAssumption DEF IInv, TypeOK, Mishap

LEMMA SaveOnceStep ==
    ASSUME IInv, NEW r, Keeps(disk, r, Root), SaveOnce(r), UNCHANGED <<due, calls, acked>>
    PROVE  IInv' /\ StepOK
<1>1. Release /\ disk' \in {disk, Saved(r)} /\ (UNCHANGED mishaps \/ Mishap)
  BY DEF SaveOnce
<1>2. /\ WellFormed(disk)' /\ AckedDecisionKept' /\ Serial /\ ApprovedStep
      /\ disk'.status = "Absent" => disk' = disk
  BY <1>1, RootFrame, KeptByEdit DEF IInv
<1>3. disk'.status = "Absent" => disk' = NoRecord
  BY <1>2 DEF IInv, SessionInv
<1>. QED BY <1>1, <1>2, <1>3, MishapType, ReleaseStep DEF IInv, TypeOK

LEMMA StatusKeeps ==
    ASSUME NEW m, WellFormed(m), m.status \in Live, NEW s \in RunStatus \ {"Completed"}
    PROVE  Keeps(m, WithStatus(m, s), Root)
BY RootFrame, StatusEdit DEF Edit, Live

LEMMA CompletedKeeps ==
    ASSUME NEW m, WellFormed(m), m.status # "Absent", Local(m, Root, "ok")
    PROVE  Keeps(m, WithStatus(m, "Completed"), Root)
<1>. DEFINE r == WithStatus(m, "Completed")
<1>1. m \in RunRecord /\ r \in RunRecord /\ "Completed" \in RunStatus
  BY StatusType DEF WellFormed, RunStatus
<1>2. /\ r.status = "Completed" /\ r.revision = m.revision
      /\ r.steps_used = m.steps_used /\ r.frames = m.frames
      /\ r.approvals = m.approvals /\ r.applied = m.applied
  BY <1>1, StatusFacts
<1>. HIDE DEF r
<1>3. WellFormed(r)
  BY <1>1, <1>2 DEF WellFormed, RunOK, CursorOK, ApprovalOK, Local
<1>4. Keeps(m, r, Root)
  BY <1>1, <1>2, <1>3, SavedWellFormed DEF Keeps
<1>. QED BY <1>4 DEF r

LEMMA DecidedKeeps ==
    ASSUME NEW m, WellFormed(m), NEW a \in ApprovalId, Decidable(m, a),
           NEW q \in Request, NEW d \in Decision
    PROVE  /\ Keeps(m, Decided(m, a, q, d), Root)
           /\ Decided(m, a, q, d).approvals[a].decision = d
           /\ Decided(m, a, q, d).approvals[a].request_id = q
<1>. DEFINE r == Decided(m, a, q, d)
<1>1. /\ m \in RunRecord /\ r \in RunRecord /\ m.status = "Suspended"
      /\ m.approvals[a].decision = "Awaited" /\ m.revision \in Nat
      /\ \A b \in ApprovalId : m.approvals[b].accepted_revision \in Nat
  BY DecidedType DEF WellFormed, Decidable, Pending, RunRecord, ApprovalRequest
<1>2. /\ r.revision = m.revision /\ r.status = m.status /\ r.steps_used = m.steps_used
      /\ r.frames = m.frames /\ r.applied = m.applied
      /\ \A b \in ApprovalId \ {a} : r.approvals[b] = m.approvals[b]
      /\ r.approvals[a] = [decision |-> d, request_id |-> q,
                           accepted_revision |-> m.revision + 1]
  BY <1>1 DEF RunRecord, Decided
<1>. HIDE DEF r
<1>3. /\ Saved(r) \in RunRecord /\ Saved(r).revision = m.revision + 1
      /\ Saved(r).status = m.status /\ Saved(r).steps_used = m.steps_used
      /\ Saved(r).frames = m.frames /\ Saved(r).applied = m.applied
      /\ Saved(r).approvals = r.approvals
  BY <1>1, <1>2, SavedType, SavedFacts
<1>4. RunOK(Saved(r)) /\ \A f \in Frame : CursorOK(Saved(r), f)
  BY <1>3 DEF WellFormed, RunOK, CursorOK
<1>5. ASSUME NEW b \in ApprovalId PROVE ApprovalOK(Saved(r), b)
  <2>1. CASE b = a
    BY <1>1, <1>2, <1>3, <2>1 DEF WellFormed, ApprovalOK
  <2>2. CASE b # a
    <3>1. m.approvals[b].accepted_revision <= m.revision + 1
      BY <1>1 DEF WellFormed, ApprovalOK
    <3>. QED BY <1>2, <1>3, <2>2, <3>1 DEF WellFormed, ApprovalOK
  <2>. QED BY <2>1, <2>2
<1>6. Keeps(m, r, Root)
  BY <1>1, <1>2, <1>3, <1>4, <1>5 DEF Keeps, WellFormed, Decision
<1>. QED BY <1>2, <1>6 DEF r

LEMMA ResolvedKeeps ==
    ASSUME NEW m, WellFormed(m), m.status \in Live,
           NEW t \in TaskId, NEW q \in Request, NEW s \in TaskResolution
    PROVE  Keeps(m, Resolved(m, t, q, s), Root)
<1>. DEFINE r == Resolved(m, t, q, s)
<1>1. m \in RunRecord /\ r \in RunRecord
  BY ResolvedType DEF WellFormed
<1>2. /\ r.revision = m.revision /\ r.status = m.status /\ r.steps_used = m.steps_used
      /\ r.frames = m.frames /\ r.approvals = m.approvals /\ r.applied = m.applied
  BY <1>1 DEF RunRecord, Resolved
<1>. HIDE DEF r
<1>3. WellFormed(r)
  BY <1>1, <1>2 DEF WellFormed, RunOK, CursorOK, ApprovalOK
<1>4. Keeps(m, r, Root)
  BY <1>1, <1>2, <1>3, SavedWellFormed DEF Keeps, Live
<1>. QED BY <1>4 DEF r

-----------------------------------------------------------------------------
(* One lemma per operation.                                                *)

\* What every step of a frame starts from.
LEMMA Polled ==
    ASSUME IInv, NEW f \in Frame, InSegment(f)
    PROVE  /\ WellFormed(mem) /\ mem \in RunRecord /\ mem.status \in Live \cup Halted
           /\ Local(mem, f, pc[f])
           /\ mem.frames[f] \in FrameRecord
BY DEF IInv, InSegment, SessionInv, WellFormed, RunRecord, RunStatus

\* Saving a new status and stopping or suspending there.
LEMMA StatusStep ==
    ASSUME IInv, NEW f \in Frame, InSegment(f), NEW s \in RunStatus \ {"Completed"},
           NEW to \in Outcome \cup {"enter"}, to # "ok", Update(WithStatus(mem, s), f, to)
    PROVE  IInv' /\ StepOK
<1>1. Edit(mem, WithStatus(mem, s), f)
  BY Polled, StatusEdit DEF Live, Halted
<1>2. Local(WithStatus(mem, s), f, to)
  BY DEF Local, Outcome
<1>3. to \in Control
  BY DEF Control
<1>. QED BY <1>1, <1>2, <1>3, UpdateStep

LEMMA SilentPlain ==
    ASSUME IInv, NEW f \in Frame, InSegment(f),
           NEW to \in {"failed", "stopped", "suspended"}, Silent(f, to)
    PROVE  IInv' /\ StepOK
BY SilentStep DEF Local, Control, Outcome

LEMMA LaunchStep == ASSUME IInv, Launch PROVE IInv' /\ StepOK
BY StatusStep, RootFrame DEF Launch, RunStatus, Live

LEMMA EnterStep ==
    ASSUME IInv, NEW f \in Frame, Enter(f)
    PROVE  IInv' /\ StepOK
<1>1. InSegment(f) /\ mem.status \notin {"Absent", "Completed"} /\ WellFormed(mem)
  BY Polled DEF Enter, Live, Halted
<1>2. CASE mem.frames[f].phase # "Absent"
  <2>. DEFINE to == IF mem.frames[f].next_node = End THEN "ok" ELSE "top"
  <2>1. Silent(f, to) /\ to \in Control \ {"send"} /\ Local(mem, f, to)
    BY <1>2 DEF Enter, Local, Control, Outcome, Midway
  <2>. QED BY <1>1, <2>1, SilentStep
<1>3. CASE mem.frames[f].phase = "Absent"
  <2>. DEFINE r == [mem EXCEPT !.frames[f] = NewFrame(f)]
  <2>1. Update(r, f, "top") /\ "top" \in Control
    BY <1>3 DEF Enter, Control, Midway
  <2>2. Edit(mem, r, f) /\ Local(r, f, "top")
    BY <1>1, <1>3, OpenedEdit
  <2>. HIDE DEF r
  <2>. QED BY <1>1, <2>1, <2>2, UpdateStep
<1>. QED BY <1>2, <1>3

LEMMA TopStep ==
    ASSUME IInv, NEW f \in Frame, Top(f)
    PROVE  IInv' /\ StepOK
<1>1. /\ InSegment(f) /\ WellFormed(mem) /\ mem.status \in Live \cup Halted
      /\ mem.frames[f].phase \in {"Idle", "Active"} /\ mem.frames[f].next_node # End
  BY Polled DEF Top, Local, FrameRecord
<1>2. CASE Update(WithStatus(mem, "Cancelled"), f, "stopped")
  BY <1>1, <1>2, StatusStep DEF RunStatus, Halted, Outcome
<1>3. CASE Silent(f, "failed") \/ Silent(f, "stopped")
  BY <1>1, <1>3, SilentPlain
<1>4. CASE /\ ~MayNotBegin(mem) /\ (mem.frames[f].phase = "Idle" => ~Exhausted(mem, f))
           /\ Update(Charged(mem, f), f, Dispatch(mem.frames[f].next_node))
  <2>. DEFINE n == mem.frames[f].next_node
  <2>1. /\ Edit(mem, Charged(mem, f), f) /\ Local(Charged(mem, f), f, Dispatch(n))
    BY <1>1, <1>4, ChargedEdit DEF MayNotBegin, Live, Halted
  <2>2. Kind[n] \in Kinds
    BY <1>1, TopologyAssumption DEF WellFormed, RunRecord, FrameRecord
  <2>3. Dispatch(n) \in Control
    BY <2>2 DEF Dispatch, Kinds, Control, Midway
  <2>. QED BY <1>1, <1>4, <2>1, <2>3, UpdateStep
<1>. QED BY <1>1, <1>2, <1>3, <1>4 DEF Top, Begin

LEMMA ApproveStep ==
    ASSUME IInv, NEW f \in Frame, Approve(f)
    PROVE  IInv' /\ StepOK
<1>. DEFINE a == At(mem, f)
            d == mem.approvals[a].decision
<1>1. InSegment(f) /\ WellFormed(mem) /\ Local(mem, f, "approve") /\ mem.status \in Live
  BY Polled DEF Approve, Local
<1>2. CASE Passes(d) /\ Silent(f, "commit")
  <2>1. Local(mem, f, "commit") /\ "commit" \in Control \ {"send"}
    BY <1>1, <1>2 DEF Passes, Local, Control, Midway
  <2>. QED BY <1>1, <1>2, <2>1, SilentStep
<1>3. CASE /\ d = "Reject"
           /\ Update([WithStatus(mem, "Rejected") EXCEPT !.applied = @ \cup {a}],
                     f, "stopped")
  <2>. DEFINE r == [WithStatus(mem, "Rejected") EXCEPT !.applied = @ \cup {a}]
  <2>1. Edit(mem, r, f)
    BY <1>1, <1>3, RejectedEdit
  <2>2. Update(r, f, "stopped") /\ Local(r, f, "stopped") /\ "stopped" \in Control
    BY <1>3 DEF Local, Control, Outcome
  <2>. HIDE DEF r
  <2>. QED BY <1>1, <2>1, <2>2, UpdateStep
<1>4. CASE /\ d = "Absent"
           /\ Update([mem EXCEPT !.approvals[a].decision = "Awaited"], f, "suspend")
  <2>. DEFINE r == [mem EXCEPT !.approvals[a].decision = "Awaited"]
  <2>1. Edit(mem, r, f) /\ Local(r, f, "suspend")
    BY <1>1, <1>4, AskedEdit
  <2>2. Update(r, f, "suspend") /\ "suspend" \in Control
    BY <1>4 DEF Control, Midway
  <2>. HIDE DEF r
  <2>. QED BY <1>1, <2>1, <2>2, UpdateStep
<1>5. CASE Update(WithStatus(mem, "Expired"), f, "stopped")
  BY <1>1, <1>5, StatusStep DEF RunStatus, Halted, Outcome
<1>6. CASE Silent(f, "suspend")
  <2>1. Local(mem, f, "suspend") /\ "suspend" \in Control \ {"send"}
    BY <1>1 DEF Local, Control, Midway
  <2>. QED BY <1>1, <1>6, <2>1, SilentStep
<1>. QED BY <1>2, <1>3, <1>4, <1>5, <1>6 DEF Approve

LEMMA SuspendStep ==
    ASSUME IInv, NEW f \in Frame, Suspend(f)
    PROVE  IInv' /\ StepOK
BY StatusStep DEF Suspend, RunStatus, Live, Outcome

LEMMA MarkUnknownStep ==
    ASSUME IInv, NEW f \in Frame, InSegment(f), MarkUnknown(f)
    PROVE  IInv' /\ StepOK
<1>. DEFINE m == WithStatus(mem, "Suspended")
            t == At(mem, f)
            r == [m EXCEPT !.tasks[t].status = "Unknown"]
<1>1. CASE Silent(f, "failed") \/ Silent(f, "stopped")
  BY <1>1, SilentPlain
<1>2. CASE Update(r, f, "suspended")
  <2>1. /\ WellFormed(mem) /\ mem.status \notin {"Absent", "Completed"}
        /\ mem \in RunRecord /\ "Suspended" \in RunStatus \ {"Completed"}
    BY Polled DEF Live, Halted, RunStatus
  <2>2. /\ Edit(mem, m, f) /\ WellFormed(m) /\ m.status = "Suspended"
        /\ m.frames = mem.frames /\ m.approvals = mem.approvals
        /\ m.revision = mem.revision
    BY <2>1, StatusEdit, StatusWellFormed, StatusFacts
  <2>. HIDE DEF m
  <2>3. At(m, f) = t
    BY <2>2 DEF At
  <2>4. Edit(m, r, f)
    BY <2>2, <2>3, TaskEdit DEF TaskStatus
  <2>. HIDE DEF r, t
  <2>5. Edit(mem, r, f)
    BY <2>2, <2>3, <2>4 DEF Edit, Keeps, At
  <2>6. Local(r, f, "suspended") /\ "suspended" \in Control
    BY DEF Local, Control, Outcome
  <2>. QED BY <1>2, <2>5, <2>6, UpdateStep
<1>. QED BY <1>1, <1>2 DEF MarkUnknown

\* A task's save from one place of TaskRuntime::execute to another.
LEMMA TaskUpdate ==
    ASSUME IInv, NEW f \in Frame, InSegment(f),
           NEW from \in {"work", "start", "call"}, Local(mem, f, from),
           NEW s \in TaskStatus, NEW to \in {"start", "send", "finish"},
           to # "finish" => mem.status \in Live, to = "send" => s = "Started",
           Update([mem EXCEPT !.tasks[At(mem, f)].status = s], f, to)
    PROVE  IInv' /\ StepOK
<1>. DEFINE r == [mem EXCEPT !.tasks[At(mem, f)].status = s]
<1>1. /\ WellFormed(mem) /\ mem.status \notin {"Absent", "Completed"}
      /\ mem.frames[f].phase = "Active" /\ Kind[mem.frames[f].next_node] = "task"
      /\ to \in Control
  BY Polled DEF Live, Halted, Local, Control, Midway
<1>2. At(mem, f) \in TaskId
  BY <1>1, AtInvocation
<1>3. /\ Edit(mem, r, f) /\ r.status = mem.status /\ r.frames = mem.frames
      /\ r.tasks[At(r, f)].status = s
  BY <1>1, <1>2, TaskEdit
<1>4. Update(r, f, to)
  OBVIOUS
<1>. HIDE DEF r
<1>5. Local(r, f, to)
  BY <1>1, <1>3 DEF Local
<1>. QED BY <1>1, <1>3, <1>4, <1>5, UpdateStep

LEMMA WorkStep ==
    ASSUME IInv, NEW f \in Frame, Work(f)
    PROVE  IInv' /\ StepOK
<1>1. InSegment(f) /\ Local(mem, f, "work")
  BY Polled DEF Work
<1>2. CASE Update(WithStatus(mem, "Cancelled"), f, "stopped")
  BY <1>1, <1>2, StatusStep DEF RunStatus, Halted, Outcome
<1>3. CASE Silent(f, "stopped")
  BY <1>1, <1>3, SilentPlain
<1>4. CASE Silent(f, "finish")
  <2>1. Local(mem, f, "finish") /\ "finish" \in Control \ {"send"}
    BY <1>1 DEF Local, Control
  <2>. QED BY <1>1, <1>4, <2>1, SilentStep
<1>5. CASE MarkUnknown(f)
  BY <1>1, <1>5, MarkUnknownStep
<1>6. CASE /\ ~MayNotStart(mem)
           /\ Update([mem EXCEPT !.tasks[At(mem, f)].status = "Planned"], f, "start")
  BY <1>1, <1>6, TaskUpdate DEF MayNotStart, TaskStatus
<1>7. CASE ~MayNotStart(mem) /\ Silent(f, "start")
  <2>1. Local(mem, f, "start") /\ "start" \in Control \ {"send"}
    BY <1>1, <1>7 DEF MayNotStart, Local, Control, Midway
  <2>. QED BY <1>1, <1>7, <2>1, SilentStep
<1>. QED BY <1>2, <1>3, <1>4, <1>5, <1>6, <1>7 DEF Work

LEMMA StartTaskStep ==
    ASSUME IInv, NEW f \in Frame, StartTask(f)
    PROVE  IInv' /\ StepOK
<1>1. InSegment(f) /\ Local(mem, f, "start") /\ mem.status \in Live
  BY Polled DEF StartTask, Local
<1>. QED BY <1>1, TaskUpdate DEF StartTask, TaskStatus

LEMMA ReturnStep ==
    ASSUME IInv, NEW f \in Frame, Return(f)
    PROVE  IInv' /\ StepOK
<1>1. InSegment(f) /\ Local(mem, f, "call")
  BY Polled DEF Return
<1>. QED BY <1>1, TaskUpdate DEF Return, TaskStatus

LEMMA SendStep ==
    ASSUME IInv, NEW f \in Frame, Send(f)
    PROVE  IInv' /\ StepOK
<1>. USE DEF IInv
<1>1. /\ InSegment(f) /\ Local(mem, f, "send") /\ WellFormed(mem)
      /\ ~poisoned /\ mem = disk
  BY Polled DEF Send, SessionInv
<1>2. /\ pc' = [pc EXCEPT ![f] = "call"] /\ cut' = cut
      /\ calls' = [calls EXCEPT ![At(mem, f)] = @ + 1]
      /\ UNCHANGED <<disk, mem, host, poisoned, cancelled, due, acked, mishaps>>
  BY DEF Send, Goto
<1>3. /\ pc' \in [Frame -> Control] /\ pc'[f] = "call"
      /\ \A g \in Frame \ {f} : pc'[g] = pc[g] /\ pc[g] \notin Midway
      /\ \A g, h \in Frame : pc'[g] \in Midway /\ pc'[h] \in Midway => g = h
  BY <1>1, <1>2, SegmentOthers DEF Control
<1>4. calls' \in [TaskId -> Nat]
  <2>1. At(mem, f) \in TaskId
    BY <1>1, AtInvocation DEF Local
  <2>. QED BY <1>2, <2>1 DEF TypeOK
<1>5. TypeOK'
  BY <1>2, <1>3, <1>4 DEF TypeOK
<1>6. SessionInv'
  BY <1>1, <1>2, <1>3 DEF SessionInv, InSegment
<1>7. Local(mem, f, "call")
  BY <1>1 DEF Local
<1>8. \A g \in Frame : Local(mem, g, pc[g])'
  BY <1>2, <1>3, <1>7
<1>9. AckedDecisionKept'
  BY <1>2 DEF AckedDecisionKept
<1>10. RecordedStep
  BY <1>1, <1>2 DEF RecordedStep, Local, TypeOK
<1>11. Serial /\ ApprovedStep
  BY <1>2 DEF Serial, ApprovedStep
<1>. QED BY <1>2, <1>5, <1>6, <1>8, <1>9, <1>10, <1>11 DEF StepOK

LEMMA ExternalErrorStep ==
    ASSUME IInv, NEW f \in Frame, ExternalError(f)
    PROVE  IInv' /\ StepOK
<1>. USE DEF IInv
<1>1. InSegment(f) /\ Local(mem, f, "call")
  BY Polled DEF ExternalError
<1>2. /\ pc' = [pc EXCEPT ![f] = "error"] /\ cut' = cut /\ mishaps' \in 0 .. MaxMishaps
      /\ UNCHANGED <<disk, mem, host, poisoned, cancelled, due, calls, acked>>
  BY MishapType DEF ExternalError, Goto
<1>3. /\ pc' \in [Frame -> Control] /\ pc'[f] = "error"
      /\ \A g \in Frame \ {f} : pc'[g] = pc[g] /\ pc[g] \notin Midway
      /\ \A g, h \in Frame : pc'[g] \in Midway /\ pc'[h] \in Midway => g = h
  BY <1>1, <1>2, SegmentOthers DEF Control, Midway
<1>4. TypeOK'
  BY <1>2, <1>3 DEF TypeOK
<1>5. SessionInv'
  BY <1>1, <1>2, <1>3 DEF SessionInv, InSegment
<1>6. Local(mem, f, "error")
  BY <1>1 DEF Local
<1>7. \A g \in Frame : Local(mem, g, pc[g])'
  BY <1>2, <1>3, <1>6
<1>8. AckedDecisionKept' /\ StepOK
  BY <1>2 DEF AckedDecisionKept, StepOK, Serial, ApprovedStep, RecordedStep
<1>. QED BY <1>2, <1>4, <1>5, <1>7, <1>8

LEMMA TaskFailedStep ==
    ASSUME IInv, NEW f \in Frame, TaskFailed(f)
    PROVE  IInv' /\ StepOK
BY MarkUnknownStep, SilentPlain DEF TaskFailed

LEMMA SpawnStep ==
    ASSUME IInv, NEW f \in Frame, Spawn(f)
    PROVE  IInv' /\ StepOK
<1>. USE DEF IInv
<1>1. InSegment(f) /\ Local(mem, f, "spawn")
  BY Polled DEF Spawn
<1>2. /\ UNCHANGED <<disk, mem, host, poisoned, cancelled, cut, due, calls, acked, mishaps>>
      /\ pc' = [g \in Frame |-> IF g = f THEN "join"
                                ELSE IF g \in Children(At(mem, f)) THEN "enter" ELSE pc[g]]
  BY DEF Spawn
<1>3. /\ pc' \in [Frame -> Control] /\ pc'[f] = "join"
      /\ \A g \in Frame \ {f} : pc'[g] \in {"enter", pc[g]} /\ pc[g] \notin Midway
  BY <1>1, <1>2 DEF Control, TypeOK, InSegment
<1>4. TypeOK'
  BY <1>2, <1>3 DEF TypeOK
<1>5. \A g \in Frame : pc'[g] \notin Midway
  BY <1>3 DEF Midway
<1>6. SessionInv'
  BY <1>1, <1>2, <1>5 DEF SessionInv, InSegment, Midway
<1>7. Local(mem, f, "join") /\ \A g \in Frame : Local(mem, g, "enter")
  BY <1>1 DEF Local
<1>8. \A g \in Frame : Local(mem, g, pc[g])'
  BY <1>2, <1>3, <1>7
<1>9. AckedDecisionKept' /\ StepOK
  BY <1>2 DEF AckedDecisionKept, StepOK, Serial, ApprovedStep, RecordedStep
<1>. QED BY <1>2, <1>4, <1>6, <1>8, <1>9

LEMMA JoinStep ==
    ASSUME IInv, NEW f \in Frame, Join(f)
    PROVE  IInv' /\ StepOK
<1>. DEFINE to == JoinOutcome({pc[g] : g \in Children(At(mem, f))})
<1>1. InSegment(f) /\ Local(mem, f, "join") /\ Silent(f, to)
  BY Polled DEF Join
<1>2. to \in {"stopped", "failed", "suspended", "commit"}
  BY DEF JoinOutcome
<1>. HIDE DEF to
<1>3. Local(mem, f, to) /\ to \in Control \ {"send"}
  BY <1>1, <1>2 DEF Local, Control, Outcome, Midway
<1>. QED BY <1>1, <1>3, SilentStep

LEMMA CommitStep ==
    ASSUME IInv, NEW f \in Frame, Commit(f)
    PROVE  IInv' /\ StepOK
<1>1. /\ InSegment(f) /\ pc[f] \in {"finish", "commit"} /\ Local(mem, f, pc[f])
      /\ WellFormed(mem) /\ mem.status \notin {"Absent", "Completed"}
  BY Polled DEF Commit, Live, Halted
<1>2. PICK next \in Route[mem.frames[f].next_node] :
         Update(Committed(mem, f, next), f, IF next = End THEN "ok" ELSE "top")
  BY DEF Commit
<1>3. /\ Edit(mem, Committed(mem, f, next), f)
      /\ Local(Committed(mem, f, next), f, IF next = End THEN "ok" ELSE "top")
  BY <1>1, CommittedEdit
<1>4. (IF next = End THEN "ok" ELSE "top") \in Control
  BY DEF Control, Outcome, Midway
<1>. QED BY <1>1, <1>2, <1>3, <1>4, UpdateStep

LEMMA RootRecordWellFormed ==
    /\ WellFormed(NoRecord) /\ WellFormed(RootRecord)
    /\ NoRecord.status = "Absent" /\ RootRecord.status = "Running"
    /\ \A f \in Frame : NoRecord.frames[f].phase = "Absent"
    /\ \A a \in ApprovalId : NoRecord.approvals[a].decision = "Absent"
<1>1. /\ NoRecord.status = "Absent" /\ NoRecord.revision = 0 /\ NoRecord.steps_used = 0
      /\ NoRecord.applied = {}
      /\ \A a \in ApprovalId : NoRecord.approvals[a] = NoApproval
      /\ \A f \in Frame : /\ NoRecord.frames[f].phase = "Absent"
                          /\ NoRecord.frames[f].next_node = Entry[f]
                          /\ NoRecord.frames[f].steps_used = 0
  BY DEF NoRecord, NewFrame
<1>2. NoApproval.decision = "Absent" /\ NoApproval.accepted_revision = 0
  BY DEF NoApproval
<1>3. \A f \in Frame : Budget[f] \in Nat /\ Entry[f] \in Graph[f]
  BY TopologyAssumption
<1>4. WellFormed(NoRecord)
  BY <1>1, <1>2, <1>3, RootRecordType, RootFrame
     DEF WellFormed, RunOK, CursorOK, ApprovalOK
<1>5. /\ RootRecord.status = "Running" /\ RootRecord.revision = 0
      /\ RootRecord.steps_used = 0 /\ RootRecord.applied = {}
      /\ RootRecord.approvals = NoRecord.approvals
      /\ RootRecord.frames = [NoRecord.frames EXCEPT ![Root].phase = "Idle"]
  BY DEF RootRecord, NoRecord
<1>6. /\ RootRecord.frames[Root].phase = "Idle"
      /\ \A f \in Frame : /\ RootRecord.frames[f].phase \in {"Idle", "Absent"}
                          /\ RootRecord.frames[f].next_node = Entry[f]
                          /\ RootRecord.frames[f].steps_used = 0
  <2>1. NoRecord.frames \in [Frame -> FrameRecord]
    BY RootRecordType DEF RunRecord
  <2>. QED BY <1>1, <1>5, <2>1, RootFrame DEF FrameRecord
<1>7. WellFormed(RootRecord)
  BY <1>1, <1>2, <1>3, <1>5, <1>6, RootRecordType, RootFrame
     DEF WellFormed, RunOK, CursorOK, ApprovalOK
<1>. QED BY <1>1, <1>2, <1>4, <1>5, <1>7

LEMMA StartStep == ASSUME IInv, Start PROVE IInv' /\ StepOK
<1>. USE DEF IInv
<1>1. /\ disk = NoRecord /\ disk.status = "Absent"
      /\ disk' \in {disk, RootRecord} /\ UNCHANGED <<due, calls, acked>>
      /\ (Take(FALSE) /\ disk' = RootRecord /\ UNCHANGED mishaps) \/ (Release /\ Mishap)
  BY DEF Start, SessionInv
<1>2. WellFormed(disk)' /\ (disk'.status = "Absent" => disk' = NoRecord)
  BY <1>1, RootRecordWellFormed
<1>3. Serial /\ ApprovedStep
  BY <1>1, RootRecordWellFormed DEF Serial, ApprovedStep
<1>4. \A x \in acked : x[1] \in ApprovalId /\ x[3] \in Decision
  BY DEF TypeOK
<1>5. acked = {}
  BY <1>1, <1>4, RootRecordWellFormed DEF AckedDecisionKept, Decision
<1>6. AckedDecisionKept'
  BY <1>1, <1>5 DEF AckedDecisionKept
<1>7. CASE Take(FALSE) /\ disk' = RootRecord /\ UNCHANGED mishaps
  BY <1>1, <1>2, <1>3, <1>6, <1>7, RootRecordWellFormed, TakeStep DEF Live
<1>8. CASE Release /\ Mishap
  BY <1>1, <1>2, <1>3, <1>6, <1>8, MishapType, ReleaseStep DEF TypeOK
<1>. QED BY <1>1, <1>7, <1>8

LEMMA ResumeStep ==
    ASSUME IInv, NEW token \in BOOLEAN, Resume(token)
    PROVE  IInv' /\ StepOK
<1>1. disk' = disk /\ disk.status \in Live /\ Take(token)
      /\ UNCHANGED <<due, calls, acked, mishaps>>
  BY DEF Resume
<1>2. /\ WellFormed(disk)' /\ AckedDecisionKept' /\ Serial /\ ApprovedStep
  BY <1>1 DEF IInv, AckedDecisionKept, Serial, ApprovedStep
<1>. QED BY <1>1, <1>2, TakeStep

LEMMA OneSaveSteps ==
    ASSUME IInv, ResumeExpired \/ CancelRun
    PROVE  IInv' /\ StepOK
<1>1. WellFormed(disk) /\ disk.status \in Live /\ UNCHANGED <<due, calls, acked>>
  BY DEF IInv, ResumeExpired, CancelRun
<1>2. PICK s \in {"Expired", "Cancelled"} : SaveOnce(WithStatus(disk, s))
  BY DEF ResumeExpired, CancelRun
<1>3. s \in RunStatus \ {"Completed"}
  BY DEF RunStatus, Halted
<1>. QED BY <1>1, <1>2, <1>3, StatusKeeps, SaveOnceStep

LEMMA ResolveTaskStep ==
    ASSUME IInv, NEW t \in TaskId, NEW q \in Request, NEW s \in TaskResolution,
           ResolveTask(t, q, s)
    PROVE  IInv' /\ StepOK
<1>1. WellFormed(disk) /\ disk.status \in Live
  BY DEF IInv, ResolveTask
<1>. QED BY <1>1, ResolvedKeeps, SaveOnceStep DEF ResolveTask

LEMMA SubmitDecisionStep ==
    ASSUME IInv, NEW a \in ApprovalId, NEW q \in Request, NEW d \in Decision,
           SubmitDecision(a, q, d)
    PROVE  IInv' /\ StepOK
<1>. USE DEF IInv
<1>1. /\ WellFormed(disk) /\ Decidable(disk, a) /\ disk.status \in Live
      /\ UNCHANGED <<due, calls>> /\ mishaps \in Nat
  BY DEF SubmitDecision, Decidable, Live, TypeOK
<1>2. CASE SaveOnce(WithStatus(disk, "Expired")) /\ UNCHANGED acked
  <2>1. Keeps(disk, WithStatus(disk, "Expired"), Root)
    BY <1>1, StatusKeeps DEF RunStatus, Halted
  <2>. QED BY <1>1, <1>2, <2>1, SaveOnceStep
<1>3. CASE /\ SaveOnce(Decided(disk, a, q, d))
           /\ acked' = IF mishaps' = mishaps THEN acked \cup {<<a, q, d>>} ELSE acked
  <2>. DEFINE r == Decided(disk, a, q, d)
  <2>1. /\ Keeps(disk, r, Root)
        /\ r.approvals[a].decision = d /\ r.approvals[a].request_id = q
    BY <1>1, DecidedKeeps
  <2>. HIDE DEF r
  <2>2. /\ Release /\ disk' \in {disk, Saved(r)} /\ (UNCHANGED mishaps \/ Mishap)
        /\ disk' = Saved(r) \/ Mishap
    BY <1>3 DEF SaveOnce, r
  <2>3. Mishap => mishaps' # mishaps
    BY <1>1 DEF Mishap
  <2>4. /\ WellFormed(disk)' /\ Serial /\ ApprovedStep
        /\ disk'.status = "Absent" => disk' = NoRecord
        /\ \A x \in acked : disk'.approvals[x[1]] = disk.approvals[x[1]]
    BY <2>1, <2>2, RootFrame, KeptByEdit DEF SessionInv
  <2>5. Saved(r).approvals = r.approvals
    BY <2>1, SavedFacts DEF Keeps
  <2>6. AckedDecisionKept'
    <3>1. ASSUME NEW x \in acked'
          PROVE  /\ disk'.approvals[x[1]].request_id = x[2]
                 /\ disk'.approvals[x[1]].decision = x[3]
      <4>1. CASE x \in acked
        BY <2>4, <4>1 DEF AckedDecisionKept
      <4>2. CASE x \notin acked
        <5>1. x = <<a, q, d>> /\ disk' = Saved(r)
          BY <1>3, <2>2, <2>3, <4>2
        <5>. QED BY <2>1, <2>5, <5>1
      <4>. QED BY <4>1, <4>2
    <3>. QED BY <3>1 DEF AckedDecisionKept
  <2>7. acked' \subseteq ApprovalId \X Request \X Decision
    BY <1>3 DEF TypeOK
  <2>. QED BY <1>1, <2>2, <2>4, <2>6, <2>7, MishapType, ReleaseStep
<1>. QED BY <1>2, <1>3 DEF SubmitDecision

\* A step that touches neither the record, nor the session, nor the calls.
LEMMA QuietStep ==
    ASSUME IInv, UNCHANGED <<disk, mem, host, poisoned, pc, calls>>,
           cancelled' \in BOOLEAN, cut' \subseteq Frame, due' \subseteq ApprovalId,
           acked' \subseteq ApprovalId \X Request \X Decision, mishaps' \in 0 .. MaxMishaps,
           AckedDecisionKept'
    PROVE  IInv' /\ StepOK
<1>1. TypeOK'
  BY DEF IInv, TypeOK
<1>2. SessionInv'
  BY DEF IInv, SessionInv
<1>3. WellFormed(disk)' /\ WellFormed(mem)' /\ \A f \in Frame : Local(mem, f, pc[f])'
  BY DEF IInv
<1>4. StepOK
  BY DEF StepOK, Serial, ApprovedStep, RecordedStep
<1>. QED BY <1>1, <1>2, <1>3, <1>4 DEF IInv

LEMMA RepeatDecisionStep ==
    ASSUME IInv, NEW a \in ApprovalId, NEW q \in Request, NEW d \in Decision,
           RepeatDecision(a, q, d)
    PROVE  IInv' /\ StepOK
<1>1. AckedDecisionKept'
  BY DEF RepeatDecision, IInv, AckedDecisionKept
<1>. QED BY <1>1, QuietStep DEF RepeatDecision, session, IInv, TypeOK

LEMMA CancelTokenStep == ASSUME IInv, CancelToken PROVE IInv' /\ StepOK
<1>1. AckedDecisionKept'
  BY DEF CancelToken, IInv, AckedDecisionKept
<1>. QED BY <1>1, QuietStep DEF CancelToken, IInv, TypeOK

LEMMA DeadlinePassesStep ==
    ASSUME IInv, NEW a \in ApprovalId, DeadlinePasses(a)
    PROVE  IInv' /\ StepOK
<1>1. AckedDecisionKept'
  BY DEF DeadlinePasses, IInv, AckedDecisionKept
<1>. QED BY <1>1, QuietStep DEF DeadlinePasses, session, IInv, TypeOK

LEMMA CrashStep == ASSUME IInv, Crash PROVE IInv' /\ StepOK
<1>1. /\ Release /\ Mishap /\ UNCHANGED <<disk, due, calls, acked>>
  BY DEF Crash
<1>2. /\ WellFormed(disk)' /\ AckedDecisionKept' /\ Serial /\ ApprovedStep
      /\ disk'.status = "Absent" => disk' = NoRecord
  BY <1>1 DEF IInv, SessionInv, AckedDecisionKept, Serial, ApprovedStep
<1>. QED BY <1>1, <1>2, MishapType, ReleaseStep DEF IInv, TypeOK

LEMMA ConcludeStep == ASSUME IInv, Conclude PROVE IInv' /\ StepOK
<1>. USE DEF IInv
<1>. DEFINE final == IF cancelled THEN "Cancelled" ELSE "Completed"
            r == WithStatus(mem, final)
<1>1. /\ host = "up" /\ Release /\ UNCHANGED <<due, calls, acked>>
      /\ WellFormed(mem) /\ Local(mem, Root, pc[Root]) /\ mem.status \in Live \cup Halted
  BY RootFrame DEF Conclude, SessionInv, WellFormed, RunRecord, RunStatus
<1>2. CASE UNCHANGED <<disk, mishaps>>
  <2>1. /\ WellFormed(disk)' /\ AckedDecisionKept' /\ Serial /\ ApprovedStep
        /\ disk'.status = "Absent" => disk' = NoRecord
    BY <1>1, <1>2 DEF SessionInv, AckedDecisionKept, Serial, ApprovedStep
  <2>. QED BY <1>1, <1>2, <2>1, MishapType, ReleaseStep DEF TypeOK
<1>3. CASE /\ ~poisoned /\ (cancelled \/ pc[Root] = "ok")
           /\ disk' \in {disk, Saved(r)} /\ (UNCHANGED mishaps \/ Mishap)
  <2>1. Keeps(mem, r, Root)
    <3>1. CASE cancelled
      BY <1>1, <3>1, RootFrame, StatusEdit DEF Edit, Live, Halted, RunStatus
    <3>2. CASE ~cancelled
      BY <1>1, <1>3, <3>2, CompletedKeeps DEF Live, Halted
    <3>. QED BY <3>1, <3>2
  <2>2. mem = disk
    BY <1>3 DEF SessionInv
  <2>. HIDE DEF r
  <2>3. /\ WellFormed(disk)' /\ AckedDecisionKept' /\ Serial /\ ApprovedStep
        /\ disk'.status = "Absent" => disk' = disk
    BY <1>1, <1>3, <2>1, <2>2, RootFrame, KeptByEdit
  <2>4. disk'.status = "Absent" => disk' = NoRecord
    BY <2>3 DEF SessionInv
  <2>. QED BY <1>1, <1>3, <2>3, <2>4, MishapType, ReleaseStep DEF TypeOK
<1>4. \/ UNCHANGED <<disk, mishaps>>
      \/ /\ ~poisoned /\ (cancelled \/ pc[Root] = "ok")
         /\ disk' \in {disk, Saved(r)} /\ (UNCHANGED mishaps \/ Mishap)
  BY DEF Conclude
<1>. QED BY <1>2, <1>3, <1>4

-----------------------------------------------------------------------------
(* The theorems.                                                           *)

LEMMA InitInvariant == Init => IInv
<1>. SUFFICES ASSUME Init PROVE IInv
  OBVIOUS
<1>1. TypeOK
  <2>1. disk \in RunRecord /\ mem \in RunRecord
    BY RootRecordType DEF Init
  <2>2. pc \in [Frame -> Control] /\ calls \in [TaskId -> Nat]
    BY DEF Init, Control
  <2>3. mishaps \in 0 .. MaxMishaps
    BY TopologyAssumption DEF Init
  <2>. QED BY <2>1, <2>2, <2>3 DEF Init, TypeOK
<1>2. WellFormed(disk) /\ WellFormed(mem)
  BY RootRecordWellFormed DEF Init
<1>3. SessionInv /\ AckedDecisionKept /\ \A f \in Frame : Local(mem, f, pc[f])
  BY DEF Init, SessionInv, AckedDecisionKept, Local, Midway
<1>. QED BY <1>1, <1>2, <1>3 DEF IInv

LEMMA NextInvariant == IInv /\ [Next]_vars => IInv' /\ StepOK
<1>. SUFFICES ASSUME IInv, [Next]_vars PROVE IInv' /\ StepOK
  OBVIOUS
<1>1. CASE Start \/ ResumeExpired \/ \E token \in BOOLEAN : Resume(token)
  BY <1>1, StartStep, OneSaveSteps, ResumeStep
<1>2. CASE Launch \/ Conclude \/ CancelToken \/ Crash
  BY <1>2, LaunchStep, ConcludeStep, CancelTokenStep, CrashStep
<1>3. CASE \E f \in Frame : FrameStep(f) \/ ExternalError(f)
  BY <1>3, EnterStep, TopStep, ApproveStep, SuspendStep, WorkStep, StartTaskStep, SendStep,
     ReturnStep, TaskFailedStep, SpawnStep, JoinStep, CommitStep, ExternalErrorStep
     DEF FrameStep
<1>4. CASE \E a \in ApprovalId : DeadlinePasses(a)
  BY <1>4, DeadlinePassesStep
<1>5. CASE Client
  BY <1>5, SubmitDecisionStep, RepeatDecisionStep, ResolveTaskStep, OneSaveSteps DEF Client
<1>6. CASE UNCHANGED vars
  <2>1. AckedDecisionKept'
    BY <1>6 DEF vars, IInv, AckedDecisionKept
  <2>. QED BY <1>6, <2>1, QuietStep DEF vars, IInv, TypeOK
<1>. QED BY <1>1, <1>2, <1>3, <1>4, <1>5, <1>6 DEF Next

THEOREM Invariance == Spec => []IInv
<1>. QED BY InitInvariant, NextInvariant, PTL DEF Spec

\* Type correctness, for every graph, budget and number of mishaps.
THEOREM TypeCorrect == Spec => []TypeOK
<1>1. IInv => TypeOK
  BY DEF IInv
<1>. QED BY <1>1, Invariance, PTL

\* A run never becomes impossible to load: every save, a failed one that reached the
\* disk included, leaves a record RunRecord::validate accepts.
THEOREM AlwaysLoadable == Spec => []DiskIsValid
<1>1. IInv => DiskIsValid
  BY WellFormedIsValid DEF IInv, DiskIsValid
<1>. QED BY <1>1, Invariance, PTL

\* The receipt submit_decision returned survives every crash, failed save and later call.
THEOREM ReceiptsAreKept == Spec => []AckedDecisionKept
<1>1. IInv => AckedDecisionKept
  BY DEF IInv
<1>. QED BY <1>1, Invariance, PTL

\* No two records are ever published under one revision.
THEOREM SavesAreSerial == Spec => RevisionsAreSerial
<1>1. IInv /\ [Next]_vars =>
         [disk' # disk => disk.status = "Absent" \/ disk'.revision = disk.revision + 1]_disk
  BY NextInvariant DEF StepOK, Serial
<1>. QED BY <1>1, Invariance, PTL DEF Spec, RevisionsAreSerial

\* No barrier invocation is ever left without its own approval, in any graph.
THEOREM BarriersHold == Spec => BarrierNeedsApproval
<1>1. IInv /\ [Next]_vars => [ApprovedStep]_disk
  BY NextInvariant DEF StepOK
<1>. QED BY <1>1, Invariance, PTL DEF Spec, BarrierNeedsApproval, ApprovedStep

\* No external call is ever sent whose start is not on disk, nor for a halted run.
THEOREM CallsAreRecorded == Spec => CallIsRecorded
<1>1. IInv /\ [Next]_vars => [RecordedStep]_calls
  BY NextInvariant DEF StepOK
<1>. QED BY <1>1, Invariance, PTL DEF Spec, CallIsRecorded, RecordedStep

-----------------------------------------------------------------------------
(* The second invariant: which frames are being executed, what the record     *)
(* of one says of the record of another, and how often a task was called.     *)

Resting == {"off"} \cup Outcome
Opened(r, f) == r.frames[f].phase # "Absent"
Done(r, f) == Opened(r, f) /\ r.frames[f].next_node = End

\* The frame c belongs to the invocation its caller stands at.
CalledNow(r, c) ==
    LET p == Parent[c].frame
    IN  /\ r.frames[p].phase = "Active" /\ Kind[r.frames[p].next_node] = "group"
        /\ c \in Children(At(r, p))
\* The calls that lead from the root to f, among the frames of P.
Path(r, f, P) == Root \in P /\ \A g \in P \ {f} : P \cap Children(At(r, g)) # {}

\* An open frame is called now, or its whole group has finished.
GroupsOK(r) ==
    \A c \in Frame \ {Root} :
       Opened(r, c) => CalledNow(r, c) \/ \A s \in Siblings(c) : Done(r, s)
\* Above an unfinished frame every caller is in the middle of its invocation.
PathsOK(r) ==
    \A f \in Frame : Opened(r, f) /\ ~Done(r, f) =>
       \E P \in SUBSET Frame :
          Path(r, f, P) /\ \A g \in P \ {f} : r.frames[g].phase = "Active"
\* An approval or a task that is not settled is the one its frame stands at.
ApprovalsOK(r) ==
    \A a \in ApprovalId : r.approvals[a].decision # "Absent" =>
       \/ r.frames[a[1]].phase = "Active" /\ At(r, a[1]) = a
       \/ a \in r.applied /\ r.approvals[a].decision = "Approve"
TasksOK(r) ==
    \A t \in TaskId : r.tasks[t].status \in {"Planned", "Started", "Unknown"} =>
       r.frames[t[1]].phase = "Active" /\ At(r, t[1]) = t
Consistent(r) == GroupsOK(r) /\ PathsOK(r) /\ ApprovalsOK(r) /\ TasksOK(r)

\* What frame f's place p says of the record beyond Local.
Held(r, f, p) ==
    /\ p = "commit" /\ Kind[r.frames[f].next_node] = "group" =>
          \A c \in Children(At(r, f)) : Done(r, c)
    /\ p = "finish" /\ Kind[r.frames[f].next_node] = "task" =>
          r.tasks[At(r, f)].status = "Completed"
    /\ p = "start" /\ r.frames[f].next_node \in Manual =>
          r.tasks[At(r, f)].status = "Planned"

\* A frame is executed only while every caller of it, up to the root, waits for it.
CallersWait ==
    /\ \A c \in Frame \ {Root} : pc[c] \notin Resting =>
          pc[Parent[c].frame] = "join" /\ c \in Children(At(mem, Parent[c].frame))
    /\ \A f \in Frame : pc[f] \notin Resting =>
          \E P \in SUBSET Frame : Path(mem, f, P) /\ \A g \in P \ {f} : pc[g] = "join"
\* The frame p, at its place in run_graph_loop, is past the start of its invocation i.
PastStart(r, p, i, place) ==
    /\ Opened(r, p)
    /\ \/ r.frames[p].steps_used > i
       \/ /\ r.frames[p].steps_used = i
          /\ r.frames[p].phase = "Idle" \/ place \in {"join", "commit"} \cup Outcome
\* An invocation polls its children once.
PolledOnce ==
    \A c \in Frame \ {Root} : pc[c] # "off" =>
       PastStart(mem, Parent[c].frame, Parent[c].invocation, pc[Parent[c].frame])
\* The halt of a run is on its way from the frame that saved it to the root.
HaltSpreads ==
    host = "up" /\ mem.status \in Halted =>
       \E P \in SUBSET Frame :
          /\ Root \in P
          /\ \A g \in P : \/ pc[g] = "stopped"
                          \/ pc[g] = "join" /\ P \cap Children(At(mem, g)) # {}
CallTree == CallersWait /\ PolledOnce /\ HaltSpreads

\* A planned ManualRecovery task has used up its retries at most, an invoked one one
\* call more.
Unstarted == {"Absent", "Planned"}
CallsOK ==
    /\ \A t \in TaskId : t[2] \in Manual =>
          /\ calls[t] <= 1 + Cardinality(Retries(t))
          /\ disk.tasks[t].status \in Unstarted => calls[t] <= Cardinality(Retries(t))
    /\ \A f \in Frame : pc[f] = "send" /\ mem.frames[f].next_node \in Manual =>
          calls[At(mem, f)] <= Cardinality(Retries(At(mem, f)))

RunInv ==
    /\ CallTree /\ CallsOK
    /\ Consistent(disk) /\ Consistent(mem)
    /\ \A f \in Frame : Held(mem, f, pc[f])

\* The step HaltIsFinal asks for.
FrozenStep ==
    /\ disk.status = "Completed" => disk' = disk
    /\ disk.status \in Halted =>
          /\ disk'.status \in {disk.status, "Cancelled"}
          /\ disk'.steps_used = disk.steps_used

LEMMA TaskFrame ==
    ASSUME NEW t \in TaskId
    PROVE  t[1] \in Frame /\ t \in Invocation
BY DEF TaskId, Invocation

LEMMA ChildFacts ==
    ASSUME NEW r, NEW f, NEW c \in Children(At(r, f))
    PROVE  /\ c \in Frame \ {Root} /\ Parent[c].frame = f
           /\ Parent[c].node = r.frames[f].next_node
           /\ Parent[c].invocation = r.frames[f].steps_used
           /\ \A s \in Siblings(c) : s \in Children(At(r, f))
           /\ c \in Siblings(c)
BY DEF Children, Siblings, At

LEMMA ParentFrame ==
    ASSUME NEW c \in Frame \ {Root}
    PROVE  Parent[c].frame \in Frame /\ Parent[c].invocation \in Nat
BY TopologyAssumption

-----------------------------------------------------------------------------
(* The tree of calls.                                                      *)

\* What a step of f may do to the record, from its place p to its place to.
Advances(m, r, f, p, to) ==
    /\ \A g \in Frame \ {f} : r.frames[g] = m.frames[g]
    /\ Opened(m, f) =>
          /\ Opened(r, f)
          /\ \/ r.frames[f].steps_used > m.frames[f].steps_used
             \/ /\ r.frames[f].steps_used = m.frames[f].steps_used
                /\ r.frames[f].phase \in {m.frames[f].phase, "Idle"}
    /\ p \in {"join", "commit"} => to \in {"commit"} \cup Outcome \/ r.frames[f].phase = "Idle"
    /\ r.status \in Halted /\ m.status \notin Halted => to = "stopped"

Joined(f, to) ==
    /\ \A c \in Children(At(mem, f)) : pc[c] \in Outcome
    /\ (\E c \in Children(At(mem, f)) : pc[c] = "stopped") => to = "stopped"
    /\ to = "commit" => \A c \in Children(At(mem, f)) : pc[c] = "ok"

LEMMA CallTreeStep ==
    ASSUME IInv, IInv', CallTree, NEW f \in Frame, InSegment(f), host' = host,
           pc[f] \notin Resting, NEW to \in Control \ {"off"}, pc' = [pc EXCEPT ![f] = to],
           Advances(mem, mem', f, pc[f], to), pc[f] = "join" => Joined(f, to)
    PROVE  CallTree'
<1>1. /\ pc'[f] = to /\ \A g \in Frame \ {f} : pc'[g] = pc[g]
      /\ \A g \in Frame \ {f} : At(mem', g) = At(mem, g)
      /\ host = "up"
  BY DEF IInv, TypeOK, Advances, At, InSegment
<1>2. /\ "join" \notin Resting /\ "stopped" \in Resting
  BY DEF Resting, Outcome
\* While f is not at its join nobody waits for a child of f; at its end none does.
<1>3. ASSUME NEW c \in Children(At(mem, f)), pc[f] = "join"
      PROVE  pc[c] \in Outcome /\ (pc[c] = "stopped" => to = "stopped")
  BY <1>3 DEF Joined
<1>4. CallersWait'
  <2>1. ASSUME NEW c \in Frame \ {Root}, pc'[c] \notin Resting
        PROVE  pc'[Parent[c].frame] = "join" /\ c \in Children(At(mem', Parent[c].frame))
    <3>. DEFINE p == Parent[c].frame
    <3>1. pc[c] \notin Resting
      BY <1>1, <2>1
    <3>2. pc[p] = "join" /\ c \in Children(At(mem, p)) /\ p \in Frame
      BY <3>1, ParentFrame DEF CallTree, CallersWait
    <3>3. p # f
      BY <1>3, <3>1, <3>2 DEF Resting
    <3>. QED BY <1>1, <3>2, <3>3
  <2>2. ASSUME NEW h \in Frame, pc'[h] \notin Resting
        PROVE  \E P \in SUBSET Frame :
                  Path(mem', h, P) /\ \A g \in P \ {h} : pc'[g] = "join"
    <3>1. pc[h] \notin Resting
      BY <1>1, <2>2
    <3>2. PICK P \in SUBSET Frame : Path(mem, h, P) /\ \A g \in P \ {h} : pc[g] = "join"
      BY <3>1 DEF CallTree, CallersWait
    <3>3. ASSUME NEW g \in P \ {h} PROVE g # f
      <4>1. pc[g] = "join" /\ P \cap Children(At(mem, g)) # {}
        BY <3>2, <3>3 DEF Path
      <4>2. PICK c \in P : c \in Children(At(mem, g))
        BY <4>1
      <4>3. pc[c] \notin Outcome
        BY <1>2, <3>1, <3>2, <4>2 DEF Resting, Outcome
      <4>. QED BY <1>3, <4>1, <4>2, <4>3
    <3>4. Path(mem', h, P) /\ \A g \in P \ {h} : pc'[g] = "join"
      BY <1>1, <3>2, <3>3 DEF Path
    <3>. QED BY <3>4
  <2>. QED BY <2>1, <2>2 DEF CallersWait
<1>5. PolledOnce'
  <2>1. ASSUME NEW c \in Frame \ {Root}, pc'[c] # "off", NEW p, p = Parent[c].frame,
               NEW i, i = Parent[c].invocation
        PROVE  PastStart(mem', p, i, pc'[p])
    <3>1. pc[c] # "off" /\ p \in Frame /\ i \in Nat
      BY <1>1, <2>1, ParentFrame DEF Resting
    <3>2. PastStart(mem, p, i, pc[p])
      BY <2>1, <3>1 DEF CallTree, PolledOnce
    <3>3. CASE p # f
      BY <1>1, <3>1, <3>2, <3>3 DEF Advances, PastStart, Opened
    <3>4. CASE p = f
      <4>1. mem.frames[f].steps_used \in Nat /\ mem'.frames[f].steps_used \in Nat
        BY DEF IInv, TypeOK, RunRecord, FrameRecord
      <4>2. pc[f] \notin Outcome
        BY DEF Resting
      <4>3. Opened(mem', f)
        BY <3>2, <3>4 DEF Advances, PastStart
      <4>4. CASE mem'.frames[f].steps_used > mem.frames[f].steps_used
        BY <3>1, <3>2, <3>4, <4>1, <4>3, <4>4 DEF PastStart
      <4>5. CASE /\ mem'.frames[f].steps_used = mem.frames[f].steps_used
                 /\ mem'.frames[f].phase \in {mem.frames[f].phase, "Idle"}
        BY <1>1, <3>2, <3>4, <4>2, <4>3, <4>5 DEF Advances, PastStart
      <4>. QED BY <3>2, <3>4, <4>4, <4>5 DEF Advances, PastStart
    <3>. QED BY <3>3, <3>4
  <2>. QED BY <2>1 DEF PolledOnce
<1>6. HaltSpreads'
  <2>. SUFFICES ASSUME mem'.status \in Halted
                PROVE  \E P \in SUBSET Frame :
                          /\ Root \in P
                          /\ \A g \in P :
                                \/ pc'[g] = "stopped"
                                \/ pc'[g] = "join" /\ P \cap Children(At(mem', g)) # {}
    BY DEF HaltSpreads
  <2>1. CASE mem.status \in Halted
    <3>1. PICK P \in SUBSET Frame :
             /\ Root \in P
             /\ \A g \in P : \/ pc[g] = "stopped"
                             \/ pc[g] = "join" /\ P \cap Children(At(mem, g)) # {}
      BY <1>1, <2>1 DEF CallTree, HaltSpreads
    <3>2. ASSUME f \in P PROVE to = "stopped"
      <4>1. pc[f] = "join" /\ P \cap Children(At(mem, f)) # {}
        BY <1>2, <3>1, <3>2
      <4>2. PICK c \in P : c \in Children(At(mem, f))
        BY <4>1
      <4>3. pc[c] = "stopped"
        BY <1>2, <1>3, <3>1, <4>1, <4>2 DEF Resting
      <4>. QED BY <1>3, <4>1, <4>2, <4>3
    <3>3. \A g \in P : \/ pc'[g] = "stopped"
                       \/ pc'[g] = "join" /\ P \cap Children(At(mem', g)) # {}
      BY <1>1, <3>1, <3>2
    <3>. QED BY <3>1, <3>3
  <2>2. CASE mem.status \notin Halted
    <3>1. to = "stopped"
      BY <2>2 DEF Advances
    <3>2. PICK P \in SUBSET Frame : Path(mem, f, P) /\ \A g \in P \ {f} : pc[g] = "join"
      BY DEF CallTree, CallersWait
    <3>3. \A g \in P : \/ pc'[g] = "stopped"
                       \/ pc'[g] = "join" /\ P \cap Children(At(mem', g)) # {}
      BY <1>1, <3>1, <3>2 DEF Path
    <3>. QED BY <3>2, <3>3 DEF Path
  <2>. QED BY <2>1, <2>2
<1>. QED BY <1>4, <1>5, <1>6 DEF CallTree

LEMMA SpawnTree ==
    ASSUME IInv, CallTree, NEW f \in Frame, Spawn(f)
    PROVE  CallTree'
<1>. DEFINE kids == Children(At(mem, f))
<1>1. /\ InSegment(f) /\ host = "up" /\ Local(mem, f, "spawn") /\ WellFormed(mem)
      /\ pc[f] = "spawn" /\ mem.frames[f].phase = "Active"
  BY Polled DEF Spawn, InSegment, Local
<1>2. /\ mem' = mem /\ host' = host /\ pc'[f] = "join"
      /\ \A g \in Frame \ {f} : pc'[g] = IF g \in kids THEN "enter" ELSE pc[g]
  BY DEF Spawn
<1>. HIDE DEF kids
\* The children of this invocation have not been polled before.
<1>3. ASSUME NEW c \in kids PROVE c # f /\ pc[c] = "off"
  <2>1. c \in Frame \ {Root} /\ Parent[c].frame = f
        /\ Parent[c].invocation = mem.frames[f].steps_used
    BY ChildFacts DEF kids
  <2>2. mem.frames[f].steps_used \in Nat
    BY <1>1 DEF WellFormed, RunRecord, FrameRecord
  <2>3. ~PastStart(mem, f, mem.frames[f].steps_used, "spawn")
    BY <1>1, <2>2 DEF PastStart, Outcome
  <2>4. pc[c] = "off"
    BY <1>1, <2>1, <2>3 DEF CallTree, PolledOnce
  <2>. QED BY <1>1, <2>4
<1>4. \A g \in Frame \ {f} : pc[g] # "off" => pc'[g] = pc[g]
  BY <1>2, <1>3
<1>5. \A g \in Frame : pc[g] = "join" => pc'[g] = "join"
  BY <1>2, <1>4
<1>6. ASSUME NEW c \in Frame \ {Root}, pc'[c] \notin Resting
      PROVE  pc'[Parent[c].frame] = "join" /\ c \in Children(At(mem', Parent[c].frame))
  <2>1. CASE c \in kids
    BY <1>2, <2>1, ChildFacts DEF kids
  <2>2. CASE c \notin kids
    <3>1. pc[c] \notin Resting
      BY <1>1, <1>2, <1>6, <2>2 DEF Resting, Outcome
    <3>. QED BY <1>2, <1>5, <3>1, ParentFrame DEF CallTree, CallersWait
  <2>. QED BY <2>1, <2>2
<1>7. ASSUME NEW h \in Frame, pc'[h] \notin Resting
      PROVE  \E P \in SUBSET Frame : Path(mem', h, P) /\ \A g \in P \ {h} : pc'[g] = "join"
  <2>1. CASE h \in kids
    <3>1. pc[f] \notin Resting
      BY <1>1 DEF Resting, Outcome
    <3>2. PICK P \in SUBSET Frame : Path(mem, f, P) /\ \A g \in P \ {f} : pc[g] = "join"
      BY <3>1 DEF CallTree, CallersWait
    <3>. DEFINE Q == P \cup {f, h}
    <3>3. Q \in SUBSET Frame /\ Root \in Q
      BY <3>2 DEF Path
    <3>4. ASSUME NEW g \in Q \ {h}
          PROVE  pc'[g] = "join" /\ Q \cap Children(At(mem', g)) # {}
      <4>1. CASE g = f
        BY <1>2, <2>1, <4>1 DEF kids
      <4>2. CASE g # f
        BY <1>2, <1>5, <3>2, <3>4, <4>2 DEF Path
      <4>. QED BY <4>1, <4>2
    <3>. HIDE DEF Q
    <3>. QED BY <3>3, <3>4 DEF Path
  <2>2. CASE h \notin kids
    <3>1. pc[h] \notin Resting
      BY <1>1, <1>2, <1>7, <2>2 DEF Resting, Outcome
    <3>2. PICK P \in SUBSET Frame : Path(mem, h, P) /\ \A g \in P \ {h} : pc[g] = "join"
      BY <3>1 DEF CallTree, CallersWait
    <3>. QED BY <1>2, <1>5, <3>2 DEF Path
  <2>. QED BY <2>1, <2>2
<1>8. CallersWait'
  BY <1>6, <1>7 DEF CallersWait
<1>9. PolledOnce'
  <2>1. ASSUME NEW c \in Frame \ {Root}, pc'[c] # "off", NEW p, p = Parent[c].frame,
               NEW i, i = Parent[c].invocation
        PROVE  PastStart(mem', p, i, pc'[p])
    <3>1. CASE c \in kids
      <4>1. p = f /\ i = mem.frames[f].steps_used /\ Opened(mem, f)
        BY <1>1, <2>1, <3>1, ChildFacts DEF kids, Opened
      <4>. QED BY <1>2, <4>1 DEF PastStart, Opened
    <3>2. CASE c \notin kids
      <4>1. pc[c] # "off" /\ p \in Frame
        BY <1>1, <1>2, <2>1, <3>2, ParentFrame
      <4>2. PastStart(mem, p, i, pc[p])
        BY <2>1, <4>1 DEF CallTree, PolledOnce
      <4>3. CASE p = f
        BY <1>1, <1>2, <4>2, <4>3 DEF PastStart, Opened
      <4>4. CASE p # f
        <5>1. pc'[p] = pc[p] \/ pc[p] = "off"
          BY <1>4, <4>1, <4>4
        <5>. QED BY <1>2, <4>2, <5>1 DEF PastStart, Opened, Outcome
      <4>. QED BY <4>3, <4>4
    <3>. QED BY <3>1, <3>2
  <2>. QED BY <2>1 DEF PolledOnce
<1>10. HaltSpreads'
  <2>1. ASSUME NEW g \in Frame, pc[g] = "stopped" PROVE pc'[g] = "stopped"
    BY <1>1, <1>4, <2>1
  <2>. QED BY <1>1, <1>2, <1>5, <2>1 DEF CallTree, HaltSpreads
<1>. QED BY <1>8, <1>9, <1>10 DEF CallTree

\* No frame but the root is polled while the lease is free or has just been taken.
LEMMA LeaseTree ==
    ASSUME pc' = [f \in Frame |-> IF f = Root THEN pc'[Root] ELSE "off"],
           mem'.status \notin Halted \/ host' = "down"
    PROVE  CallTree'
<1>1. \A f \in Frame : f # Root => pc'[f] = "off"
  OBVIOUS
<1>2. CallersWait'
  <2>1. \A f \in Frame : Path(mem', Root, {Root}) /\ {Root} \in SUBSET Frame
    BY RootFrame DEF Path
  <2>. QED BY <1>1, <2>1 DEF CallersWait, Resting
<1>3. PolledOnce' /\ HaltSpreads'
  BY <1>1 DEF PolledOnce, HaltSpreads
<1>. QED BY <1>2, <1>3 DEF CallTree

-----------------------------------------------------------------------------
(* The record's edits leave it consistent.                                 *)

\* An edit that moves no cursor.
LEMMA CursorsKept ==
    ASSUME NEW m, NEW r, r.frames = m.frames, GroupsOK(m), PathsOK(m)
    PROVE  GroupsOK(r) /\ PathsOK(r)
<1>1. \A f : At(r, f) = At(m, f) /\ (Opened(r, f) <=> Opened(m, f)) /\ (Done(r, f) <=> Done(m, f))
  BY DEF At, Opened, Done
<1>2. \A c : CalledNow(r, c) <=> CalledNow(m, c)
  BY <1>1 DEF CalledNow
<1>3. \A f, P : Path(r, f, P) <=> Path(m, f, P)
  BY <1>1 DEF Path
<1>. QED BY <1>1, <1>2, <1>3 DEF GroupsOK, PathsOK

LEMMA SameConsistent ==
    ASSUME NEW m, NEW r, Consistent(m), r.frames = m.frames,
           \A a \in ApprovalId : r.approvals[a] = m.approvals[a],
           \A a \in ApprovalId : a \in m.applied => a \in r.applied,
           \A t \in TaskId : r.tasks[t].status = m.tasks[t].status
    PROVE  Consistent(r)
<1>1. ApprovalsOK(r) /\ TasksOK(r)
  BY DEF Consistent, ApprovalsOK, TasksOK, At
<1>. QED BY <1>1, CursorsKept DEF Consistent

LEMMA SavedConsistent ==
    ASSUME NEW r \in RunRecord, Consistent(r)
    PROVE  Consistent(Saved(r))
BY SavedFacts, SameConsistent

LEMMA StatusConsistent ==
    ASSUME NEW r \in RunRecord, Consistent(r), NEW s \in RunStatus
    PROVE  Consistent(WithStatus(r, s))
BY StatusFacts, SameConsistent

LEMMA RejectedConsistent ==
    ASSUME NEW r \in RunRecord, Consistent(r), NEW a
    PROVE  Consistent([WithStatus(r, "Rejected") EXCEPT !.applied = @ \cup {a}])
<1>. DEFINE x == [WithStatus(r, "Rejected") EXCEPT !.applied = @ \cup {a}]
<1>1. /\ x.frames = r.frames /\ x.approvals = r.approvals /\ x.tasks = r.tasks
      /\ x.applied = r.applied \cup {a}
  BY DEF WithStatus, RunRecord
<1>. HIDE DEF x
<1>2. Consistent(x)
  BY <1>1, SameConsistent
<1>. QED BY <1>2 DEF x

\* An open frame that is asked for an approval, or works on a task, stands at it.
LEMMA AskedConsistent ==
    ASSUME NEW m, WellFormed(m), Consistent(m), NEW f \in Frame,
           m.frames[f].phase = "Active"
    PROVE  Consistent([m EXCEPT !.approvals[At(m, f)].decision = "Awaited"])
<1>. DEFINE a == At(m, f)
            r == [m EXCEPT !.approvals[a].decision = "Awaited"]
<1>1. m \in RunRecord /\ a[1] = f
  BY DEF WellFormed, At
<1>2. /\ r.frames = m.frames /\ r.tasks = m.tasks /\ r.applied = m.applied
      /\ \A b \in ApprovalId \ {a} : r.approvals[b] = m.approvals[b]
  BY <1>1 DEF RunRecord
<1>. HIDE DEF r
<1>3. ApprovalsOK(r)
  <2>1. ASSUME NEW b \in ApprovalId, r.approvals[b].decision # "Absent"
        PROVE  \/ r.frames[b[1]].phase = "Active" /\ At(r, b[1]) = b
               \/ b \in r.applied /\ r.approvals[b].decision = "Approve"
    <3>1. CASE b = a
      BY <1>1, <1>2, <3>1 DEF At
    <3>2. CASE b # a
      BY <1>2, <2>1, <3>2 DEF Consistent, ApprovalsOK, At
    <3>. QED BY <3>1, <3>2
  <2>. QED BY <2>1 DEF ApprovalsOK
<1>4. TasksOK(r)
  BY <1>2 DEF Consistent, TasksOK, At
<1>5. Consistent(r)
  BY <1>2, <1>3, <1>4, CursorsKept DEF Consistent
<1>. QED BY <1>5 DEF r

LEMMA TaskConsistent ==
    ASSUME NEW m, WellFormed(m), Consistent(m), NEW f \in Frame,
           m.frames[f].phase = "Active", NEW s \in TaskStatus
    PROVE  Consistent([m EXCEPT !.tasks[At(m, f)].status = s])
<1>. DEFINE u == At(m, f)
            r == [m EXCEPT !.tasks[u].status = s]
<1>1. m \in RunRecord /\ u[1] = f
  BY DEF WellFormed, At
<1>2. /\ r.frames = m.frames /\ r.approvals = m.approvals /\ r.applied = m.applied
      /\ \A t \in TaskId \ {u} : r.tasks[t] = m.tasks[t]
  BY <1>1 DEF RunRecord
<1>. HIDE DEF r
<1>3. ApprovalsOK(r)
  BY <1>2 DEF Consistent, ApprovalsOK, At
<1>4. TasksOK(r)
  <2>1. ASSUME NEW t \in TaskId, r.tasks[t].status \in {"Planned", "Started", "Unknown"}
        PROVE  r.frames[t[1]].phase = "Active" /\ At(r, t[1]) = t
    <3>1. CASE t = u
      BY <1>1, <1>2, <3>1 DEF At
    <3>2. CASE t # u
      BY <1>2, <2>1, <3>2 DEF Consistent, TasksOK, At
    <3>. QED BY <3>1, <3>2
  <2>. QED BY <2>1 DEF TasksOK
<1>5. Consistent(r)
  BY <1>2, <1>3, <1>4, CursorsKept DEF Consistent
<1>. QED BY <1>5 DEF r

LEMMA DecidedConsistent ==
    ASSUME NEW m, WellFormed(m), Consistent(m), NEW a \in ApprovalId,
           m.approvals[a].decision = "Awaited", NEW q, NEW d
    PROVE  Consistent(Decided(m, a, q, d))
<1>. DEFINE r == Decided(m, a, q, d)
<1>1. /\ r.frames = m.frames /\ r.tasks = m.tasks /\ r.applied = m.applied
      /\ \A b \in ApprovalId \ {a} : r.approvals[b] = m.approvals[b]
  BY DEF WellFormed, RunRecord, Decided
<1>2. m.frames[a[1]].phase = "Active" /\ At(m, a[1]) = a
  BY DEF Consistent, ApprovalsOK
<1>. HIDE DEF r
<1>3. ApprovalsOK(r)
  <2>1. ASSUME NEW b \in ApprovalId, r.approvals[b].decision # "Absent"
        PROVE  \/ r.frames[b[1]].phase = "Active" /\ At(r, b[1]) = b
               \/ b \in r.applied /\ r.approvals[b].decision = "Approve"
    <3>1. CASE b = a
      BY <1>1, <1>2, <3>1 DEF At
    <3>2. CASE b # a
      BY <1>1, <2>1, <3>2 DEF Consistent, ApprovalsOK, At
    <3>. QED BY <3>1, <3>2
  <2>. QED BY <2>1 DEF ApprovalsOK
<1>4. TasksOK(r)
  BY <1>1 DEF Consistent, TasksOK, At
<1>5. Consistent(r)
  BY <1>1, <1>3, <1>4, CursorsKept DEF Consistent
<1>. QED BY <1>5 DEF r

LEMMA ResolvedConsistent ==
    ASSUME NEW m, WellFormed(m), Consistent(m), NEW u \in TaskId,
           m.tasks[u].status \in Reconcilable, NEW q, NEW s
    PROVE  Consistent(Resolved(m, u, q, s))
<1>. DEFINE r == Resolved(m, u, q, s)
<1>1. /\ r.frames = m.frames /\ r.approvals = m.approvals /\ r.applied = m.applied
      /\ \A t \in TaskId \ {u} : r.tasks[t] = m.tasks[t]
  BY DEF WellFormed, RunRecord, Resolved
<1>2. m.frames[u[1]].phase = "Active" /\ At(m, u[1]) = u
  BY DEF Consistent, TasksOK, Reconcilable
<1>. HIDE DEF r
<1>3. ApprovalsOK(r)
  BY <1>1 DEF Consistent, ApprovalsOK, At
<1>4. TasksOK(r)
  <2>1. ASSUME NEW t \in TaskId, r.tasks[t].status \in {"Planned", "Started", "Unknown"}
        PROVE  r.frames[t[1]].phase = "Active" /\ At(r, t[1]) = t
    <3>1. CASE t = u
      BY <1>1, <1>2, <3>1 DEF At
    <3>2. CASE t # u
      BY <1>1, <2>1, <3>2 DEF Consistent, TasksOK, At
    <3>. QED BY <3>1, <3>2
  <2>. QED BY <2>1 DEF TasksOK
<1>5. Consistent(r)
  BY <1>1, <1>3, <1>4, CursorsKept DEF Consistent
<1>. QED BY <1>5 DEF r

\* A frame is opened under callers that wait for it.
LEMMA OpenedConsistent ==
    ASSUME NEW m, WellFormed(m), Consistent(m), NEW f \in Frame, ~Opened(m, f),
           f # Root => CalledNow(m, f),
           NEW P \in SUBSET Frame, Path(m, f, P),
           \A g \in P \ {f} : m.frames[g].phase = "Active"
    PROVE  Consistent([m EXCEPT !.frames[f] = NewFrame(f)])
<1>. DEFINE r == [m EXCEPT !.frames[f] = NewFrame(f)]
<1>1. /\ r.approvals = m.approvals /\ r.applied = m.applied /\ r.tasks = m.tasks
      /\ \A g \in Frame \ {f} : r.frames[g] = m.frames[g]
  BY DEF WellFormed, RunRecord
<1>. HIDE DEF r
<1>2. ASSUME NEW g \in Frame, m.frames[g].phase = "Active"
      PROVE  g # f /\ r.frames[g] = m.frames[g] /\ At(r, g) = At(m, g)
  BY <1>1, <1>2 DEF Opened, At
<1>3. \A s \in Frame : Done(m, s) => Done(r, s)
  BY <1>1 DEF Done, Opened
<1>4. \A c \in Frame \ {Root} : CalledNow(m, c) => CalledNow(r, c)
  BY <1>2, ParentFrame DEF CalledNow
<1>5. GroupsOK(r)
  <2>1. ASSUME NEW c \in Frame \ {Root}, Opened(r, c)
        PROVE  CalledNow(r, c) \/ \A s \in Siblings(c) : Done(r, s)
    <3>1. CASE c = f
      BY <1>4, <3>1
    <3>2. CASE c # f
      BY <1>1, <1>3, <1>4, <2>1, <3>2 DEF Consistent, GroupsOK, Opened, Siblings
    <3>. QED BY <3>1, <3>2
  <2>. QED BY <2>1 DEF GroupsOK
<1>6. PathsOK(r)
  <2>1. ASSUME NEW h \in Frame, Opened(r, h), ~Done(r, h)
        PROVE  \E Q \in SUBSET Frame :
                  Path(r, h, Q) /\ \A g \in Q \ {h} : r.frames[g].phase = "Active"
    <3>1. CASE h = f
      <4>1. Path(r, h, P) /\ \A g \in P \ {h} : r.frames[g].phase = "Active"
        BY <1>2, <3>1 DEF Path
      <4>. QED BY <4>1
    <3>2. CASE h # f
      <4>1. Opened(m, h) /\ ~Done(m, h)
        BY <1>1, <1>3, <2>1, <3>2 DEF Opened
      <4>2. PICK Q \in SUBSET Frame :
               Path(m, h, Q) /\ \A g \in Q \ {h} : m.frames[g].phase = "Active"
        BY <4>1 DEF Consistent, PathsOK
      <4>3. Path(r, h, Q) /\ \A g \in Q \ {h} : r.frames[g].phase = "Active"
        BY <1>2, <4>2 DEF Path
      <4>. QED BY <4>3
    <3>. QED BY <3>1, <3>2
  <2>. QED BY <2>1 DEF PathsOK
<1>7. ApprovalsOK(r) /\ TasksOK(r)
  BY <1>1, <1>2, ApprovalFrame, TaskFrame DEF Consistent, ApprovalsOK, TasksOK
<1>8. Consistent(r)
  BY <1>5, <1>6, <1>7 DEF Consistent
<1>. QED BY <1>8 DEF r

\* A new turn of an idle frame leaves every other cursor where it is.
LEMMA ChargedConsistent ==
    ASSUME NEW m, WellFormed(m), Consistent(m), NEW f \in Frame, Opened(m, f)
    PROVE  Consistent(Charged(m, f))
<1>. DEFINE r == Charged(m, f)
<1>0. m \in RunRecord /\ m.frames[f] \in FrameRecord
  BY DEF WellFormed, RunRecord
<1>1. CASE m.frames[f].phase = "Active"
  BY <1>1 DEF Charged
<1>2. CASE m.frames[f].phase # "Active"
  <2>1. /\ r.approvals = m.approvals /\ r.applied = m.applied /\ r.tasks = m.tasks
        /\ \A g \in Frame \ {f} : r.frames[g] = m.frames[g]
        /\ r.frames[f] = Begun(m.frames[f])
    BY <1>0, <1>2 DEF Charged, RunRecord
  <2>2. r.frames[f].phase = "Active" /\ r.frames[f].next_node = m.frames[f].next_node
    BY <1>0, <2>1 DEF Begun, FrameRecord
  <2>. HIDE DEF r
  <2>3. ASSUME NEW g \in Frame, m.frames[g].phase = "Active"
        PROVE  g # f /\ r.frames[g] = m.frames[g] /\ At(r, g) = At(m, g)
    BY <1>2, <2>1, <2>3 DEF At
  <2>4. \A s \in Frame : (Done(m, s) <=> Done(r, s)) /\ (Opened(m, s) <=> Opened(r, s))
    BY <2>1, <2>2 DEF Done, Opened
  <2>5. \A c \in Frame \ {Root} : CalledNow(m, c) => CalledNow(r, c)
    BY <2>3, ParentFrame DEF CalledNow
  <2>6. GroupsOK(r)
    BY <2>4, <2>5 DEF Consistent, GroupsOK, Siblings
  <2>7. PathsOK(r)
    <3>1. ASSUME NEW h \in Frame, Opened(r, h), ~Done(r, h)
          PROVE  \E Q \in SUBSET Frame :
                    Path(r, h, Q) /\ \A g \in Q \ {h} : r.frames[g].phase = "Active"
      <4>1. PICK Q \in SUBSET Frame :
               Path(m, h, Q) /\ \A g \in Q \ {h} : m.frames[g].phase = "Active"
        BY <2>4, <3>1 DEF Consistent, PathsOK
      <4>2. Path(r, h, Q) /\ \A g \in Q \ {h} : r.frames[g].phase = "Active"
        BY <2>3, <4>1 DEF Path
      <4>. QED BY <4>2
    <3>. QED BY <3>1 DEF PathsOK
  <2>8. ApprovalsOK(r) /\ TasksOK(r)
    BY <2>1, <2>3, ApprovalFrame, TaskFrame DEF Consistent, ApprovalsOK, TasksOK
  <2>9. Consistent(r)
    BY <2>6, <2>7, <2>8 DEF Consistent
  <2>. QED BY <2>9 DEF r
<1>. QED BY <1>1, <1>2 DEF r

\* What a frame commits is settled: its children have finished, its approval is
\* approved and applied with it, its task has its result.
LEMMA CommittedConsistent ==
    ASSUME NEW m, WellFormed(m), Consistent(m), NEW f \in Frame,
           NEW p \in {"finish", "commit"}, Local(m, f, p), Held(m, f, p), NEW next
    PROVE  Consistent(Committed(m, f, next))
<1>. DEFINE r == Committed(m, f, next)
            x == At(m, f)
<1>1. /\ m \in RunRecord /\ m.frames[f] \in FrameRecord
      /\ m.frames[f].phase = "Active" /\ m.frames[f].next_node # End
  BY DEF WellFormed, RunRecord, Local, CursorOK
<1>2. /\ r.approvals = m.approvals /\ r.tasks = m.tasks
      /\ r.applied = m.applied \cup (Asked(m) \cap {x})
      /\ \A g \in Frame \ {f} : r.frames[g] = m.frames[g]
      /\ r.frames[f] = [m.frames[f] EXCEPT !.next_node = next, !.phase = "Idle"]
  BY <1>1 DEF RunRecord, Committed
<1>3. r.frames[f].phase = "Idle"
  BY <1>1, <1>2 DEF FrameRecord
<1>. HIDE DEF r
<1>4. /\ \A g \in Frame \ {f} : At(r, g) = At(m, g)
      /\ \A s \in Frame : Opened(r, s) <=> Opened(m, s)
      /\ \A s \in Frame : Done(m, s) => s # f /\ Done(r, s)
  BY <1>1, <1>2, <1>3 DEF At, Opened, Done
\* A frame that f calls now has finished.
<1>5. ASSUME NEW c \in Frame \ {Root}, CalledNow(m, c), Parent[c].frame = f
      PROVE  \A s \in Siblings(c) : Done(m, s)
  <2>1. c \in Children(x) /\ Kind[m.frames[f].next_node] = "group"
    BY <1>5 DEF CalledNow
  <2>2. \A s \in Children(x) : Done(m, s)
    BY <2>1 DEF Local, Held
  <2>. QED BY <2>1, <2>2, ChildFacts
<1>6. GroupsOK(r)
  <2>1. ASSUME NEW c \in Frame \ {Root}, Opened(r, c)
        PROVE  CalledNow(r, c) \/ \A s \in Siblings(c) : Done(r, s)
    <3>1. CalledNow(m, c) \/ \A s \in Siblings(c) : Done(m, s)
      BY <1>4, <2>1 DEF Consistent, GroupsOK
    <3>2. CASE \A s \in Siblings(c) : Done(m, s)
      BY <1>4, <3>2 DEF Siblings
    <3>3. CASE CalledNow(m, c)
      <4>1. CASE Parent[c].frame = f
        BY <1>4, <1>5, <3>3, <4>1 DEF Siblings
      <4>2. CASE Parent[c].frame # f
        BY <1>2, <1>4, <3>3, <4>2, ParentFrame DEF CalledNow
      <4>. QED BY <4>1, <4>2
    <3>. QED BY <3>1, <3>2, <3>3
  <2>. QED BY <2>1 DEF GroupsOK
<1>7. PathsOK(r)
  <2>1. ASSUME NEW h \in Frame, Opened(r, h), ~Done(r, h)
        PROVE  \E Q \in SUBSET Frame :
                  Path(r, h, Q) /\ \A g \in Q \ {h} : r.frames[g].phase = "Active"
    <3>1. Opened(m, h) /\ ~Done(m, h)
      BY <1>4, <2>1
    <3>2. PICK Q \in SUBSET Frame :
             Path(m, h, Q) /\ \A g \in Q \ {h} : m.frames[g].phase = "Active"
      BY <3>1 DEF Consistent, PathsOK
    <3>3. ASSUME NEW g \in Q \ {h} PROVE g # f
      <4>. SUFFICES ASSUME g = f PROVE FALSE
        OBVIOUS
      <4>1. PICK d \in Q : d \in Children(x)
        BY <3>2, <3>3 DEF Path
      <4>2. d \in Frame \ {Root} /\ d \in Siblings(d) /\ Parent[d].frame = f
        BY <4>1, ChildFacts
      <4>3. CASE d = h
        BY <1>5, <3>1, <4>2, <4>3 DEF Consistent, GroupsOK
      <4>4. CASE d # h
        <5>1. m.frames[d].phase = "Active" /\ m.frames[d].next_node # End
          BY <3>2, <4>2, <4>4 DEF WellFormed, CursorOK
        <5>2. Opened(m, d) /\ ~Done(m, d)
          BY <5>1 DEF Opened, Done
        <5>. QED BY <1>5, <4>2, <5>2 DEF Consistent, GroupsOK
      <4>. QED BY <4>3, <4>4
    <3>4. Path(r, h, Q) /\ \A g \in Q \ {h} : r.frames[g].phase = "Active"
      BY <1>2, <1>4, <3>2, <3>3 DEF Path
    <3>. QED BY <3>4
  <2>. QED BY <2>1 DEF PathsOK
<1>8. ApprovalsOK(r)
  <2>1. ASSUME NEW a \in ApprovalId, r.approvals[a].decision # "Absent"
        PROVE  \/ r.frames[a[1]].phase = "Active" /\ At(r, a[1]) = a
               \/ a \in r.applied /\ r.approvals[a].decision = "Approve"
    <3>1. \/ m.frames[a[1]].phase = "Active" /\ At(m, a[1]) = a
          \/ a \in m.applied /\ m.approvals[a].decision = "Approve"
      BY <1>2, <2>1 DEF Consistent, ApprovalsOK
    <3>2. CASE a = x
      <4>1. Kind[m.frames[f].next_node] = "barrier"
        BY <1>1, <3>2, AtInvocation
      <4>2. m.approvals[a].decision = "Approve"
        BY <3>2, <4>1 DEF Local
      <4>. QED BY <1>2, <2>1, <3>2, <4>2 DEF Asked
    <3>3. CASE a # x
      BY <1>2, <1>4, <3>1, <3>3, ApprovalFrame
    <3>. QED BY <3>2, <3>3
  <2>. QED BY <2>1 DEF ApprovalsOK
<1>9. TasksOK(r)
  <2>1. ASSUME NEW t \in TaskId, r.tasks[t].status \in {"Planned", "Started", "Unknown"}
        PROVE  r.frames[t[1]].phase = "Active" /\ At(r, t[1]) = t
    <3>1. m.frames[t[1]].phase = "Active" /\ At(m, t[1]) = t
      BY <1>2, <2>1 DEF Consistent, TasksOK
    <3>2. CASE t = x
      <4>1. Kind[m.frames[f].next_node] = "task"
        BY <1>1, <3>2, AtInvocation
      <4>. QED BY <1>2, <2>1, <3>2, <4>1 DEF Local, Held
    <3>3. CASE t # x
      BY <1>2, <1>4, <3>1, <3>3, TaskFrame
    <3>. QED BY <3>2, <3>3
  <2>. QED BY <2>1 DEF TasksOK
<1>10. Consistent(r)
  BY <1>6, <1>7, <1>8, <1>9 DEF Consistent
<1>. QED BY <1>10 DEF r

LEMMA RootConsistent == Consistent(NoRecord) /\ Consistent(RootRecord)
<1>1. /\ RootRecord.approvals = NoRecord.approvals /\ RootRecord.tasks = NoRecord.tasks
      /\ \A a \in ApprovalId : NoRecord.approvals[a].decision = "Absent"
      /\ \A t \in TaskId : NoRecord.tasks[t].status = "Absent"
      /\ \A f \in Frame : NoRecord.frames[f].phase = "Absent"
      /\ \A f \in Frame \ {Root} : RootRecord.frames[f].phase = "Absent"
  BY RootRecordWellFormed DEF NoRecord, RootRecord, NoTask
<1>2. \A f \in Frame : ~Opened(NoRecord, f) /\ (f # Root => ~Opened(RootRecord, f))
  BY <1>1 DEF Opened
<1>3. ApprovalsOK(NoRecord) /\ ApprovalsOK(RootRecord) /\ TasksOK(NoRecord)
      /\ TasksOK(RootRecord)
  BY <1>1 DEF ApprovalsOK, TasksOK
<1>4. GroupsOK(NoRecord) /\ GroupsOK(RootRecord) /\ PathsOK(NoRecord)
  BY <1>2 DEF GroupsOK, PathsOK
<1>5. PathsOK(RootRecord)
  <2>1. Path(RootRecord, Root, {Root}) /\ {Root} \in SUBSET Frame
    BY RootFrame DEF Path
  <2>. QED BY <1>2, <2>1 DEF PathsOK
<1>. QED BY <1>3, <1>4, <1>5 DEF Consistent

-----------------------------------------------------------------------------
(* The steps, again: RunInv is kept, and a halted run stays halted.         *)

\* What a save of f may do to tasks, and to a halted run.
TasksKept(m, r) ==
    \A t \in TaskId :
       /\ r.tasks[t].resolutions = m.tasks[t].resolutions
       /\ r.tasks[t].status \in Unstarted => m.tasks[t].status \in Unstarted
OthersKept(m, r, f) == \A t \in TaskId : t[1] # f => r.tasks[t] = m.tasks[t]
Frozen(m, r) ==
    m.status \in Halted =>
       r.status \in {m.status, "Cancelled"} /\ r.steps_used = m.steps_used
Spares(m, r, f) == TasksKept(m, r) /\ OthersKept(m, r, f) /\ Frozen(m, r)

LEMMA HeldOfOther ==
    ASSUME NEW m, WellFormed(m), NEW r, NEW f, NEW g \in Frame \ {f},
           r.frames[g] = m.frames[g], OthersKept(m, r, f),
           NEW p, p \notin Midway, Local(m, g, p), Held(m, g, p)
    PROVE  Held(r, g, p)
<1>1. p \notin {"commit", "start"}
  BY DEF Midway
<1>2. At(r, g) = At(m, g)
  BY DEF At
<1>3. ASSUME p = "finish", Kind[r.frames[g].next_node] = "task"
      PROVE  r.tasks[At(r, g)].status = "Completed"
  <2>1. At(m, g) \in TaskId /\ At(m, g)[1] = g
    BY <1>3, AtInvocation DEF Local
  <2>. QED BY <1>2, <1>3, <2>1 DEF Held, OthersKept
<1>. QED BY <1>1, <1>3 DEF Held

\* The counters of calls while nothing is called.
LEMMA CallsKept ==
    ASSUME IInv', CallsOK, calls' = calls, TasksKept(disk, disk'),
           \A f \in Frame : pc'[f] = "send" =>
              /\ mem'.frames[f] = mem.frames[f]
              /\ \/ pc[f] = "send"
                 \/ mem.frames[f].next_node \in Manual =>
                       calls[At(mem, f)] <= Cardinality(Retries(At(mem, f)))
    PROVE  CallsOK'
<1>1. \A t \in TaskId : Retries(t)' = Retries(t)
  BY DEF TasksKept, Retries
<1>2. \A t \in TaskId : t[2] \in Manual =>
         /\ calls'[t] <= 1 + Cardinality(Retries(t)')
         /\ disk'.tasks[t].status \in Unstarted => calls'[t] <= Cardinality(Retries(t)')
  BY <1>1 DEF CallsOK, TasksKept
<1>3. ASSUME NEW f \in Frame, pc'[f] = "send", mem'.frames[f].next_node \in Manual
      PROVE  calls'[At(mem', f)] <= Cardinality(Retries(At(mem, f))')
  <2>1. At(mem', f) = At(mem, f) /\ mem'.frames[f] = mem.frames[f]
    BY <1>3 DEF At
  <2>2. At(mem', f) \in TaskId
    <3>1. Local(mem', f, "send") /\ WellFormed(mem')
      BY <1>3 DEF IInv
    <3>. QED BY <3>1, AtInvocation DEF Local
  <2>3. calls[At(mem, f)] <= Cardinality(Retries(At(mem, f)))
    BY <1>3, <2>1 DEF CallsOK
  <2>. QED BY <1>1, <2>1, <2>2, <2>3 DEF Retries
<1>. QED BY <1>2, <1>3 DEF CallsOK

LEMMA SilentRun ==
    ASSUME IInv, IInv', RunInv, NEW f \in Frame, InSegment(f), pc[f] \notin Resting,
           NEW to \in Control \ {"off", "send"}, Silent(f, to), Held(mem, f, to),
           pc[f] \in {"join", "commit"} => to \in {"commit"} \cup Outcome,
           pc[f] = "join" => Joined(f, to)
    PROVE  RunInv' /\ FrozenStep
<1>1. /\ pc' = [pc EXCEPT ![f] = to]
      /\ UNCHANGED <<disk, mem, host, poisoned, calls>>
  BY DEF Silent, Goto
<1>2. pc'[f] = to /\ \A g \in Frame \ {f} : pc'[g] = pc[g] /\ pc[g] \notin Midway
  BY <1>1, SegmentOthers
<1>3. Advances(mem, mem', f, pc[f], to)
  BY <1>1 DEF Advances
<1>4. CallTree'
  BY <1>1, <1>3, CallTreeStep DEF RunInv
<1>5. CallsOK'
  <2>1. TasksKept(disk, disk')
    BY <1>1 DEF TasksKept
  <2>2. \A g \in Frame : pc'[g] # "send"
    BY <1>2 DEF Midway
  <2>. QED BY <1>1, <2>1, <2>2, CallsKept DEF RunInv
<1>6. \A g \in Frame : Held(mem', g, pc'[g])
  BY <1>1, <1>2 DEF RunInv
<1>7. Consistent(disk') /\ Consistent(mem')
  BY <1>1 DEF RunInv
<1>8. FrozenStep
  BY <1>1 DEF FrozenStep
<1>. QED BY <1>4, <1>5, <1>6, <1>7, <1>8 DEF RunInv

\* FrameScope::update of a live session.
LEMMA UpdateRun ==
    ASSUME IInv, IInv', RunInv, NEW f \in Frame, InSegment(f), NEW r \in RunRecord,
           pc[f] \notin Resting \cup {"join"},
           NEW to \in Control \ {"off"}, Update(r, f, to),
           Consistent(r), Advances(mem, r, f, pc[f], to), Spares(mem, r, f),
           Held(r, f, to),
           to = "send" => pc[f] = "start" /\ r.frames = mem.frames
    PROVE  RunInv' /\ FrozenStep
<1>0. "failed" \in Control \ {"off", "send"} /\ Held(mem, f, "failed") /\ "failed" \in Outcome
  BY DEF Control, Outcome, Held
<1>1. CASE SaveRefused(f)
  <2>1. Silent(f, "failed")
    BY <1>1 DEF SaveRefused, Silent
  <2>. QED BY <1>0, <2>1, SilentRun
<1>2. CASE SaveOk(r, f, to)
  <2>1. /\ mem' = Saved(r) /\ disk' = Saved(r) /\ pc' = [pc EXCEPT ![f] = to]
        /\ UNCHANGED <<host, calls>> /\ mem = disk /\ disk.status # "Completed"
    BY <1>2 DEF SaveOk, Writable, Goto, IInv, SessionInv, InSegment
  <2>2. /\ Saved(r).status = r.status /\ Saved(r).steps_used = r.steps_used
        /\ Saved(r).frames = r.frames /\ Saved(r).tasks = r.tasks
    BY SavedFacts
  <2>3. pc'[f] = to /\ \A g \in Frame \ {f} : pc'[g] = pc[g] /\ pc[g] \notin Midway
    BY <2>1, SegmentOthers
  <2>4. Advances(mem, mem', f, pc[f], to)
    BY <2>1, <2>2 DEF Advances, Opened
  <2>5. CallTree'
    BY <2>1, <2>4, CallTreeStep DEF RunInv
  <2>6. CallsOK'
    <3>1. TasksKept(disk, disk')
      BY <2>1, <2>2 DEF Spares, TasksKept
    <3>2. ASSUME NEW g \in Frame, pc'[g] = "send", mem.frames[g].next_node \in Manual
          PROVE  g = f /\ mem'.frames[g] = mem.frames[g]
                 /\ calls[At(mem, g)] <= Cardinality(Retries(At(mem, g)))
      <4>1. g = f /\ to = "send" /\ pc[f] = "start"
        BY <2>3, <3>2 DEF Midway
      <4>2. mem.tasks[At(mem, f)].status = "Planned"
        BY <3>2, <4>1 DEF RunInv, Held
      <4>3. At(mem, f) \in TaskId /\ At(mem, f)[2] \in Manual
        BY <3>2, <4>1, Polled, AtInvocation DEF Local
      <4>. QED BY <2>1, <2>2, <4>1, <4>2, <4>3 DEF RunInv, CallsOK, Unstarted
    <3>3. \A g \in Frame : pc'[g] = "send" => mem'.frames[g] = mem.frames[g]
      BY <2>1, <2>2, <2>3 DEF Midway
    <3>. QED BY <2>1, <3>1, <3>2, <3>3, CallsKept DEF RunInv
  <2>7. ASSUME NEW g \in Frame PROVE Held(mem', g, pc'[g])
    <3>1. CASE g = f
      BY <2>1, <2>2, <2>3, <3>1 DEF Held, At, Done, Opened
    <3>2. CASE g # f
      <4>1. OthersKept(mem, mem', f) /\ mem'.frames[g] = mem.frames[g]
        BY <2>1, <2>2, <3>2 DEF Spares, OthersKept, Advances
      <4>. QED BY <2>3, <3>2, <4>1, HeldOfOther DEF IInv, RunInv
    <3>. QED BY <3>1, <3>2
  <2>8. Consistent(disk') /\ Consistent(mem')
    BY <2>1, SavedConsistent
  <2>9. FrozenStep
    BY <2>1, <2>2 DEF FrozenStep, Spares, Frozen
  <2>. QED BY <2>5, <2>6, <2>7, <2>8, <2>9 DEF RunInv
<1>3. CASE SaveFails(r, f)
  <2>1. /\ mem' = mem /\ disk' \in {disk, Saved(r)} /\ pc' = [pc EXCEPT ![f] = "failed"]
        /\ UNCHANGED <<host, calls>> /\ mem = disk /\ disk.status # "Completed"
    BY <1>3 DEF SaveFails, Writable, Goto, IInv, SessionInv, InSegment
  <2>2. /\ Saved(r).status = r.status /\ Saved(r).steps_used = r.steps_used
        /\ Saved(r).tasks = r.tasks
    BY SavedFacts
  <2>3. pc'[f] = "failed" /\ \A g \in Frame \ {f} : pc'[g] = pc[g] /\ pc[g] \notin Midway
    BY <1>0, <2>1, SegmentOthers
  <2>4. Advances(mem, mem', f, pc[f], "failed")
    BY <1>0, <2>1 DEF Advances
  <2>5. CallTree'
    BY <1>0, <2>1, <2>4, CallTreeStep DEF RunInv
  <2>6. CallsOK'
    <3>1. TasksKept(disk, disk')
      BY <2>1, <2>2 DEF Spares, TasksKept
    <3>2. \A g \in Frame : pc'[g] # "send"
      BY <2>3 DEF Midway
    <3>. QED BY <2>1, <3>1, <3>2, CallsKept DEF RunInv
  <2>7. \A g \in Frame : Held(mem', g, pc'[g])
    BY <1>0, <2>1, <2>3 DEF RunInv
  <2>8. Consistent(disk') /\ Consistent(mem')
    BY <2>1, SavedConsistent DEF RunInv
  <2>9. FrozenStep
    BY <2>1, <2>2 DEF FrozenStep, Spares, Frozen
  <2>. QED BY <2>5, <2>6, <2>7, <2>8, <2>9 DEF RunInv
<1>. QED BY <1>1, <1>2, <1>3 DEF Update

LEMMA StatusRun ==
    ASSUME IInv, IInv', RunInv, NEW f \in Frame, InSegment(f),
           pc[f] \notin Resting \cup {"join", "commit"},
           NEW s \in RunStatus, s \in Halted \/ mem.status \notin Halted,
           mem.status \in Halted => s = "Cancelled",
           NEW to \in Outcome \cup {"enter"}, s \in Halted => to = "stopped",
           Update(WithStatus(mem, s), f, to)
    PROVE  RunInv' /\ FrozenStep
<1>. DEFINE r == WithStatus(mem, s)
<1>1. mem \in RunRecord /\ Consistent(mem) /\ r \in RunRecord /\ Consistent(r)
  BY Polled, StatusType, StatusConsistent DEF RunInv
<1>2. /\ r.status = s /\ r.steps_used = mem.steps_used /\ r.frames = mem.frames
      /\ r.tasks = mem.tasks
  BY <1>1, StatusFacts
<1>3. Update(r, f, to)
  OBVIOUS
<1>. HIDE DEF r
<1>4. Advances(mem, r, f, pc[f], to)
  BY <1>2 DEF Advances, Opened
<1>5. Spares(mem, r, f)
  BY <1>2 DEF Spares, TasksKept, OthersKept, Frozen
<1>6. Held(r, f, to) /\ to \in Control \ {"off"} /\ to # "send"
  BY DEF Held, Control, Outcome
<1>. QED BY <1>1, <1>3, <1>4, <1>5, <1>6, UpdateRun

LEMMA SilentEnd ==
    ASSUME IInv, IInv', RunInv, NEW f \in Frame, InSegment(f),
           pc[f] \notin Resting \cup {"join"}, NEW to \in Outcome, Silent(f, to)
    PROVE  RunInv' /\ FrozenStep
BY SilentRun DEF Held, Control, Outcome

LEMMA LaunchRun == ASSUME IInv, IInv', RunInv, Launch PROVE RunInv' /\ FrozenStep
<1>1. /\ pc[Root] = "launch" /\ InSegment(Root) /\ mem.status \in Live
      /\ Update(WithStatus(mem, "Running"), Root, "enter")
  BY RootFrame, Polled DEF Launch, Local
<1>2. "launch" \notin Resting \cup {"join", "commit"}
  BY DEF Resting, Outcome
<1>. QED BY <1>1, <1>2, RootFrame, StatusRun DEF RunStatus, Live, Halted

LEMMA EnterRun ==
    ASSUME IInv, IInv', RunInv, NEW f \in Frame, Enter(f)
    PROVE  RunInv' /\ FrozenStep
<1>1. /\ InSegment(f) /\ WellFormed(mem) /\ mem \in RunRecord /\ Consistent(mem)
      /\ pc[f] = "enter" /\ "enter" \notin Resting \cup {"join", "commit"}
  BY Polled DEF Enter, RunInv, Resting, Outcome
<1>2. CASE mem.frames[f].phase # "Absent"
  <2>. DEFINE to == IF mem.frames[f].next_node = End THEN "ok" ELSE "top"
  <2>1. Silent(f, to) /\ to \in Control \ {"off", "send"} /\ Held(mem, f, to)
    BY <1>2 DEF Enter, Held, Control, Outcome, Midway
  <2>. QED BY <1>1, <2>1, SilentRun
<1>3. CASE mem.frames[f].phase = "Absent"
  <2>. DEFINE r == [mem EXCEPT !.frames[f] = NewFrame(f)]
  <2>1. Update(r, f, "top") /\ "top" \in Control \ {"off"} /\ "top" # "send"
    BY <1>3 DEF Enter, Control, Midway
  <2>2. ASSUME NEW g \in Frame, pc[g] = "join"
        PROVE  mem.frames[g].phase = "Active" /\ Kind[mem.frames[g].next_node] = "group"
    BY <2>2 DEF IInv, Local
  <2>3. f # Root => CalledNow(mem, f)
    <3>. SUFFICES ASSUME f # Root PROVE CalledNow(mem, f)
      OBVIOUS
    <3>1. /\ pc[Parent[f].frame] = "join" /\ f \in Children(At(mem, Parent[f].frame))
          /\ Parent[f].frame \in Frame
      BY <1>1, ParentFrame DEF RunInv, CallTree, CallersWait
    <3>. QED BY <2>2, <3>1 DEF CalledNow
  <2>4. PICK P \in SUBSET Frame : Path(mem, f, P) /\ \A g \in P \ {f} : pc[g] = "join"
    BY <1>1 DEF RunInv, CallTree, CallersWait
  <2>5. \A g \in P \ {f} : mem.frames[g].phase = "Active"
    BY <2>2, <2>4
  <2>6. r \in RunRecord /\ Consistent(r)
    BY <1>1, <1>3, <2>3, <2>4, <2>5, OpenedType, OpenedConsistent DEF Opened
  <2>7. /\ r.status = mem.status /\ r.steps_used = mem.steps_used /\ r.tasks = mem.tasks
        /\ \A g \in Frame \ {f} : r.frames[g] = mem.frames[g]
    BY <1>1 DEF RunRecord
  <2>. HIDE DEF r
  <2>8. Advances(mem, r, f, pc[f], "top") /\ Spares(mem, r, f) /\ Held(r, f, "top")
    BY <1>1, <1>3, <2>7 DEF Advances, Opened, Spares, TasksKept, OthersKept, Frozen, Held
  <2>. QED BY <1>1, <2>1, <2>6, <2>8, UpdateRun
<1>. QED BY <1>2, <1>3

LEMMA TopRun ==
    ASSUME IInv, IInv', RunInv, NEW f \in Frame, Top(f)
    PROVE  RunInv' /\ FrozenStep
<1>1. /\ InSegment(f) /\ WellFormed(mem) /\ mem \in RunRecord /\ Consistent(mem)
      /\ pc[f] = "top" /\ "top" \notin Resting \cup {"join", "commit"}
      /\ mem.frames[f] \in FrameRecord /\ mem.frames[f].phase \in {"Idle", "Active"}
      /\ mem.frames[f].next_node # End
  BY Polled DEF Top, RunInv, Resting, Outcome, Local, FrameRecord
<1>2. CASE Update(WithStatus(mem, "Cancelled"), f, "stopped")
  BY <1>1, <1>2, StatusRun DEF RunStatus, Halted, Outcome
<1>3. CASE Silent(f, "failed") \/ Silent(f, "stopped")
  BY <1>1, <1>3, SilentEnd DEF Outcome
<1>4. CASE /\ ~MayNotBegin(mem)
           /\ Update(Charged(mem, f), f, Dispatch(mem.frames[f].next_node))
  <2>. DEFINE n == mem.frames[f].next_node
              r == Charged(mem, f)
              to == Dispatch(n)
  <2>1. Kind[n] \in Kinds
    BY <1>1, TopologyAssumption DEF WellFormed, RunRecord, FrameRecord
  <2>2. to \in {"finish", "work", "approve", "spawn"} /\ (to = "finish" => Kind[n] = "plain")
    BY <2>1 DEF Dispatch, Kinds
  <2>3. r \in RunRecord /\ Consistent(r)
    BY <1>1, ChargedType, ChargedConsistent DEF Opened
  <2>4. /\ r.status = mem.status /\ r.tasks = mem.tasks
        /\ \A g \in Frame \ {f} : r.frames[g] = mem.frames[g]
        /\ r.frames[f] \in {mem.frames[f], Begun(mem.frames[f])}
        /\ mem.frames[f].phase = "Active" => r.frames[f] = mem.frames[f]
    BY <1>1 DEF RunRecord, Charged
  <2>5. /\ Begun(mem.frames[f]).phase = "Active" /\ Begun(mem.frames[f]).next_node = n
        /\ Begun(mem.frames[f]).steps_used > mem.frames[f].steps_used
    BY <1>1 DEF Begun, FrameRecord
  <2>6. mem.status \notin Halted /\ Update(r, f, to)
    BY <1>4 DEF MayNotBegin
  <2>. HIDE DEF r, to
  <2>7. Advances(mem, r, f, pc[f], to)
    BY <1>1, <2>4, <2>5, <2>6 DEF Advances, Opened
  <2>8. Spares(mem, r, f)
    BY <2>4, <2>6 DEF Spares, TasksKept, OthersKept, Frozen
  <2>9. Held(r, f, to)
    BY <2>2, <2>4, <2>5 DEF Held
  <2>10. to \in Control \ {"off"} /\ to # "send"
    BY <2>2 DEF Control, Midway
  <2>. QED BY <1>1, <2>3, <2>6, <2>7, <2>8, <2>9, <2>10, UpdateRun
<1>. QED BY <1>1, <1>2, <1>3, <1>4 DEF Top, Begin

LEMMA ApproveRun ==
    ASSUME IInv, IInv', RunInv, NEW f \in Frame, Approve(f)
    PROVE  RunInv' /\ FrozenStep
<1>. DEFINE a == At(mem, f)
            d == mem.approvals[a].decision
<1>1. /\ InSegment(f) /\ WellFormed(mem) /\ mem \in RunRecord /\ Consistent(mem)
      /\ pc[f] = "approve" /\ "approve" \notin Resting \cup {"join", "commit"}
      /\ mem.frames[f].phase = "Active" /\ Kind[mem.frames[f].next_node] = "barrier"
      /\ mem.status \in Live /\ mem.status \notin Halted
  BY Polled DEF Approve, RunInv, Resting, Outcome, Local, Live, Halted
<1>2. a \in ApprovalId
  BY <1>1, AtInvocation
<1>3. CASE Silent(f, "commit") \/ Silent(f, "suspend")
  <2>1. /\ {"commit", "suspend"} \subseteq Control \ {"off", "send"}
        /\ Held(mem, f, "commit") /\ Held(mem, f, "suspend")
    BY <1>1 DEF Held, Control, Midway
  <2>. QED BY <1>1, <1>3, <2>1, SilentRun
<1>4. CASE Update([WithStatus(mem, "Rejected") EXCEPT !.applied = @ \cup {a}], f, "stopped")
  <2>. DEFINE r == [WithStatus(mem, "Rejected") EXCEPT !.applied = @ \cup {a}]
  <2>1. r \in RunRecord /\ Consistent(r)
    BY <1>1, <1>2, RejectedType, RejectedConsistent
  <2>2. r.frames = mem.frames /\ r.tasks = mem.tasks
    BY <1>1 DEF RunRecord, WithStatus
  <2>3. Update(r, f, "stopped")
    BY <1>4
  <2>. HIDE DEF r
  <2>4. Advances(mem, r, f, pc[f], "stopped") /\ Spares(mem, r, f) /\ Held(r, f, "stopped")
    BY <1>1, <2>2 DEF Advances, Opened, Spares, TasksKept, OthersKept, Frozen, Held
  <2>5. "stopped" \in Control \ {"off"}
    BY DEF Control, Outcome
  <2>. QED BY <1>1, <2>1, <2>3, <2>4, <2>5, UpdateRun
<1>5. CASE Update([mem EXCEPT !.approvals[a].decision = "Awaited"], f, "suspend")
  <2>. DEFINE r == [mem EXCEPT !.approvals[a].decision = "Awaited"]
  <2>1. r \in RunRecord /\ Consistent(r)
    BY <1>1, AskedType, AskedConsistent
  <2>2. r.frames = mem.frames /\ r.tasks = mem.tasks /\ r.status = mem.status
    BY <1>1 DEF RunRecord
  <2>3. Update(r, f, "suspend")
    BY <1>5
  <2>. HIDE DEF r
  <2>4. Advances(mem, r, f, pc[f], "suspend") /\ Spares(mem, r, f) /\ Held(r, f, "suspend")
    BY <1>1, <2>2 DEF Advances, Opened, Spares, TasksKept, OthersKept, Frozen, Held
  <2>5. "suspend" \in Control \ {"off"}
    BY DEF Control, Midway
  <2>. QED BY <1>1, <2>1, <2>3, <2>4, <2>5, UpdateRun
<1>6. CASE Update(WithStatus(mem, "Expired"), f, "stopped")
  BY <1>1, <1>6, StatusRun DEF RunStatus, Halted, Outcome
<1>. QED BY <1>3, <1>4, <1>5, <1>6 DEF Approve

LEMMA SuspendRun ==
    ASSUME IInv, IInv', RunInv, NEW f \in Frame, Suspend(f)
    PROVE  RunInv' /\ FrozenStep
<1>1. /\ pc[f] = "suspend" /\ InSegment(f) /\ mem.status \in Live
      /\ Update(WithStatus(mem, "Suspended"), f, "suspended")
  BY Polled DEF Suspend, Local
<1>2. "suspend" \notin Resting \cup {"join", "commit"}
  BY DEF Resting, Outcome
<1>. QED BY <1>1, <1>2, StatusRun DEF RunStatus, Live, Halted, Outcome

\* The save of a task's new status, under the run status m gives.
LEMMA TaskRun ==
    ASSUME IInv, IInv', RunInv, NEW f \in Frame, InSegment(f),
           pc[f] \in {"work", "start", "call", "error"}, Local(mem, f, pc[f]),
           NEW m, m = mem \/ (m = WithStatus(mem, "Suspended") /\ mem.status \notin Halted),
           NEW s \in TaskStatus, NEW to \in {"start", "send", "finish", "suspended"},
           s = "Planned" => mem.tasks[At(mem, f)].status = "Absent",
           to = "start" => s = "Planned", to = "finish" => s = "Completed",
           to = "send" => pc[f] = "start" /\ m = mem,
           Update([m EXCEPT !.tasks[At(mem, f)].status = s], f, to)
    PROVE  RunInv' /\ FrozenStep
<1>. DEFINE t == At(mem, f)
            r == [m EXCEPT !.tasks[t].status = s]
<1>1. /\ WellFormed(mem) /\ mem \in RunRecord /\ Consistent(mem)
      /\ mem.status \notin {"Absent", "Completed"}
      /\ mem.frames[f].phase = "Active" /\ Kind[mem.frames[f].next_node] = "task"
  BY Polled DEF RunInv, Local, Live, Halted
<1>2. t \in TaskId /\ t[1] = f
  BY <1>1, AtInvocation
<1>3. /\ m.frames = mem.frames /\ m.tasks = mem.tasks /\ m.steps_used = mem.steps_used
      /\ m.status = mem.status \/ (m.status = "Suspended" /\ mem.status \notin Halted)
      /\ m \in RunRecord /\ Consistent(m) /\ WellFormed(m)
  BY <1>1, StatusFacts, StatusType, StatusConsistent, StatusWellFormed DEF RunStatus, Live
<1>4. At(m, f) = t
  BY <1>3 DEF At
<1>5. r \in RunRecord /\ Consistent(r)
  BY <1>1, <1>3, <1>4, TaskType, TaskConsistent
<1>6. /\ r.frames = mem.frames /\ r.steps_used = mem.steps_used /\ r.status = m.status
      /\ \A u \in TaskId \ {t} : r.tasks[u] = mem.tasks[u]
      /\ r.tasks[t] = [mem.tasks[t] EXCEPT !.status = s]
  BY <1>2, <1>3 DEF RunRecord
<1>7. r.tasks[t].status = s /\ r.tasks[t].resolutions = mem.tasks[t].resolutions
  <2>1. mem.tasks[t] \in TaskRecord
    BY <1>1, <1>2 DEF RunRecord
  <2>. QED BY <1>6, <2>1 DEF TaskRecord
<1>8. Update(r, f, to)
  OBVIOUS
<1>. HIDE DEF r
<1>9. Spares(mem, r, f)
  <2>1. TasksKept(mem, r)
    BY <1>2, <1>6, <1>7 DEF TasksKept, Unstarted, TaskStatus
  <2>2. OthersKept(mem, r, f)
    BY <1>2, <1>6 DEF OthersKept
  <2>3. Frozen(mem, r)
    BY <1>3, <1>6 DEF Frozen
  <2>. QED BY <2>1, <2>2, <2>3 DEF Spares
<1>10. Advances(mem, r, f, pc[f], to)
  BY <1>3, <1>6 DEF Advances, Opened, Halted
<1>11. Held(r, f, to)
  <2>1. At(r, f) = t /\ r.tasks[At(r, f)].status = s
    BY <1>6, <1>7 DEF At
  <2>. QED BY <2>1 DEF Held
<1>12. to \in Control \ {"off"} /\ pc[f] \notin Resting \cup {"join"}
  BY DEF Control, Resting, Outcome, Midway
<1>. QED BY <1>5, <1>6, <1>8, <1>9, <1>10, <1>11, <1>12, UpdateRun

LEMMA MarkUnknownRun ==
    ASSUME IInv, IInv', RunInv, NEW f \in Frame, InSegment(f),
           pc[f] \in {"work", "error"}, MarkUnknown(f)
    PROVE  RunInv' /\ FrozenStep
<1>1. Local(mem, f, pc[f]) /\ pc[f] \notin Resting \cup {"join"}
  BY Polled DEF Resting, Outcome
<1>2. CASE Silent(f, "failed") \/ Silent(f, "stopped")
  BY <1>1, <1>2, SilentEnd DEF Outcome
<1>3. CASE /\ mem.status \notin Halted
           /\ Update([WithStatus(mem, "Suspended") EXCEPT
                         !.tasks[At(mem, f)].status = "Unknown"], f, "suspended")
  BY <1>1, <1>3, TaskRun DEF TaskStatus
<1>. QED BY <1>2, <1>3 DEF MarkUnknown

LEMMA WorkRun ==
    ASSUME IInv, IInv', RunInv, NEW f \in Frame, Work(f)
    PROVE  RunInv' /\ FrozenStep
<1>. DEFINE t == At(mem, f)
            s == mem.tasks[t].status
<1>1. /\ InSegment(f) /\ Local(mem, f, "work") /\ mem \in RunRecord /\ WellFormed(mem)
      /\ pc[f] = "work" /\ "work" \notin Resting \cup {"join", "commit"}
  BY Polled DEF Work, Resting, Outcome
<1>2. CASE Update(WithStatus(mem, "Cancelled"), f, "stopped")
  BY <1>1, <1>2, StatusRun DEF RunStatus, Halted, Outcome
<1>3. CASE Silent(f, "stopped")
  BY <1>1, <1>3, SilentEnd DEF Outcome
<1>4. CASE s = "Completed" /\ Silent(f, "finish")
  <2>1. "finish" \in Control \ {"off", "send"} /\ Held(mem, f, "finish")
    BY <1>4 DEF Held, Control
  <2>. QED BY <1>1, <1>4, <2>1, SilentRun
<1>5. CASE MarkUnknown(f)
  BY <1>1, <1>5, MarkUnknownRun
<1>6. CASE /\ s = "Absent"
           /\ Update([mem EXCEPT !.tasks[t].status = "Planned"], f, "start")
  BY <1>1, <1>6, TaskRun DEF TaskStatus
<1>7. CASE /\ s # "Completed" /\ ~MustReconcile(t, s) /\ s # "Absent"
           /\ Silent(f, "start")
  <2>1. t \in TaskId /\ t[2] = mem.frames[f].next_node
    BY <1>1, AtInvocation DEF Local
  <2>2. mem.tasks[t] \in TaskRecord
    BY <1>1, <2>1 DEF RunRecord
  <2>3. t[2] \in Manual => s = "Planned"
    BY <1>7, <2>2 DEF TaskRecord, TaskStatus, MustReconcile
  <2>4. "start" \in Control \ {"off", "send"} /\ Held(mem, f, "start")
    BY <2>1, <2>3 DEF Held, Control, Midway
  <2>. QED BY <1>1, <1>7, <2>4, SilentRun
<1>. QED BY <1>2, <1>3, <1>4, <1>5, <1>6, <1>7 DEF Work

LEMMA StartTaskRun ==
    ASSUME IInv, IInv', RunInv, NEW f \in Frame, StartTask(f)
    PROVE  RunInv' /\ FrozenStep
<1>1. /\ InSegment(f) /\ pc[f] = "start" /\ Local(mem, f, pc[f])
      /\ Update([mem EXCEPT !.tasks[At(mem, f)].status = "Started"], f, "send")
  BY Polled DEF StartTask
<1>. QED BY <1>1, TaskRun DEF TaskStatus

LEMMA ReturnRun ==
    ASSUME IInv, IInv', RunInv, NEW f \in Frame, Return(f)
    PROVE  RunInv' /\ FrozenStep
<1>1. /\ InSegment(f) /\ pc[f] = "call" /\ Local(mem, f, pc[f])
      /\ Update([mem EXCEPT !.tasks[At(mem, f)].status = "Completed"], f, "finish")
  BY Polled DEF Return
<1>. QED BY <1>1, TaskRun DEF TaskStatus

\* The call itself uses up what CallsOK leaves at "send".
LEMMA SendRun ==
    ASSUME IInv, IInv', RunInv, NEW f \in Frame, Send(f)
    PROVE  RunInv' /\ FrozenStep
<1>. DEFINE u == At(mem, f)
<1>1. /\ InSegment(f) /\ Local(mem, f, "send") /\ WellFormed(mem) /\ pc[f] = "send"
      /\ mem = disk /\ host = "up"
  BY Polled DEF Send, IInv, SessionInv, InSegment
<1>2. /\ pc' = [pc EXCEPT ![f] = "call"] /\ calls' = [calls EXCEPT ![u] = @ + 1]
      /\ UNCHANGED <<disk, mem, host, poisoned>>
  BY DEF Send, Goto
<1>3. pc'[f] = "call" /\ \A g \in Frame \ {f} : pc'[g] = pc[g] /\ pc[g] \notin Midway
  BY <1>1, <1>2, SegmentOthers DEF Control
<1>4. /\ u \in TaskId /\ u[2] = mem.frames[f].next_node
      /\ disk.tasks[u].status = "Started" /\ calls \in [TaskId -> Nat]
  BY <1>1, AtInvocation DEF Local, IInv, TypeOK
<1>5. CallTree'
  <2>1. Advances(mem, mem', f, pc[f], "call")
    BY <1>1, <1>2 DEF Advances
  <2>2. pc[f] \notin Resting /\ "call" \in Control \ {"off"}
    BY <1>1 DEF Resting, Outcome, Control
  <2>. QED BY <1>1, <1>2, <2>1, <2>2, CallTreeStep DEF RunInv
<1>6. CallsOK'
  <2>1. \A t \in TaskId : Retries(t)' = Retries(t)
    BY <1>2 DEF Retries
  <2>2. calls'[u] = calls[u] + 1 /\ \A t \in TaskId \ {u} : calls'[t] = calls[t]
    BY <1>2, <1>4
  <2>3. \A g \in Frame : pc'[g] # "send"
    BY <1>3 DEF Midway
  <2>4. ASSUME u[2] \in Manual PROVE calls'[u] <= 1 + Cardinality(Retries(u))
    <3>1. calls[u] <= Cardinality(Retries(u)) /\ calls[u] \in Nat
      BY <1>1, <1>4, <2>4 DEF RunInv, CallsOK
    <3>2. Cardinality(Retries(u)) \in Nat
      <4>1. Retries(u) \subseteq Request /\ IsFiniteSet(Request)
        BY TopologyAssumption DEF Retries
      <4>. QED BY <4>1, FS_Subset, FS_CardinalityType
    <3>. QED BY <2>2, <3>1, <3>2
  <2>5. ASSUME NEW t \in TaskId, t[2] \in Manual
        PROVE  /\ calls'[t] <= 1 + Cardinality(Retries(t)')
               /\ disk'.tasks[t].status \in Unstarted =>
                     calls'[t] <= Cardinality(Retries(t)')
    <3>1. CASE t = u
      BY <1>2, <1>4, <2>1, <2>4, <2>5, <3>1 DEF Unstarted
    <3>2. CASE t # u
      BY <1>2, <2>1, <2>2, <2>5, <3>2 DEF RunInv, CallsOK
    <3>. QED BY <3>1, <3>2
  <2>. QED BY <2>3, <2>5 DEF CallsOK
<1>7. \A g \in Frame : Held(mem', g, pc'[g])
  BY <1>2, <1>3 DEF RunInv, Held
<1>. QED BY <1>2, <1>5, <1>6, <1>7 DEF RunInv, FrozenStep

LEMMA ExternalErrorRun ==
    ASSUME IInv, IInv', RunInv, NEW f \in Frame, ExternalError(f)
    PROVE  RunInv' /\ FrozenStep
<1>1. InSegment(f) /\ pc[f] = "call"
  BY DEF ExternalError
<1>2. /\ pc' = [pc EXCEPT ![f] = "error"]
      /\ UNCHANGED <<disk, mem, host, poisoned, calls>>
  BY DEF ExternalError, Goto
<1>3. pc'[f] = "error" /\ \A g \in Frame \ {f} : pc'[g] = pc[g] /\ pc[g] \notin Midway
  BY <1>1, <1>2, SegmentOthers DEF Control, Midway
<1>4. CallTree'
  <2>1. Advances(mem, mem', f, pc[f], "error")
    BY <1>1, <1>2 DEF Advances
  <2>2. pc[f] \notin Resting /\ "error" \in Control \ {"off"}
    BY <1>1 DEF Resting, Outcome, Control, Midway
  <2>. QED BY <1>1, <1>2, <2>1, <2>2, CallTreeStep DEF RunInv
<1>5. CallsOK'
  <2>1. TasksKept(disk, disk') /\ \A g \in Frame : pc'[g] # "send"
    BY <1>2, <1>3 DEF TasksKept, Midway
  <2>. QED BY <1>2, <2>1, CallsKept DEF RunInv
<1>6. \A g \in Frame : Held(mem', g, pc'[g])
  BY <1>2, <1>3 DEF RunInv, Held
<1>. QED BY <1>2, <1>4, <1>5, <1>6 DEF RunInv, FrozenStep

LEMMA TaskFailedRun ==
    ASSUME IInv, IInv', RunInv, NEW f \in Frame, TaskFailed(f)
    PROVE  RunInv' /\ FrozenStep
<1>1. pc[f] = "error" /\ InSegment(f) /\ "error" \notin Resting \cup {"join"}
  BY DEF TaskFailed, Resting, Outcome
<1>. QED BY <1>1, MarkUnknownRun, SilentEnd DEF TaskFailed, Outcome

LEMMA SpawnRun ==
    ASSUME IInv, IInv', RunInv, NEW f \in Frame, Spawn(f)
    PROVE  RunInv' /\ FrozenStep
<1>1. UNCHANGED <<disk, mem, host, poisoned, calls>> /\ InSegment(f) /\ pc[f] = "spawn"
  BY DEF Spawn
<1>2. \A g \in Frame : pc'[g] \in {"join", "enter"} \/ (g # f /\ pc'[g] = pc[g])
  BY DEF Spawn
<1>3. CallsOK'
  <2>1. TasksKept(disk, disk') /\ \A g \in Frame : pc'[g] # "send"
    BY <1>1, <1>2 DEF TasksKept, InSegment, Midway
  <2>. QED BY <1>1, <2>1, CallsKept DEF RunInv
<1>4. \A g \in Frame : Held(mem', g, pc'[g])
  BY <1>1, <1>2 DEF RunInv, Held
<1>. QED BY <1>1, <1>3, <1>4, SpawnTree DEF RunInv, FrozenStep

LEMMA JoinRun ==
    ASSUME IInv, IInv', RunInv, NEW f \in Frame, Join(f)
    PROVE  RunInv' /\ FrozenStep
<1>. DEFINE kids == Children(At(mem, f))
            outcomes == {pc[g] : g \in kids}
            to == JoinOutcome(outcomes)
<1>1. InSegment(f) /\ pc[f] = "join" /\ outcomes \subseteq Outcome /\ Silent(f, to)
  BY DEF Join
<1>2. \A c \in kids : pc[c] \in outcomes
  OBVIOUS
<1>3. to \in {"stopped", "failed", "suspended", "commit"}
  BY DEF JoinOutcome
<1>4. to = "commit" => outcomes \cap {"stopped", "failed", "suspended"} = {}
  BY DEF JoinOutcome
<1>5. "stopped" \in outcomes => to = "stopped"
  BY DEF JoinOutcome
<1>. HIDE DEF to, outcomes
<1>6. Joined(f, to)
  BY <1>1, <1>2, <1>4, <1>5 DEF Joined, Outcome, kids
<1>7. Held(mem, f, to)
  <2>1. ASSUME to = "commit", NEW c \in kids PROVE Done(mem, c)
    <3>1. pc[c] = "ok" /\ c \in Frame
      BY <1>6, <2>1 DEF Joined, Children
    <3>. QED BY <3>1 DEF IInv, Local, Done, Opened
  <2>. QED BY <1>3, <2>1 DEF Held
<1>8. /\ to \in Control \ {"off", "send"} /\ to \in {"commit"} \cup Outcome
      /\ pc[f] \notin Resting
  BY <1>1, <1>3 DEF Control, Outcome, Midway, Resting
<1>. QED BY <1>1, <1>6, <1>7, <1>8, SilentRun

LEMMA CommitRun ==
    ASSUME IInv, IInv', RunInv, NEW f \in Frame, Commit(f)
    PROVE  RunInv' /\ FrozenStep
<1>1. /\ InSegment(f) /\ pc[f] \in {"finish", "commit"} /\ Local(mem, f, pc[f])
      /\ Held(mem, f, pc[f]) /\ mem.frames[f].phase = "Active"
      /\ WellFormed(mem) /\ Consistent(mem) /\ mem \in RunRecord
      /\ mem.frames[f] \in FrameRecord
      /\ pc[f] \notin Resting \cup {"join"}
  BY Polled DEF Commit, RunInv, Local, Resting, Outcome
<1>2. PICK next \in Route[mem.frames[f].next_node] :
         Update(Committed(mem, f, next), f, IF next = End THEN "ok" ELSE "top")
  BY DEF Commit
<1>. DEFINE r == Committed(mem, f, next)
            to == IF next = End THEN "ok" ELSE "top"
<1>3. r \in RunRecord /\ Consistent(r)
  <2>1. mem.frames[f].next_node \in Graph[f]
    BY <1>1 DEF WellFormed, CursorOK
  <2>2. next \in Node \cup {End}
    BY <2>1, TopologyAssumption
  <2>. QED BY <1>1, <2>2, CommittedType, CommittedConsistent
<1>4. /\ r.status = mem.status /\ r.steps_used = mem.steps_used /\ r.tasks = mem.tasks
      /\ \A g \in Frame \ {f} : r.frames[g] = mem.frames[g]
      /\ r.frames[f] = [mem.frames[f] EXCEPT !.next_node = next, !.phase = "Idle"]
  BY <1>1 DEF RunRecord, Committed
<1>5. r.frames[f].phase = "Idle" /\ r.frames[f].steps_used = mem.frames[f].steps_used
  BY <1>1, <1>4 DEF FrameRecord
<1>6. Update(r, f, to) /\ to \in Control \ {"off"} /\ to \in {"ok", "top"}
  BY <1>2 DEF Control, Outcome, Midway
<1>. HIDE DEF r, to
<1>7. Advances(mem, r, f, pc[f], to) /\ Spares(mem, r, f) /\ Held(r, f, to)
  BY <1>4, <1>5, <1>6
     DEF Advances, Opened, Spares, TasksKept, OthersKept, Frozen, Held
<1>. QED BY <1>1, <1>3, <1>6, <1>7, UpdateRun

LEMMA ReleaseRun ==
    ASSUME Release, Consistent(disk'), CallsOK'
    PROVE  RunInv'
<1>1. /\ host' = "down" /\ mem' = disk' /\ pc' = [f \in Frame |-> "off"]
  BY DEF Release
<1>2. CallTree'
  BY <1>1, RootFrame, LeaseTree
<1>3. \A f \in Frame : Held(mem', f, pc'[f])
  BY <1>1 DEF Held
<1>. QED BY <1>1, <1>2, <1>3 DEF RunInv

LEMMA SaveOnceRun ==
    ASSUME IInv, IInv', RunInv, NEW r \in RunRecord, Consistent(r), TasksKept(disk, r),
           disk.status \in Live, SaveOnce(r), calls' = calls
    PROVE  RunInv' /\ FrozenStep
<1>1. Release /\ disk' \in {disk, Saved(r)} /\ pc' = [f \in Frame |-> "off"]
  BY DEF SaveOnce, Release
<1>2. Consistent(disk')
  BY <1>1, SavedConsistent DEF RunInv
<1>3. TasksKept(disk, disk')
  BY <1>1, SavedFacts DEF TasksKept
<1>4. CallsOK'
  BY <1>1, <1>3, CallsKept DEF RunInv
<1>5. FrozenStep
  BY DEF FrozenStep, Live, Halted
<1>. QED BY <1>1, <1>2, <1>4, <1>5, ReleaseRun

LEMMA OneSaveRuns ==
    ASSUME IInv, IInv', RunInv, ResumeExpired \/ CancelRun
    PROVE  RunInv' /\ FrozenStep
<1>1. disk \in RunRecord /\ Consistent(disk) /\ disk.status \in Live /\ calls' = calls
  BY DEF IInv, TypeOK, RunInv, ResumeExpired, CancelRun
<1>2. PICK s \in {"Expired", "Cancelled"} : SaveOnce(WithStatus(disk, s))
  BY DEF ResumeExpired, CancelRun
<1>3. s \in RunStatus
  BY DEF RunStatus, Halted
<1>4. /\ WithStatus(disk, s) \in RunRecord /\ Consistent(WithStatus(disk, s))
      /\ TasksKept(disk, WithStatus(disk, s))
  BY <1>1, <1>3, StatusType, StatusConsistent, StatusFacts DEF TasksKept
<1>. QED BY <1>1, <1>2, <1>4, SaveOnceRun

LEMMA SubmitDecisionRun ==
    ASSUME IInv, IInv', RunInv, NEW a \in ApprovalId, NEW q \in Request, NEW d \in Decision,
           SubmitDecision(a, q, d)
    PROVE  RunInv' /\ FrozenStep
<1>1. /\ disk \in RunRecord /\ WellFormed(disk) /\ Consistent(disk) /\ disk.status \in Live
      /\ disk.approvals[a].decision = "Awaited" /\ calls' = calls
  BY DEF IInv, TypeOK, RunInv, SubmitDecision, Decidable, Pending, Live
<1>2. CASE SaveOnce(WithStatus(disk, "Expired"))
  <2>1. "Expired" \in RunStatus
    BY DEF RunStatus, Halted
  <2>2. /\ WithStatus(disk, "Expired") \in RunRecord
        /\ Consistent(WithStatus(disk, "Expired"))
        /\ TasksKept(disk, WithStatus(disk, "Expired"))
    BY <1>1, <2>1, StatusType, StatusConsistent, StatusFacts DEF TasksKept
  <2>. QED BY <1>1, <1>2, <2>2, SaveOnceRun
<1>3. CASE SaveOnce(Decided(disk, a, q, d))
  <2>1. Decided(disk, a, q, d) \in RunRecord /\ Consistent(Decided(disk, a, q, d))
    BY <1>1, DecidedType, DecidedConsistent
  <2>2. Decided(disk, a, q, d).tasks = disk.tasks
    BY <1>1 DEF Decided, RunRecord
  <2>. QED BY <1>1, <1>3, <2>1, <2>2, SaveOnceRun DEF TasksKept
<1>. QED BY <1>2, <1>3 DEF SubmitDecision

\* A Retry is one more request that allows one more call.
LEMMA ResolveTaskRun ==
    ASSUME IInv, IInv', RunInv, NEW u \in TaskId, NEW q \in Request,
           NEW s \in TaskResolution, ResolveTask(u, q, s)
    PROVE  RunInv' /\ FrozenStep
<1>. DEFINE r == Resolved(disk, u, q, s)
<1>1. /\ disk \in RunRecord /\ WellFormed(disk) /\ Consistent(disk) /\ disk.status \in Live
      /\ disk.tasks[u].status \in Reconcilable /\ disk.tasks[u].resolutions[q] = "None"
      /\ calls' = calls /\ calls \in [TaskId -> Nat]
  BY DEF IInv, TypeOK, RunInv, ResolveTask
<1>2. /\ Release /\ disk' \in {disk, Saved(r)} /\ pc' = [f \in Frame |-> "off"]
  BY DEF ResolveTask, SaveOnce, Release
<1>3. r \in RunRecord /\ Consistent(r)
  BY <1>1, ResolvedType, ResolvedConsistent
<1>4. Consistent(disk')
  BY <1>2, <1>3, SavedConsistent DEF RunInv
<1>5. CallsOK'
  <2>1. \A f \in Frame : pc'[f] # "send"
    BY <1>2
  <2>2. CASE disk' = disk
    BY <1>1, <2>1, <2>2 DEF RunInv, CallsOK, Retries
  <2>3. CASE disk' = Saved(r)
    <3>1. /\ disk'.tasks = [disk.tasks EXCEPT ![u] =
                [status |-> IF s = "Retry" THEN "Planned" ELSE "Completed",
                 resolutions |-> [@.resolutions EXCEPT ![q] = s]]]
          /\ disk.tasks \in [TaskId -> TaskRecord]
      BY <1>1, <1>3, <2>3, SavedFacts DEF Resolved, RunRecord
    <3>2. /\ disk'.tasks[u].status = IF s = "Retry" THEN "Planned" ELSE "Completed"
          /\ disk'.tasks[u].resolutions = [disk.tasks[u].resolutions EXCEPT ![q] = s]
          /\ \A t \in TaskId \ {u} : disk'.tasks[t] = disk.tasks[t]
      BY <3>1
    <3>3. disk.tasks[u].resolutions \in [Request -> TaskResolution \cup {"None"}]
      BY <3>1 DEF TaskRecord
    <3>4. \A t \in TaskId \ {u} : Retries(t)' = Retries(t)
      BY <3>2 DEF Retries
    <3>5. Retries(u)' = IF s = "Retry" THEN Retries(u) \cup {q} ELSE Retries(u)
      BY <1>1, <3>2, <3>3 DEF Retries, TaskResolution
    <3>6. q \notin Retries(u)
      BY <1>1 DEF Retries
    <3>7. IsFiniteSet(Retries(u)) /\ Cardinality(Retries(u)) \in Nat
      <4>1. Retries(u) \subseteq Request /\ IsFiniteSet(Request)
        BY TopologyAssumption DEF Retries
      <4>. QED BY <4>1, FS_Subset, FS_CardinalityType
    <3>8. Cardinality(Retries(u) \cup {q}) = Cardinality(Retries(u)) + 1
      BY <3>6, <3>7, FS_AddElement
    <3>9. ASSUME u[2] \in Manual
          PROVE  /\ calls'[u] <= 1 + Cardinality(Retries(u)')
                 /\ disk'.tasks[u].status \in Unstarted =>
                       calls'[u] <= Cardinality(Retries(u)')
      <4>1. calls[u] <= 1 + Cardinality(Retries(u)) /\ calls[u] \in Nat
        BY <1>1, <3>9 DEF RunInv, CallsOK
      <4>2. CASE s = "Retry"
        BY <1>1, <3>5, <3>7, <3>8, <4>1, <4>2
      <4>3. CASE s # "Retry"
        BY <1>1, <3>2, <3>5, <4>1, <4>3 DEF Unstarted
      <4>. QED BY <4>2, <4>3
    <3>10. ASSUME NEW t \in TaskId, t[2] \in Manual, t # u
           PROVE  /\ calls'[t] <= 1 + Cardinality(Retries(t)')
                  /\ disk'.tasks[t].status \in Unstarted =>
                        calls'[t] <= Cardinality(Retries(t)')
      BY <1>1, <3>2, <3>4, <3>10 DEF RunInv, CallsOK
    <3>. QED BY <2>1, <3>9, <3>10 DEF CallsOK
  <2>. QED BY <1>2, <2>2, <2>3
<1>6. FrozenStep
  BY <1>1 DEF FrozenStep, Live, Halted
<1>. QED BY <1>2, <1>4, <1>5, <1>6, ReleaseRun

LEMMA StartRun == ASSUME IInv, IInv', RunInv, Start PROVE RunInv' /\ FrozenStep
<1>1. /\ disk = NoRecord /\ disk.status = "Absent" /\ disk' \in {NoRecord, RootRecord}
      /\ calls' = calls
      /\ (Take(FALSE) /\ disk' = RootRecord) \/ Release
  BY DEF Start, IInv, SessionInv
<1>2. Consistent(disk')
  BY <1>1, RootConsistent
<1>3. RootRecord.tasks = NoRecord.tasks /\ RootRecord.status = "Running"
  BY RootRecordWellFormed DEF RootRecord, NoRecord
<1>4. \A f \in Frame : pc'[f] \in {"off", "launch"}
  BY <1>1 DEF Take, Release
<1>5. CallsOK'
  BY <1>1, <1>3, <1>4, CallsKept DEF TasksKept, RunInv
<1>6. FrozenStep
  BY <1>1 DEF FrozenStep, Halted
<1>7. CASE Take(FALSE) /\ disk' = RootRecord
  <2>1. /\ mem' = disk' /\ pc' = [f \in Frame |-> IF f = Root THEN "launch" ELSE "off"]
        /\ mem'.status \notin Halted
    BY <1>3, <1>7 DEF Take, Halted
  <2>2. CallTree'
    BY <2>1, RootFrame, LeaseTree
  <2>3. \A f \in Frame : Held(mem', f, pc'[f])
    BY <2>1 DEF Held
  <2>. QED BY <1>2, <1>5, <1>6, <2>1, <2>2, <2>3 DEF RunInv
<1>. QED BY <1>1, <1>2, <1>5, <1>6, <1>7, ReleaseRun

LEMMA ResumeRun ==
    ASSUME IInv, IInv', RunInv, NEW token \in BOOLEAN, Resume(token)
    PROVE  RunInv' /\ FrozenStep
<1>1. /\ disk' = disk /\ disk.status \in Live /\ calls' = calls /\ mem' = disk'
      /\ pc' = [f \in Frame |-> IF f = Root THEN "launch" ELSE "off"]
  BY DEF Resume, Take
<1>2. CallTree'
  BY <1>1, RootFrame, LeaseTree DEF Live, Halted
<1>3. CallsOK'
  BY <1>1, CallsKept DEF TasksKept, RunInv
<1>4. \A f \in Frame : Held(mem', f, pc'[f])
  BY <1>1 DEF Held
<1>. QED BY <1>1, <1>2, <1>3, <1>4 DEF RunInv, FrozenStep

LEMMA CrashRun == ASSUME IInv, IInv', RunInv, Crash PROVE RunInv' /\ FrozenStep
<1>1. disk' = disk /\ calls' = calls /\ Release /\ pc' = [f \in Frame |-> "off"]
  BY DEF Crash, Release
<1>2. CallsOK'
  BY <1>1, CallsKept DEF TasksKept, RunInv
<1>. QED BY <1>1, <1>2, ReleaseRun DEF RunInv, FrozenStep

\* The tail of execute completes no halted run: the halt has reached the root.
LEMMA ConcludeRun == ASSUME IInv, IInv', RunInv, Conclude PROVE RunInv' /\ FrozenStep
<1>. DEFINE final == IF cancelled THEN "Cancelled" ELSE "Completed"
            r == WithStatus(mem, final)
<1>1. /\ host = "up" /\ Release /\ calls' = calls /\ pc' = [f \in Frame |-> "off"]
      /\ mem \in RunRecord /\ Consistent(mem) /\ mem.status # "Completed"
  BY DEF Conclude, Release, IInv, TypeOK, SessionInv, RunInv
<1>2. \/ UNCHANGED disk
      \/ /\ ~poisoned /\ (cancelled \/ pc[Root] = "ok") /\ disk' \in {disk, Saved(r)}
  BY DEF Conclude
<1>3. final \in RunStatus
  BY DEF RunStatus, Halted
<1>4. r \in RunRecord /\ Consistent(r) /\ r.tasks = mem.tasks /\ r.status = final
      /\ r.steps_used = mem.steps_used
  BY <1>1, <1>3, StatusType, StatusConsistent, StatusFacts
<1>5. pc[Root] = "ok" => mem.status \notin Halted
  BY <1>1 DEF RunInv, CallTree, HaltSpreads
<1>6. ~poisoned => mem = disk
  BY DEF IInv, SessionInv
<1>. HIDE DEF r
<1>7. /\ Saved(r).status = r.status /\ Saved(r).steps_used = r.steps_used
      /\ Saved(r).tasks = r.tasks /\ Consistent(Saved(r))
  BY <1>4, SavedFacts, SavedConsistent
<1>8. Consistent(disk')
  BY <1>2, <1>7 DEF RunInv
<1>9. CallsOK'
  BY <1>1, <1>2, <1>4, <1>6, <1>7, CallsKept DEF TasksKept, RunInv
<1>10. FrozenStep
  BY <1>1, <1>2, <1>4, <1>5, <1>6, <1>7 DEF FrozenStep
<1>. QED BY <1>1, <1>8, <1>9, <1>10, ReleaseRun

\* A step that touches neither the record, nor the session, nor the calls.
LEMMA QuietRun ==
    ASSUME IInv, IInv', RunInv, UNCHANGED <<disk, mem, host, pc, calls>>
    PROVE  RunInv' /\ FrozenStep
<1>1. CallTree'
  BY DEF RunInv, CallTree, CallersWait, PolledOnce, HaltSpreads
<1>2. CallsOK'
  BY CallsKept DEF TasksKept, RunInv
<1>. QED BY <1>1, <1>2 DEF RunInv, FrozenStep

LEMMA InitRun == Init => RunInv
<1>. SUFFICES ASSUME Init PROVE RunInv
  OBVIOUS
<1>1. /\ disk = NoRecord /\ mem = NoRecord /\ host = "down"
      /\ \A f \in Frame : pc[f] = "off"
      /\ \A t \in TaskId : calls[t] = 0
  BY DEF Init
<1>2. CallTree
  BY <1>1 DEF CallTree, CallersWait, PolledOnce, HaltSpreads, Resting
<1>3. CallsOK
  <2>1. \A t \in TaskId : Cardinality(Retries(t)) \in Nat
    <3>1. \A t \in TaskId : Retries(t) \subseteq Request /\ IsFiniteSet(Request)
      BY TopologyAssumption DEF Retries
    <3>. QED BY <3>1, FS_Subset, FS_CardinalityType
  <2>. QED BY <1>1, <2>1 DEF CallsOK
<1>. QED BY <1>1, <1>2, <1>3, RootConsistent DEF RunInv, Held

LEMMA NextRun == IInv /\ IInv' /\ RunInv /\ [Next]_vars => RunInv' /\ FrozenStep
<1>. SUFFICES ASSUME IInv, IInv', RunInv, [Next]_vars PROVE RunInv' /\ FrozenStep
  OBVIOUS
<1>1. CASE Start \/ ResumeExpired \/ \E token \in BOOLEAN : Resume(token)
  BY <1>1, StartRun, OneSaveRuns, ResumeRun
<1>2. CASE Launch \/ Conclude \/ Crash
  BY <1>2, LaunchRun, ConcludeRun, CrashRun
<1>3. CASE \E f \in Frame : FrameStep(f) \/ ExternalError(f)
  BY <1>3, EnterRun, TopRun, ApproveRun, SuspendRun, WorkRun, StartTaskRun, SendRun,
     ReturnRun, TaskFailedRun, SpawnRun, JoinRun, CommitRun, ExternalErrorRun DEF FrameStep
<1>4. CASE CancelToken \/ (\E a \in ApprovalId : DeadlinePasses(a)) \/ UNCHANGED vars
  BY <1>4, QuietRun DEF CancelToken, DeadlinePasses, session, vars
<1>5. CASE Client
  <2>1. CASE \E a \in ApprovalId, q \in Request, d \in Decision : RepeatDecision(a, q, d)
    BY <2>1, QuietRun DEF RepeatDecision, session
  <2>. QED BY <1>5, <2>1, SubmitDecisionRun, ResolveTaskRun, OneSaveRuns DEF Client
<1>. QED BY <1>1, <1>2, <1>3, <1>4, <1>5 DEF Next

-----------------------------------------------------------------------------
(* The theorems that rest on it.                                           *)

THEOREM RunInvariance == Spec => [](IInv /\ RunInv)
<1>1. Init => IInv /\ RunInv
  BY InitInvariant, InitRun
<1>2. IInv /\ RunInv /\ [Next]_vars => (IInv /\ RunInv)'
  BY NextInvariant, NextRun
<1>. QED BY <1>1, <1>2, PTL DEF Spec

\* Once a run has completed, its record is never written again; once it has halted, no
\* frame begins another invocation and nothing but the host's token renames the halt:
\* the halt a branch saved cannot be overtaken by a root that still returns Completed.
THEOREM HaltsAreFinal == Spec => HaltIsFinal
<1>1. IInv /\ RunInv /\ [Next]_vars => [FrozenStep]_disk
  BY NextInvariant, NextRun
<1>. QED BY <1>1, RunInvariance, PTL DEF Spec, HaltIsFinal, FrozenStep

\* Over every crash, retry and reconciliation, a task under ManualRecovery is called at
\* most once more than people have authorised.
THEOREM ManualTasksCalledOnce == Spec => []ManualCalledOnce
<1>1. RunInv => ManualCalledOnce
  BY DEF RunInv, CallsOK, ManualCalledOnce
<1>. QED BY <1>1, RunInvariance, PTL

\* No group is committed before all of its branches have finished, at any depth of the
\* tree of calls, and a completed run has left nothing unsettled.
THEOREM GroupsAreComplete == Spec => []GroupIsComplete
<1>1. IInv /\ RunInv => GroupIsComplete
  <2>. SUFFICES ASSUME IInv, RunInv PROVE GroupIsComplete
    OBVIOUS
  <2>1. /\ WellFormed(disk) /\ Consistent(disk) /\ disk \in RunRecord
    BY DEF IInv, TypeOK, RunInv
  <2>2. ASSUME disk.status = "Completed", NEW f \in Frame
        PROVE  disk.frames[f].phase # "Active"
    <3>. SUFFICES ASSUME disk.frames[f].phase = "Active" PROVE FALSE
      OBVIOUS
    <3>1. disk.frames[Root].next_node = End /\ disk.frames[Root].phase # "Active"
      BY <2>1, <2>2, RootFrame DEF WellFormed, RunOK, CursorOK
    <3>2. Opened(disk, f) /\ ~Done(disk, f)
      BY <2>1 DEF WellFormed, CursorOK, Opened, Done
    <3>3. PICK P \in SUBSET Frame :
             Path(disk, f, P) /\ \A g \in P \ {f} : disk.frames[g].phase = "Active"
      BY <2>1, <3>2 DEF Consistent, PathsOK
    <3>. QED BY <3>1, <3>3 DEF Path
  <2>3. ASSUME disk.status = "Completed", NEW a \in Asked(disk)
        PROVE  a \in disk.applied /\ disk.approvals[a].decision = "Approve"
    BY <2>1, <2>2, <2>3, ApprovalFrame DEF Consistent, ApprovalsOK, Asked
  <2>4. ASSUME disk.status = "Completed", NEW t \in TaskId
        PROVE  disk.tasks[t].status \in {"Absent", "Completed"}
    <3>1. disk.tasks[t].status \in TaskStatus \cup {"Absent"}
      BY <2>1 DEF RunRecord, TaskRecord
    <3>2. disk.tasks[t].status \notin {"Planned", "Started", "Unknown"}
      BY <2>1, <2>2, <2>4, TaskFrame DEF Consistent, TasksOK
    <3>. QED BY <3>1, <3>2 DEF TaskStatus
  <2>5. ASSUME NEW c \in Frame \ {Root}, NEW p, p = disk.frames[Parent[c].frame],
               NEW i, i = Parent[c].invocation, disk.frames[c].phase # "Absent",
               p.steps_used > i \/ (p.steps_used = i /\ p.phase # "Active")
        PROVE  \A s \in Siblings(c) : /\ disk.frames[s].phase # "Absent"
                                      /\ disk.frames[s].next_node = End
    <3>1. p.steps_used \in Nat
      BY <2>1, <2>5, ParentFrame DEF RunRecord, FrameRecord
    <3>2. ~CalledNow(disk, c)
      BY <2>5, <3>1, ParentFrame, ChildFacts DEF CalledNow
    <3>. QED BY <2>1, <2>5, <3>2 DEF Consistent, GroupsOK, Opened, Done
  <2>. QED BY <2>3, <2>4, <2>5 DEF GroupIsComplete
<1>. QED BY <1>1, RunInvariance, PTL
=============================================================================
