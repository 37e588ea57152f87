--------------------------- MODULE AgentLoopProofs ---------------------------
(* Theorems about ToolBatch and AgentLoop, for any tools, any limits and any   *)
(* number of calls and rounds.                                                 *)
EXTENDS AgentWire, FiniteSetTheorems, SequenceTheorems, TLAPS

-----------------------------------------------------------------------------
(* The batch                                                                 *)

\* A call that has yet to begin in this process has not been executed by it, and one that
\* is slept on has an attempt left: no attempt is made beyond MaxAttempts.
Counted ==
  \A i \in Calls :
    /\ status[i] \in {"queued", "started", "saved"} /\ i \notin stuck => attempts[i] = 0
    /\ ~open => attempts[i] = 0
    /\ status[i] = "backoff" => attempts[i] < MaxAttempts
    /\ status[i] = "queued" /\ ~durable => returned[i] = "none"

\* Only a durable batch waits for a process, and what nobody works on is not under way.
Attended ==
  /\ ~open => stuck = {} /\ \A i \in Calls : ~Active(i)
  /\ ~durable => stuck = {} /\ (InBatch => open)
  /\ ~durable => \A i \in Calls : status[i] \in {"queued", "running", "backoff", "answered"}

\* A serial group works its calls off in their order: what has begun has only
\* finished ones before it.
InOrder ==
  \A i, j \in Calls :
    /\ IsSerial(i) /\ GroupOf(i) = GroupOf(j)
    /\ j < i
    /\ Active(i)
    => status[j] = "answered"

\* In a durable batch it is the exclusive calls' turn when all others are answered.
ExclusiveLast ==
  \A i, j \in Calls :
    /\ durable /\ Active(i)
    /\ GroupOf(i) = "exclusive" /\ GroupOf(j) # "exclusive"
    => status[j] = "answered"

\* A call that panicked is not executed again, but for a durable one.
PanicsAreOver == ~durable => \A i \in Calls : returned[i] = "panic" => status[i] = "answered"

BatchInv ==
  BatchTypeOK /\ Counted /\ Attended /\ InOrder /\ ExclusiveLast /\ PanicsAreOver /\ ReportsAreTrue

\* The indices of a batch are those of its list of calls.
LEMMA CallListType ==
  ASSUME NEW cs \in CallLists
  PROVE  \E n \in 1..MaxCalls : n \in Nat /\ cs \in [1..n -> Tools] /\ DOMAIN cs = 1..n
BY ToolBatchAssumption DEF CallLists, ToolBatchAssumption

LEMMA BatchInitially == BatchInit => BatchInv
<1> SUFFICES ASSUME BatchInit PROVE BatchInv
  OBVIOUS
<1>1. Calls = {}
  BY DEF BatchInit, Calls
<1>2. BatchTypeOK
  <2>1. /\ status \in [Calls -> Status] /\ attempts \in [Calls -> 0..MaxAttempts]
        /\ returned \in [Calls -> {"none", "ok", "fatal", "retryable", "panic", "resolved"}]
        /\ result \in [Calls -> {"none", "ok", "error"}]
    BY <1>1 DEF BatchInit
  <2>2. mishaps \in 0..MaxMishaps /\ changes \in 0..MaxChanges
    BY ToolBatchAssumption DEF BatchInit, ToolBatchAssumption
  <2> QED
    BY <1>1, <2>1, <2>2 DEF BatchTypeOK, BatchInit
<1> QED
  BY <1>1, <1>2
  DEF BatchInv, Counted, Attended, InOrder, ExclusiveLast, PanicsAreOver, ReportsAreTrue,
      BatchInit, InBatch

\* The invariant speaks of the batch alone.
LEMMA SameBatch ==
  ASSUME BatchInv, UNCHANGED <<durable, callVars>>, BatchTypeOK'
  PROVE  BatchInv'
BY DEF BatchInv, callVars, Calls, InBatch, Counted, Attended, InOrder, ExclusiveLast,
   PanicsAreOver, ReportsAreTrue, Active, Done, IsSerial, GroupOf, GroupPanicked, LostWith, Group

LEMMA KeepsChange == BatchInv /\ CatalogChange => BatchInv'
<1> SUFFICES ASSUME BatchInv, CatalogChange PROVE BatchInv'
  OBVIOUS
<1>1. BatchTypeOK'
  BY ToolBatchAssumption
  DEF BatchInv, BatchTypeOK, CatalogChange, callVars, Calls, ToolBatchAssumption
<1> QED
  BY <1>1, SameBatch DEF CatalogChange

LEMMA KeepsBegin == ASSUME BatchInv, NEW cs \in CallLists, Begin(cs) PROVE BatchInv'
<1>1. Calls' = DOMAIN cs /\ open' /\ durable' = durable
  BY DEF Begin, Calls
<1>2. stuck = {}
  <2>1. Calls = {}
    BY DEF Begin, InBatch, Calls
  <2> QED
    BY <2>1 DEF BatchInv, BatchTypeOK
<1>3. BatchTypeOK'
  <2>1. /\ status' \in [Calls' -> Status] /\ attempts' \in [Calls' -> 0..MaxAttempts]
        /\ returned' \in [Calls' -> {"none", "ok", "fatal", "retryable", "panic", "resolved"}]
        /\ result' \in [Calls' -> {"none", "ok", "error"}]
    BY <1>1, ToolBatchAssumption DEF Begin, Status, ToolBatchAssumption
  <2> QED
    BY <1>1, <1>2, <2>1 DEF BatchInv, BatchTypeOK, Begin
<1>4. \A i \in Calls' : status'[i] = "queued" /\ attempts'[i] = 0 /\ returned'[i] = "none"
  BY <1>1 DEF Begin
<1>5. stuck' = {}
  BY <1>2 DEF Begin
<1> QED
  BY <1>1, <1>3, <1>4, <1>5
  DEF BatchInv, Counted, Attended, InOrder, ExclusiveLast, PanicsAreOver, ReportsAreTrue, Active, Done

\* A batch that is over leaves nothing.
LEMMA KeepsForget ==
  ASSUME BatchInv, Forget, UNCHANGED <<durable, catalog, changes>>,
         mishaps' \in 0..MaxMishaps
  PROVE  BatchInv'
<1>1. Calls' = {}
  BY DEF Forget, Calls
<1>2. BatchTypeOK'
  <2>1. /\ status' \in [Calls' -> Status] /\ attempts' \in [Calls' -> 0..MaxAttempts]
        /\ returned' \in [Calls' -> {"none", "ok", "fatal", "retryable", "panic", "resolved"}]
        /\ result' \in [Calls' -> {"none", "ok", "error"}]
    BY <1>1 DEF Forget
  <2> QED
    BY <1>1, <2>1 DEF BatchInv, BatchTypeOK, Forget
<1> QED
  BY <1>1, <1>2
  DEF BatchInv, Counted, Attended, InOrder, ExclusiveLast, PanicsAreOver, ReportsAreTrue, Forget, InBatch

LEMMA KeepsCollect == BatchInv /\ Collect => BatchInv'
BY KeepsForget DEF Collect, BatchInv, BatchTypeOK

\* What is left of a batch is what its record says.
LEMMA KeepsSuspend ==
  ASSUME BatchInv, durable, Suspend, UNCHANGED <<durable, catalog, changes>>,
         mishaps' \in 0..MaxMishaps
  PROVE  BatchInv'
<1>1. Calls' = Calls /\ ~open' /\ stuck' = {} /\ durable'
  BY DEF Suspend, Calls
<1>2. \A i \in Calls : /\ status'[i] = Left(status[i])
                       /\ attempts'[i] = 0
                       /\ returned'[i] = returned[i] /\ result'[i] = result[i]
  BY DEF Suspend, BatchInv, BatchTypeOK
<1>3. \A i \in Calls : Left(status[i]) \in Status \ {"running", "backoff"}
  BY DEF BatchInv, BatchTypeOK, Left, Status
<1>4. BatchTypeOK'
  <2>1. status' \in [Calls -> Status]
    BY <1>3 DEF Suspend
  <2>2. attempts' \in [Calls -> 0..MaxAttempts]
    BY ToolBatchAssumption DEF Suspend, ToolBatchAssumption
  <2> QED
    BY <1>1, <2>1, <2>2 DEF Suspend, BatchInv, BatchTypeOK
<1>5. \A i \in Calls : ~(Active(i)')
  BY <1>2, <1>3 DEF Active
<1>6. ReportsAreTrue'
  <2>1. \A i \in Calls : Done(i)' => Done(i)
    BY <1>2 DEF Done, Left
  <2> QED
    BY <1>1, <1>2, <2>1 DEF BatchInv, ReportsAreTrue
<1>7. Counted'
  BY <1>1, <1>2, <1>3 DEF Counted
<1> QED
  BY <1>1, <1>4, <1>5, <1>6, <1>7 DEF BatchInv, Attended, InOrder, ExclusiveLast, PanicsAreOver

LEMMA KeepsGiveUp == BatchInv /\ GiveUp => BatchInv'
BY KeepsSuspend DEF GiveUp, BatchInv, BatchTypeOK

LEMMA CountsMishap == BatchTypeOK /\ Mishap => mishaps' \in 0..MaxMishaps
BY ToolBatchAssumption DEF BatchTypeOK, Mishap, ToolBatchAssumption

LEMMA KeepsDie == BatchInv /\ Die => BatchInv'
<1> SUFFICES ASSUME BatchInv, Die PROVE BatchInv'
  OBVIOUS
<1>1. mishaps' \in 0..MaxMishaps
  BY CountsMishap DEF Die, BatchInv
<1>2. CASE ~open
  <2>1. UNCHANGED <<durable, callVars>> /\ UNCHANGED <<catalog, changes>>
    BY <1>2 DEF Die
  <2>2. BatchTypeOK'
    BY <1>1, <2>1 DEF BatchInv, BatchTypeOK, callVars, Calls
  <2> QED
    BY <2>1, <2>2, SameBatch
<1>3. CASE open /\ durable
  BY <1>1, <1>3, KeepsSuspend DEF Die
<1>4. CASE open /\ ~durable
  BY <1>1, <1>4, KeepsForget DEF Die
<1> QED
  BY <1>2, <1>3, <1>4

LEMMA KeepsReopen == BatchInv /\ Reopen => BatchInv'
<1> SUFFICES ASSUME BatchInv, Reopen PROVE BatchInv'
  OBVIOUS
<1>1. Calls' = Calls /\ ~open /\ open' /\ stuck' = stuck /\ durable' = durable
  BY DEF Reopen, Calls
<1>2. UNCHANGED <<status, attempts, returned, result>> /\ InBatch
  BY DEF Reopen
<1>3. durable
  BY <1>1, <1>2 DEF BatchInv, Attended
<1>4. BatchTypeOK'
  BY <1>1, <1>2 DEF Reopen, BatchInv, BatchTypeOK
<1>5. \A i \in Calls : ~(Active(i)')
  BY <1>1, <1>2 DEF BatchInv, Attended, Active
<1>6. Counted'
  BY <1>1, <1>2, <1>3 DEF BatchInv, Counted
<1>7. ReportsAreTrue'
  BY <1>1, <1>2, <1>3 DEF BatchInv, ReportsAreTrue, Done
<1> QED
  BY <1>1, <1>3, <1>4, <1>5, <1>6, <1>7 DEF BatchInv, Attended, InOrder, ExclusiveLast, PanicsAreOver

\* While a process is at work the groups do not change.
Grouped == calls' = calls /\ frozen' = frozen /\ durable' = durable /\ open' = open

LEMMA SameGroups ==
  ASSUME Grouped
  PROVE  /\ Calls' = Calls
         /\ \A i \in Calls : GroupOf(i)' = GroupOf(i) /\ IsSerial(i)' = IsSerial(i)
         /\ \A i \in Calls : LostWith(i)' = LostWith(i)
BY DEF Grouped, Calls, GroupOf, IsSerial, LostWith, Group

\* A step that gives call i status s and leaves the other calls alone.
Moves(i, s) ==
  /\ Grouped
  /\ status' = [status EXCEPT ![i] = s]

\* Whoever starts does so in turn.
LEMMA KeepsOrder ==
  ASSUME BatchInv, NEW i \in Calls, NEW s, Moves(i, s),
         s \in {"running", "backoff"} => MayStart(i) \/ Active(i),
         status[i] # "answered"
  PROVE  InOrder' /\ ExclusiveLast'
<1>1. \A a \in Calls : status'[a] = IF a = i THEN s ELSE status[a]
  BY DEF Moves, BatchInv, BatchTypeOK
<1>2. \A a \in Calls : status[a] = "answered" => status'[a] = "answered"
  BY <1>1
<1>3. \A a \in Calls : Active(a)' => Active(a) \/ (a = i /\ MayStart(i))
  BY <1>1 DEF Active
<1>4. ASSUME NEW a \in Calls, NEW b \in Calls, IsSerial(a), GroupOf(a) = GroupOf(b),
             b < a, Active(a)'
      PROVE  status'[b] = "answered"
  <2>1. CASE Active(a)
    BY <1>2, <1>4, <2>1 DEF BatchInv, InOrder
  <2>2. CASE a = i /\ MayStart(i)
    BY <1>2, <1>4, <2>2 DEF MayStart, InTurn, Group
  <2> QED
    BY <1>3, <1>4, <2>1, <2>2
<1>5. ASSUME NEW a \in Calls, NEW b \in Calls, durable, Active(a)',
             GroupOf(a) = "exclusive", GroupOf(b) # "exclusive"
      PROVE  status'[b] = "answered"
  <2>1. CASE Active(a)
    BY <1>2, <1>5, <2>1 DEF BatchInv, ExclusiveLast
  <2>2. CASE a = i /\ MayStart(i)
    BY <1>2, <1>5, <2>2 DEF MayStart
  <2> QED
    BY <1>3, <1>5, <2>1, <2>2
<1>6. Calls' = Calls /\ durable' = durable
      /\ \A a \in Calls : IsSerial(a)' = IsSerial(a) /\ GroupOf(a)' = GroupOf(a)
  BY SameGroups DEF Moves, Grouped
<1> QED
  BY <1>4, <1>5, <1>6 DEF InOrder, ExclusiveLast

\* What a step may answer: nothing new, a success of the tool, what somebody vouched
\* for, or an error of its own or of the group it is lost with.
LEMMA KeepsReports ==
  ASSUME BatchInv, Grouped,
         ~durable => \A a \in Calls : returned[a] = "panic" => returned'[a] = "panic",
         \A a \in Calls : Done(a)' =>
           \/ Done(a) /\ result'[a] = result[a] /\ returned'[a] = returned[a]
           \/ result'[a] = "ok" /\ returned'[a] = "ok"
           \/ result'[a] \in {"ok", "error"} /\ returned'[a] = "resolved"
           \/ /\ result'[a] = "error"
              /\ returned'[a] = "ok" =>
                   ~durable /\ IsSerial(a) /\ \E j \in LostWith(a) : returned'[j] = "panic"
  PROVE  ReportsAreTrue'
<1>1. SUFFICES ASSUME NEW a \in Calls, Done(a)'
               PROVE  /\ result'[a] = "ok" => returned'[a] \in {"ok", "resolved"}
                      /\ result'[a] = "error" /\ returned'[a] = "ok" =>
                           ~durable /\ IsSerial(a) /\ \E j \in LostWith(a) : returned'[j] = "panic"
                      /\ result'[a] # "none"
  <2>1. /\ Calls' = Calls /\ durable' = durable
        /\ \A a \in Calls : IsSerial(a)' = IsSerial(a) /\ LostWith(a)' = LostWith(a)
    BY SameGroups DEF Grouped
  <2> QED
    BY <2>1 DEF ReportsAreTrue, GroupPanicked
<1>2. \A j \in LostWith(a) : j \in Calls
  BY DEF LostWith, Group
<1>3. Done(a) =>
        /\ result[a] = "ok" => returned[a] \in {"ok", "resolved"}
        /\ result[a] = "error" /\ returned[a] = "ok" =>
             ~durable /\ IsSerial(a) /\ \E j \in LostWith(a) : returned[j] = "panic"
        /\ result[a] # "none"
  BY DEF BatchInv, ReportsAreTrue, GroupPanicked
<1> QED
  BY <1>1, <1>2, <1>3

LEMMA KeepsAttended ==
  ASSUME BatchInv, NEW i \in Calls, NEW s, Moves(i, s), open,
         ~durable => stuck' = stuck /\ s \in {"queued", "running", "backoff", "answered"}
  PROVE  Attended'
<1>1. \A a \in Calls : status'[a] = IF a = i THEN s ELSE status[a]
  BY DEF Moves, BatchInv, BatchTypeOK
<1>2. Calls' = Calls /\ calls' = calls /\ durable' = durable /\ open'
  BY SameGroups DEF Moves, Grouped
<1> QED
  BY <1>1, <1>2 DEF BatchInv, Attended, InBatch

LEMMA KeepsStart == ASSUME BatchInv, NEW i \in Calls, Start(i) PROVE BatchInv'
<1>1. Moves(i, "running") /\ status[i] \in {"queued", "started"} /\ i \notin stuck /\ open
  BY DEF Start, MayStart, Waiting, Moves, Grouped, Becomes
<1>2. BatchTypeOK'
  <2>1. attempts[i] + 1 \in 0..MaxAttempts
    BY <1>1, ToolBatchAssumption DEF BatchInv, Counted, ToolBatchAssumption
  <2>2. attempts' \in [Calls -> 0..MaxAttempts]
    BY <2>1 DEF Start, BatchInv, BatchTypeOK
  <2>3. status' \in [Calls -> Status]
    BY DEF Start, Becomes, BatchInv, BatchTypeOK, Status
  <2> QED
    BY <2>2, <2>3 DEF Start, BatchInv, BatchTypeOK, Calls
<1>3. Counted'
  <2>1. \A a \in Calls :
          /\ status'[a] = IF a = i THEN "running" ELSE status[a]
          /\ a # i => attempts'[a] = attempts[a] /\ returned'[a] = returned[a]
    BY <1>1 DEF Moves, BatchInv, BatchTypeOK, Start
  <2>2. stuck' = stuck /\ open' /\ durable' = durable /\ Calls' = Calls
    BY <1>1, SameGroups DEF Moves, Grouped, Start
  <2> QED
    BY <1>1, <2>1, <2>2 DEF BatchInv, Counted
<1>4. InOrder' /\ ExclusiveLast'
  BY <1>1, KeepsOrder DEF Start
<1>5. PanicsAreOver'
  <2>1. \A a \in Calls :
          /\ status'[a] = IF a = i THEN "running" ELSE status[a]
          /\ returned'[a] = returned[a]
    BY <1>1 DEF Moves, BatchInv, BatchTypeOK, Start
  <2>2. durable' = durable /\ Calls' = Calls
    BY <1>1, SameGroups DEF Moves, Grouped
  <2> QED
    BY <1>1, <2>1, <2>2 DEF BatchInv, PanicsAreOver
<1>6. ReportsAreTrue'
  BY <1>1, KeepsReports DEF Moves, BatchInv, BatchTypeOK, Start, Done
<1>7. Attended'
  BY <1>1, KeepsAttended DEF Start
<1> QED
  BY <1>2, <1>3, <1>4, <1>5, <1>6, <1>7 DEF BatchInv

LEMMA KeepsDoubt == ASSUME BatchInv, NEW i \in Calls, Doubt(i) PROVE BatchInv'
<1>1. Moves(i, "unknown") /\ status[i] = "started" /\ i \notin stuck /\ open
  BY DEF Doubt, MayStart, Waiting, Moves, Grouped, Becomes
<1>2. durable
  BY <1>1 DEF BatchInv, Attended
<1>3. BatchTypeOK'
  <2>1. status' \in [Calls -> Status]
    BY DEF Doubt, Becomes, BatchInv, BatchTypeOK, Status
  <2> QED
    BY <2>1 DEF Doubt, BatchInv, BatchTypeOK, Calls
<1>4. Counted'
  <2>1. \A a \in Calls :
          /\ status'[a] = IF a = i THEN "unknown" ELSE status[a]
          /\ a # i => attempts'[a] = attempts[a] /\ returned'[a] = returned[a]
    BY <1>1 DEF Moves, BatchInv, BatchTypeOK, Doubt
  <2>2. stuck' = stuck /\ open' /\ durable' = durable /\ Calls' = Calls
    BY <1>1, SameGroups DEF Moves, Grouped, Doubt
  <2> QED
    BY <1>1, <2>1, <2>2 DEF BatchInv, Counted
<1>5. InOrder' /\ ExclusiveLast'
  BY <1>1, KeepsOrder
<1>6. ReportsAreTrue'
  BY <1>1, KeepsReports DEF Moves, BatchInv, BatchTypeOK, Doubt, Done
<1>7. Attended'
  BY <1>1, <1>2, KeepsAttended
<1>8. PanicsAreOver'
  BY <1>1, <1>2 DEF PanicsAreOver, Moves, Grouped
<1> QED
  BY <1>3, <1>4, <1>5, <1>6, <1>7, <1>8 DEF BatchInv

LEMMA KeepsFetch == ASSUME BatchInv, NEW i \in Calls, Fetch(i) PROVE BatchInv'
<1>1. Moves(i, "answered") /\ status[i] = "saved" /\ i \notin stuck /\ open
  BY DEF Fetch, MayStart, Waiting, Moves, Grouped, Becomes
<1>2. durable
  BY <1>1 DEF BatchInv, Attended
<1>3. BatchTypeOK'
  <2>1. status' \in [Calls -> Status]
    BY DEF Fetch, Becomes, BatchInv, BatchTypeOK, Status
  <2> QED
    BY <2>1 DEF Fetch, BatchInv, BatchTypeOK, Calls
<1>4. Counted'
  <2>1. \A a \in Calls :
          /\ status'[a] = IF a = i THEN "answered" ELSE status[a]
          /\ a # i => attempts'[a] = attempts[a] /\ returned'[a] = returned[a]
    BY <1>1 DEF Moves, BatchInv, BatchTypeOK, Fetch
  <2>2. stuck' = stuck /\ open' /\ durable' = durable /\ Calls' = Calls
    BY <1>1, SameGroups DEF Moves, Grouped, Fetch
  <2> QED
    BY <1>1, <2>1, <2>2 DEF BatchInv, Counted
<1>5. InOrder' /\ ExclusiveLast'
  BY <1>1, KeepsOrder
<1>6. ReportsAreTrue'
  BY <1>1, KeepsReports DEF Moves, BatchInv, BatchTypeOK, Fetch, Done
<1>7. Attended'
  BY <1>1, <1>2, KeepsAttended
<1>8. PanicsAreOver'
  BY <1>1, <1>2 DEF PanicsAreOver, Moves, Grouped
<1> QED
  BY <1>3, <1>4, <1>5, <1>6, <1>7, <1>8 DEF BatchInv

\* A durable batch is stopped by an unknown tool ...
LEMMA KeepsStop == ASSUME BatchInv, NEW i \in Calls, Unknown(i), durable PROVE BatchInv'
<1>1. /\ Grouped /\ open
      /\ UNCHANGED <<status, attempts, returned, result, mishaps, catalog, changes>>
      /\ stuck' = stuck \union {i}
  BY DEF Unknown, MayStart, Waiting, Grouped
<1>2. BatchTypeOK'
  BY <1>1 DEF Grouped, BatchInv, BatchTypeOK, Calls
<1>3. Calls' = Calls /\ durable' = durable /\ open' = open
      /\ \A a \in Calls : IsSerial(a)' = IsSerial(a) /\ GroupOf(a)' = GroupOf(a)
                          /\ LostWith(a)' = LostWith(a)
  BY <1>1, SameGroups DEF Grouped
<1>4. Counted'
  BY <1>1, <1>3 DEF BatchInv, Counted
<1>5. InOrder' /\ ExclusiveLast'
  BY <1>1, <1>3 DEF BatchInv, InOrder, ExclusiveLast, Active
<1>6. ReportsAreTrue'
  BY <1>1, <1>3 DEF BatchInv, ReportsAreTrue, Done, GroupPanicked
<1>7. Attended' /\ PanicsAreOver'
  BY <1>1, <1>3 DEF Attended, PanicsAreOver
<1> QED
  BY <1>2, <1>4, <1>5, <1>6, <1>7 DEF BatchInv

\* ... and another one answers for it.
LEMMA KeepsUnknown == ASSUME BatchInv, NEW i \in Calls, Unknown(i), ~durable PROVE BatchInv'
<1>1. Moves(i, "answered") /\ open /\ stuck' = stuck
  BY DEF Unknown, MayStart, Waiting, Moves, Grouped, Answer, Becomes
<1>2. status[i] = "queued"
  BY DEF Unknown, MayStart, Waiting, BatchInv, Attended
<1>3. result' = [result EXCEPT ![i] = "error"] /\ UNCHANGED <<attempts, returned, mishaps, catalog, changes>>
  BY DEF Unknown, Answer
<1>4. BatchTypeOK'
  <2>1. status' \in [Calls -> Status]
    BY <1>1 DEF Moves, BatchInv, BatchTypeOK, Status
  <2> QED
    BY <1>1, <1>3, <2>1 DEF Moves, Grouped, BatchInv, BatchTypeOK, Calls
<1>5. Counted'
  BY <1>1, <1>2, <1>3, SameGroups DEF Moves, Grouped, BatchInv, BatchTypeOK, Counted
<1>6. InOrder' /\ ExclusiveLast'
  BY <1>1, <1>2, KeepsOrder
<1>7. PanicsAreOver'
  BY <1>1, <1>3, SameGroups DEF Moves, Grouped, BatchInv, BatchTypeOK, PanicsAreOver
<1>8. ReportsAreTrue'
  <2>1. returned[i] = "none"
    BY <1>2 DEF BatchInv, Counted
  <2> QED
    BY <1>1, <1>3, <2>1, KeepsReports DEF Moves, BatchInv, BatchTypeOK, Done
<1>9. Attended'
  BY <1>1, KeepsAttended
<1> QED
  BY <1>4, <1>5, <1>6, <1>7, <1>8, <1>9 DEF BatchInv

LEMMA KeepsReturn == ASSUME BatchInv, NEW i \in Calls, Return(i) PROVE BatchInv'
<1>1. PICK out \in {"ok", "fatal", "retryable"} :
        /\ returned' = [returned EXCEPT ![i] = out]
        /\ \/ /\ attempts[i] < MaxAttempts
              /\ Moves(i, "backoff")
              /\ result' = result
           \/ /\ durable
              /\ Moves(i, "unknown")
              /\ result' = result
           \/ /\ Moves(i, "answered")
              /\ result' = [result EXCEPT ![i] = IF out = "ok" THEN "ok" ELSE "error"]
  BY DEF Return, Moves, Grouped, Answer, Becomes
<1>2. /\ status[i] = "running" /\ Active(i) /\ open
      /\ UNCHANGED <<attempts, catalog, changes, stuck, mishaps>>
  BY DEF Return, Active, BatchInv, Attended
<1>3. PICK s \in {"backoff", "unknown", "answered"} :
        /\ Moves(i, s)
        /\ s = "backoff" => attempts[i] < MaxAttempts
        /\ s = "unknown" => durable
        /\ s = "answered" => result' = [result EXCEPT ![i] = IF out = "ok" THEN "ok" ELSE "error"]
        /\ s # "answered" => result' = result
  BY <1>1
<1>4. BatchTypeOK'
  <2>1. status' \in [Calls -> Status]
    BY <1>3 DEF Moves, BatchInv, BatchTypeOK, Status
  <2>2. result' \in [Calls -> {"none", "ok", "error"}]
    BY <1>3 DEF BatchInv, BatchTypeOK
  <2> QED
    BY <1>1, <1>2, <1>3, <2>1, <2>2 DEF Moves, Grouped, BatchInv, BatchTypeOK, Calls
<1>5. \A a \in Calls : /\ status'[a] = IF a = i THEN s ELSE status[a]
                       /\ returned'[a] = IF a = i THEN out ELSE returned[a]
                       /\ a # i => result'[a] = result[a]
  BY <1>1, <1>3 DEF Moves, BatchInv, BatchTypeOK
<1>6. Counted'
  BY <1>2, <1>3, <1>5, SameGroups DEF Moves, Grouped, BatchInv, Counted
<1>7. InOrder' /\ ExclusiveLast'
  BY <1>2, <1>3, KeepsOrder
<1>8. ~durable => \A a \in Calls : returned[a] = "panic" => a # i
  BY <1>2 DEF BatchInv, PanicsAreOver
<1>9. PanicsAreOver'
  BY <1>1, <1>3, <1>5, <1>8, SameGroups DEF Moves, Grouped, BatchInv, PanicsAreOver
<1>10. ReportsAreTrue'
  <2>1. s = "answered" => result'[i] = IF out = "ok" THEN "ok" ELSE "error"
    BY <1>3 DEF BatchInv, BatchTypeOK
  <2>2. ~durable => \A a \in Calls : returned[a] = "panic" => returned'[a] = "panic"
    BY <1>5, <1>8
  <2>3. ASSUME NEW a \in Calls, Done(a)'
        PROVE  \/ Done(a) /\ result'[a] = result[a] /\ returned'[a] = returned[a]
               \/ result'[a] = "ok" /\ returned'[a] = "ok"
               \/ result'[a] = "error" /\ returned'[a] # "ok"
    BY <1>1, <1>3, <1>5, <2>1, <2>3 DEF Done
  <2> QED
    BY <1>3, <2>2, <2>3, KeepsReports DEF Moves
<1>11. Attended'
  BY <1>2, <1>3, KeepsAttended
<1> QED
  BY <1>4, <1>6, <1>7, <1>9, <1>10, <1>11 DEF BatchInv

LEMMA KeepsRetry == ASSUME BatchInv, NEW i \in Calls, Retry(i) PROVE BatchInv'
<1>1. Moves(i, "running") /\ status[i] = "backoff" /\ Active(i) /\ open /\ stuck' = stuck
  BY DEF Retry, Moves, Grouped, Becomes, Active, BatchInv, Attended
<1>2. BatchTypeOK'
  <2>1. attempts[i] + 1 \in 0..MaxAttempts
    BY <1>1, ToolBatchAssumption DEF BatchInv, BatchTypeOK, Counted, ToolBatchAssumption
  <2>2. attempts' \in [Calls -> 0..MaxAttempts]
    BY <2>1 DEF Retry, BatchInv, BatchTypeOK
  <2>3. status' \in [Calls -> Status]
    BY <1>1 DEF Moves, BatchInv, BatchTypeOK, Status
  <2> QED
    BY <2>2, <2>3 DEF Retry, BatchInv, BatchTypeOK, Calls
<1>3. Counted'
  <2>1. \A a \in Calls :
          /\ status'[a] = IF a = i THEN "running" ELSE status[a]
          /\ a # i => attempts'[a] = attempts[a] /\ returned'[a] = returned[a]
    BY <1>1 DEF Moves, BatchInv, BatchTypeOK, Retry
  <2>2. stuck' = stuck /\ open' /\ durable' = durable /\ Calls' = Calls
    BY <1>1, SameGroups DEF Moves, Grouped, Retry
  <2> QED
    BY <1>1, <2>1, <2>2 DEF BatchInv, Counted
<1>4. InOrder' /\ ExclusiveLast'
  BY <1>1, KeepsOrder
<1>5. PanicsAreOver'
  <2>1. \A a \in Calls :
          /\ status'[a] = IF a = i THEN "running" ELSE status[a]
          /\ returned'[a] = returned[a]
    BY <1>1 DEF Moves, BatchInv, BatchTypeOK, Retry
  <2>2. durable' = durable /\ Calls' = Calls
    BY <1>1, SameGroups DEF Moves, Grouped
  <2> QED
    BY <1>1, <2>1, <2>2 DEF BatchInv, PanicsAreOver
<1>6. ReportsAreTrue'
  BY <1>1, KeepsReports DEF Moves, BatchInv, BatchTypeOK, Retry, Done
<1>7. Attended'
  BY <1>1, KeepsAttended
<1> QED
  BY <1>2, <1>3, <1>4, <1>5, <1>6, <1>7 DEF BatchInv

\* A panic answers the calls lost with it, and they are answered together.
LEMMA KeepsPanic == ASSUME BatchInv, NEW i \in Calls, Panic(i) PROVE BatchInv'
<1>1. /\ Grouped /\ status[i] = "running" /\ i \in LostWith(i)
      /\ ~durable /\ UNCHANGED <<attempts, stuck, mishaps, catalog, changes>>
  BY DEF Panic, Grouped, LostWith, Group
<1>2. \A a \in Calls :
        /\ status'[a] = IF a \in LostWith(i) THEN "answered" ELSE status[a]
        /\ result'[a] = IF a \in LostWith(i) THEN "error" ELSE result[a]
        /\ returned'[a] = IF a = i THEN "panic" ELSE returned[a]
  BY DEF Panic, BatchInv, BatchTypeOK
<1>3. BatchTypeOK'
  <2>1. status' \in [Calls -> Status]
    BY DEF Panic, BatchInv, BatchTypeOK, Status
  <2> QED
    BY <2>1 DEF Panic, BatchInv, BatchTypeOK, Calls
<1>4. Counted'
  BY <1>1, <1>2, SameGroups DEF Grouped, BatchInv, Counted
<1>5. InOrder' /\ ExclusiveLast'
  <2>1. SUFFICES ASSUME NEW a \in Calls, NEW b \in Calls, IsSerial(a), GroupOf(a) = GroupOf(b),
                        b < a, Active(a)'
                 PROVE  status'[b] = "answered"
    BY <1>1, SameGroups DEF InOrder, ExclusiveLast, Grouped
  <2> QED
    BY <1>2, <2>1 DEF BatchInv, InOrder, Active
<1>6. PanicsAreOver'
  BY <1>1, <1>2, SameGroups DEF BatchInv, PanicsAreOver
<1>7. ReportsAreTrue'
  <2>1. \A a \in LostWith(i) : a = i \/ (IsSerial(a) /\ i \in LostWith(a))
    BY DEF LostWith, Group, IsSerial
  <2>2. \A a \in Calls : returned[a] = "panic" => returned'[a] = "panic"
    BY <1>2
  <2>3. ASSUME NEW a \in Calls, Done(a)'
        PROVE  \/ Done(a) /\ result'[a] = result[a] /\ returned'[a] = returned[a]
               \/ /\ result'[a] = "error"
                  /\ returned'[a] = "ok" =>
                       IsSerial(a) /\ \E j \in LostWith(a) : returned'[j] = "panic"
    BY <1>1, <1>2, <2>1, <2>3 DEF Done
  <2> QED
    BY <1>1, <2>2, <2>3, KeepsReports
<1>8. Attended'
  <2>1. open /\ Calls' = Calls /\ calls' = calls /\ durable' = durable /\ open' = open
    BY <1>1, SameGroups DEF Grouped, BatchInv, Attended, Active
  <2> QED
    BY <1>1, <1>2, <2>1 DEF BatchInv, Attended, InBatch
<1> QED
  BY <1>3, <1>4, <1>5, <1>6, <1>7, <1>8 DEF BatchInv

LEMMA KeepsCaught == ASSUME BatchInv, NEW i \in Calls, Caught(i) PROVE BatchInv'
<1>1. PICK s \in {"unknown", "started"} :
        /\ Moves(i, s)
        /\ s = "started" => stuck' = stuck \union {i}
        /\ s = "unknown" => stuck' = stuck
  BY DEF Caught, Moves, Grouped, Becomes
<1>2. /\ status[i] = "running" /\ Active(i) /\ durable /\ open
      /\ UNCHANGED <<attempts, result, catalog, changes>>
      /\ returned' = [returned EXCEPT ![i] = "panic"]
  BY DEF Caught, Active, BatchInv, Attended
<1>3. BatchTypeOK'
  <2>1. mishaps' \in 0..MaxMishaps
    BY CountsMishap DEF Caught, BatchInv
  <2>2. status' \in [Calls -> Status]
    BY <1>1 DEF Moves, BatchInv, BatchTypeOK, Status
  <2> QED
    BY <1>1, <1>2, <2>1, <2>2 DEF Moves, Grouped, BatchInv, BatchTypeOK, Calls
<1>4. \A a \in Calls : /\ status'[a] = IF a = i THEN s ELSE status[a]
                       /\ returned'[a] = IF a = i THEN "panic" ELSE returned[a]
  BY <1>1, <1>2 DEF Moves, BatchInv, BatchTypeOK
<1>5. Counted'
  BY <1>1, <1>2, <1>4, SameGroups DEF Moves, Grouped, BatchInv, Counted
<1>6. InOrder' /\ ExclusiveLast'
  BY <1>1, <1>2, KeepsOrder
<1>7. ReportsAreTrue'
  BY <1>1, <1>2, <1>4, KeepsReports DEF Moves, Done
<1>8. Attended' /\ PanicsAreOver'
  BY <1>1, <1>2, KeepsAttended DEF PanicsAreOver, Moves, Grouped
<1> QED
  BY <1>3, <1>5, <1>6, <1>7, <1>8 DEF BatchInv

\* Nobody works on a call that is reconciled.
LEMMA KeepsReconcile == ASSUME BatchInv, NEW i \in Calls, Reconcile(i) PROVE BatchInv'
<1>1. PICK s \in {"saved", "queued"} :
        /\ Moves(i, s)
        /\ s = "saved" => /\ \E r \in {"ok", "error"} : result' = [result EXCEPT ![i] = r]
                          /\ returned' = [returned EXCEPT ![i] = "resolved"]
                          /\ mishaps' = mishaps
        /\ s = "queued" => UNCHANGED <<result, returned>> /\ Mishap
  BY DEF Reconcile, Moves, Grouped, Becomes, Answer
<1>2. /\ ~open /\ InBatch /\ status[i] \in {"started", "unknown"}
      /\ UNCHANGED <<attempts, stuck, catalog, changes>>
  BY DEF Reconcile
<1>3. durable
  BY <1>2 DEF BatchInv, Attended
<1>4. BatchTypeOK'
  <2>1. mishaps' \in 0..MaxMishaps
    BY <1>1, CountsMishap DEF BatchInv, BatchTypeOK
  <2>2. status' \in [Calls -> Status]
    BY <1>1 DEF Moves, BatchInv, BatchTypeOK, Status
  <2>3. result' \in [Calls -> {"none", "ok", "error"}]
    BY <1>1 DEF BatchInv, BatchTypeOK
  <2>4. returned' \in [Calls -> {"none", "ok", "fatal", "retryable", "panic", "resolved"}]
    BY <1>1 DEF BatchInv, BatchTypeOK
  <2> QED
    BY <1>1, <1>2, <2>1, <2>2, <2>3, <2>4 DEF Moves, Grouped, BatchInv, BatchTypeOK, Calls
<1>5. \A a \in Calls : status'[a] = IF a = i THEN s ELSE status[a]
  BY <1>1 DEF Moves, BatchInv, BatchTypeOK
<1>6. \A a \in Calls : ~(Active(a)') /\ ~Active(a)
  BY <1>1, <1>2, <1>5 DEF BatchInv, Attended, Active
<1>7. Calls' = Calls /\ durable' = durable /\ open' = open
  BY <1>1, SameGroups DEF Moves, Grouped
<1>8. Counted'
  BY <1>2, <1>3, <1>6, <1>7 DEF BatchInv, Counted, Active
<1>9. ReportsAreTrue'
  <2>1. ASSUME NEW a \in Calls, Done(a)'
        PROVE  \/ Done(a) /\ result'[a] = result[a] /\ returned'[a] = returned[a]
               \/ result'[a] \in {"ok", "error"} /\ returned'[a] = "resolved"
    <3>1. CASE s = "saved" /\ a = i
      BY <1>1, <3>1 DEF BatchInv, BatchTypeOK
    <3>2. CASE a # i
      BY <1>1, <1>5, <2>1, <3>2 DEF BatchInv, BatchTypeOK, Done
    <3> QED
      BY <1>1, <1>5, <2>1, <3>1, <3>2 DEF Done
  <2> QED
    BY <1>1, <1>3, <2>1, KeepsReports DEF Moves
<1>10. Attended' /\ PanicsAreOver'
  BY <1>2, <1>3, <1>6, <1>7 DEF BatchInv, Attended, PanicsAreOver
<1>11. InOrder' /\ ExclusiveLast'
  BY <1>6, <1>7 DEF InOrder, ExclusiveLast
<1> QED
  BY <1>4, <1>8, <1>9, <1>10, <1>11 DEF BatchInv

LEMMA BatchStep == BatchInv /\ [BatchNext]_batchVars => BatchInv'
<1> SUFFICES ASSUME BatchInv, [BatchNext]_batchVars PROVE BatchInv'
  OBVIOUS
<1>1. CASE UNCHANGED batchVars
  <2>1. UNCHANGED <<durable, callVars>> /\ UNCHANGED <<mishaps, catalog, changes>>
    BY <1>1 DEF batchVars
  <2>2. BatchTypeOK'
    BY <2>1 DEF BatchInv, BatchTypeOK, callVars, Calls
  <2> QED
    BY <2>1, <2>2, SameBatch
<1>2. CASE CatalogChange
  BY <1>2, KeepsChange
<1>3. CASE \E cs \in CallLists : Begin(cs)
  BY <1>3, KeepsBegin
<1>4. CASE \E i \in Calls : CallStep(i)
  BY <1>4, KeepsStart, KeepsDoubt, KeepsFetch, KeepsStop, KeepsUnknown, KeepsReturn, KeepsRetry,
     KeepsPanic, KeepsCaught DEF CallStep
<1>5. CASE \E i \in Calls : Reconcile(i)
  BY <1>5, KeepsReconcile
<1>6. CASE Reopen \/ Collect \/ GiveUp \/ Die
  BY <1>6, KeepsReopen, KeepsCollect, KeepsGiveUp, KeepsDie
<1> QED
  BY <1>1, <1>2, <1>3, <1>4, <1>5, <1>6 DEF BatchNext

\* The batch's invariant, its types among it.
THEOREM BatchInvariance == BatchSpec => []BatchInv
BY BatchInitially, BatchStep, PTL DEF BatchSpec

LEMMA InvIsOneAtATime == BatchInv => OneAtATime
<1> SUFFICES ASSUME BatchInv, NEW i \in Calls, NEW j \in Calls, i # j, Active(i), Active(j)
             PROVE  /\ GroupOf(i) = GroupOf(j) => ~IsSerial(i)
                    /\ durable => GroupOf(i) # "exclusive"
  BY DEF OneAtATime
<1>1. i \in Int /\ j \in Int
  <2>1. CASE calls = <<>>
    BY <2>1 DEF Calls
  <2>2. CASE calls \in CallLists
    BY <2>2, CallListType DEF Calls
  <2> QED
    BY <2>1, <2>2 DEF BatchInv, BatchTypeOK
<1>2. GroupOf(i) = GroupOf(j) => ~IsSerial(i)
  <2> SUFFICES ASSUME GroupOf(i) = GroupOf(j), IsSerial(i) PROVE FALSE
    OBVIOUS
  <2>1. IsSerial(j)
    BY DEF IsSerial
  <2>2. CASE i < j
    BY <2>1, <2>2 DEF BatchInv, InOrder, Active
  <2>3. CASE j < i
    BY <2>3 DEF BatchInv, InOrder, Active
  <2> QED
    BY <1>1, <2>2, <2>3
<1>3. durable => GroupOf(i) # "exclusive"
  <2> SUFFICES ASSUME durable, GroupOf(i) = "exclusive" PROVE FALSE
    OBVIOUS
  <2>1. IsSerial(i)
    BY DEF IsSerial
  <2>2. GroupOf(j) # "exclusive"
    BY <1>2, <2>1
  <2> QED
    BY <2>2 DEF BatchInv, ExclusiveLast, Active
<1> QED
  BY <1>2, <1>3

-----------------------------------------------------------------------------
(* The loop                                                                  *)

\* The loop uses the executor as ToolBatch describes it: it begins no batch before the
\* last is collected, touches none while it runs, and takes up what a restart has left.
LEMMA LoopBatchStep ==
  ASSUME response \in CallLists \union {<<>>}, node = "tool" => response # <<>>,
         [Next]_vars
  PROVE  [BatchNext]_batchVars
<1>1. CASE UNCHANGED vars
  BY <1>1 DEF vars
<1>2. CASE ToolBegin
  BY <1>2 DEF ToolBegin, Enter, BatchNext
<1>3. CASE ToolStep
  BY <1>3 DEF ToolStep, BatchNext
<1>4. CASE ToolEnd
  BY <1>4 DEF ToolEnd, BatchNext
<1>9. CASE ToolFails \/ Restore \/ Resolve
  BY <1>9 DEF ToolFails, Restore, Resolve, BatchNext
<1>5. CASE ToolsChange
  BY <1>5 DEF ToolsChange, BatchNext
<1>6. CASE UNCHANGED batchVars
  BY <1>6
<1>7. LoopStep => ToolBegin \/ ToolStep \/ ToolEnd \/ ToolFails \/ UNCHANGED batchVars
  BY Zenon DEF LoopStep, Prepare, StepsRunOut, BudgetCheck, Compactor, AskLlm, OpenFails, Opened,
     StreamFails, StreamEnds, PostLlmCheck, Finish
<1>8. Token \/ Receive \/ Leave => UNCHANGED batchVars
  BY DEF Token, Receive, Leave
<1> QED
  BY <1>1, <1>2, <1>3, <1>4, <1>5, <1>6, <1>7, <1>8, <1>9 DEF Next

\* Where the next round still may begin.
MayAsk == {"start", "budget_check", "compactor", "llm", "opening", "streaming", "tool", "batch"}

\* The rounds so far, and what the run says of them.
RoundsCounted ==
  /\ iterations \in 0..MaxIterations
  /\ node \in MayAsk => iterations < MaxIterations
  /\ node # "finished" => outcome = "running"
  /\ outcome = "MaxIterationsReached" => iterations = MaxIterations
  /\ outcome \in {"Complete", "LlmFailed"} => iterations < MaxIterations

\* The calls of the response are on their way to the executor.
Pending ==
  /\ response \in CallLists \union {<<>>}
  /\ node \in {"tool", "batch"} => response # <<>>

\* Tokens are passed on from the stream that is open, and from none before it.
OneSpeaker ==
  /\ speakers \subseteq {opens}
  /\ node = "opening" => speakers = {}

LoopInv == RoundsCounted /\ Pending /\ OneSpeaker

LEMMA LoopInitially == Init => LoopInv
BY AgentLoopAssumption
DEF Init, LoopInv, RoundsCounted, Pending, OneSpeaker, MayAsk, AgentLoopAssumption

LEMMA LoopStepKeeps == LoopInv /\ [Next]_vars => LoopInv'
<1> SUFFICES ASSUME LoopInv, [Next]_vars PROVE LoopInv'
  OBVIOUS
<1> USE AgentLoopAssumption
    DEF LoopInv, RoundsCounted, Pending, OneSpeaker, MayAsk, AgentLoopAssumption
<1>1. CASE UNCHANGED loopVars
  BY <1>1 DEF loopVars
<1>2. CASE StepsRunOut
  BY <1>2 DEF StepsRunOut, End, Nodes
<1>3. CASE BudgetCheck
  BY <1>3 DEF BudgetCheck, Enter
<1>4. CASE Compactor
  BY <1>4 DEF Compactor, Enter
<1>5. CASE AskLlm
  BY <1>5 DEF AskLlm, Enter
<1>6. CASE OpenFails
  BY <1>6 DEF OpenFails, End
<1>7. CASE Opened
  BY <1>7 DEF Opened
<1>8. CASE StreamFails
  BY <1>8 DEF StreamFails, End
<1>9. CASE StreamEnds
  BY <1>9 DEF StreamEnds
<1>10. CASE PostLlmCheck
  BY <1>10 DEF PostLlmCheck, Enter, End
<1>11. CASE ToolBegin
  BY <1>11 DEF ToolBegin, Enter
<1>12. CASE ToolEnd
  BY <1>12 DEF ToolEnd
<1>13. CASE Token
  BY <1>13 DEF Token
<1>17. CASE ToolFails
  BY <1>17 DEF ToolFails
<1>18. CASE Restore
  BY <1>18 DEF Restore, InterruptedNode
<1>16. CASE Prepare
  BY <1>16 DEF Prepare, End
<1>14. ToolStep \/ Finish \/ ToolsChange \/ Receive \/ Leave \/ Resolve => UNCHANGED loopVars
  BY DEF ToolStep, Finish, ToolsChange, Receive, Leave, Resolve
<1>15. UNCHANGED vars => UNCHANGED loopVars
  BY DEF vars
<1> QED
  BY <1>1, <1>2, <1>3, <1>4, <1>5, <1>6, <1>7, <1>8, <1>9, <1>10, <1>11, <1>12, <1>13,
     <1>14, <1>15, <1>16, <1>17, <1>18 DEF Next, LoopStep

\* What the control of the loop keeps, through every restore: the count of rounds, the
\* calls that are pending, the one stream whose tokens are passed on.
THEOREM LoopInvariance == Spec => []LoopInv
BY LoopInitially, LoopStepKeeps, PTL DEF Spec

\* ReAct's use of the executor implements the executor's own specification.
THEOREM LoopRunsBatches == Spec => BatchSpec
<1>1. Init => BatchInit
  BY DEF Init
<1>2. LoopInv /\ [Next]_vars => [BatchNext]_batchVars
  BY LoopBatchStep DEF LoopInv, Pending
<1> QED
  BY <1>1, <1>2, LoopInvariance, PTL DEF Spec, BatchSpec

\* No two calls of one category, and no two exclusive ones, overlap, and in a durable run
\* an exclusive call overlaps none, however many calls a response makes, whatever the
\* tools and the catalogue do and wherever the process dies.
THEOREM CallsTakeTurns == Spec => []OneAtATime
BY LoopRunsBatches, BatchInvariance, InvIsOneAtATime, PTL

\* What the batch reports of each call is what its tool returned or somebody vouched for,
\* but for the calls lost with a panicking one of their serial group.
THEOREM BatchReportsTruly == Spec => []ReportsAreTrue
<1>1. BatchInv => ReportsAreTrue
  BY DEF BatchInv
<1> QED
  BY <1>1, LoopRunsBatches, BatchInvariance, PTL

\* The limit of rounds holds and is named exactly when it ended the run.
THEOREM RoundsAreLimited == Spec => []LimitIsTold
<1>1. LoopInv => LimitIsTold
  BY DEF LoopInv, RoundsCounted, LimitIsTold
<1> QED
  BY <1>1, LoopInvariance, PTL

\* A round never passes on the tokens of two streams.
THEOREM StreamSpeaksOnce == Spec => []TokensOnce
<1>1. LoopInv => TokensOnce
  <2> SUFFICES ASSUME LoopInv PROVE Cardinality(speakers) <= 1
    BY DEF TokensOnce
  <2>1. IsFiniteSet({opens}) /\ Cardinality({opens}) = 1
    BY FS_Singleton
  <2>2. Cardinality(speakers) <= Cardinality({opens})
    BY <2>1, FS_Subset DEF LoopInv, OneSpeaker
  <2> QED
    BY <2>1, <2>2
<1> QED
  BY <1>1, LoopInvariance, PTL

\* A call that has its answer is executed no more, and a durable one keeps the answer.
THEOREM AnswersStay == Spec => AnswersAreFinal
<1> DEFINE Kept(a) == /\ Done(a)' /\ attempts'[a] <= attempts[a]
                      /\ durable => result'[a] = result[a]
<1>1. BatchInv /\ [BatchNext]_batchVars =>
        [InBatch /\ calls' # <<>> => \A i \in Calls : Done(i) => Kept(i)]_batchVars
  <2> SUFFICES ASSUME BatchInv, BatchNext, InBatch, calls' # <<>>, NEW a \in Calls, Done(a)
               PROVE  Kept(a)
    OBVIOUS
  <2>1. attempts[a] \in Nat
    BY ToolBatchAssumption DEF BatchInv, BatchTypeOK, ToolBatchAssumption
  <2>2. UNCHANGED <<status, attempts, result>> => Kept(a)
    BY <2>1 DEF Done
  <2>3. CASE CatalogChange \/ Reopen
    BY <2>2, <2>3 DEF CatalogChange, Reopen, callVars
  <2>4. ~Collect /\ ~Forget /\ ~(\E cs \in CallLists : Begin(cs))
    BY DEF Collect, Forget, Begin
  <2>5. Suspend => Kept(a)
    BY <2>1 DEF Suspend, Left, Done, BatchInv, BatchTypeOK
  <2>6. CASE GiveUp \/ Die
    BY <2>2, <2>4, <2>5, <2>6 DEF GiveUp, Die, callVars
  <2>7. ASSUME NEW i \in Calls, CallStep(i) \/ Reconcile(i)
        PROVE  Kept(a)
    <3> USE DEF BatchInv, BatchTypeOK, Done
    <3>1. CASE Start(i)
      BY <2>1, <3>1 DEF Start, Becomes
    <3>2. CASE Doubt(i)
      BY <2>1, <3>2 DEF Doubt, Becomes
    <3>3. CASE Fetch(i)
      BY <2>1, <3>3 DEF Fetch, Becomes
    <3>4. CASE Unknown(i)
      <4>1. CASE durable
        BY <2>2, <3>4, <4>1 DEF Unknown
      <4>2. CASE ~durable
        BY <2>1, <3>4, <4>2 DEF Unknown, Answer, Becomes
      <4> QED
        BY <4>1, <4>2
    <3>5. CASE Return(i)
      BY <2>1, <3>5 DEF Return, Becomes, Answer
    <3>6. CASE Retry(i)
      BY <2>1, <3>6 DEF Retry, Becomes
    <3>7. CASE Panic(i)
      BY <2>1, <3>7 DEF Panic
    <3>8. CASE Caught(i)
      BY <2>1, <3>8 DEF Caught, Becomes
    <3>9. CASE Reconcile(i)
      BY <2>1, <3>9 DEF Reconcile, Becomes, Answer
    <3> QED
      BY <2>7, <3>1, <3>2, <3>3, <3>4, <3>5, <3>6, <3>7, <3>8, <3>9 DEF CallStep
  <2> QED
    BY <2>3, <2>4, <2>6, <2>7 DEF BatchNext
<1> QED
  BY <1>1, LoopRunsBatches, BatchInvariance, PTL DEF BatchSpec, AnswersAreFinal

-----------------------------------------------------------------------------
(* Selections, as Iterator::filter makes them                                *)

\* Codecs has its own copy of FiniteSets: the counts are the same.
LEMMA SameCardinality == \A S : Wire!Cardinality(S) = Cardinality(S)
BY DEF Cardinality, Wire!Cardinality

\* The place of a position among those of S, which Position inverts.
Rank(S, i) == Cardinality({j \in S : j <= i})

\* The elements of a set of positions have different ranks, in their order.
LEMMA RankFacts ==
  ASSUME NEW N \in Nat, NEW S \in SUBSET (1..N)
  PROVE  /\ IsFiniteSet(S)
         /\ Cardinality(S) \in Nat
         /\ \A i \in S : Rank(S, i) \in 1..Cardinality(S)
         /\ \A i, j \in S : i < j => Rank(S, i) < Rank(S, j)
<1>1. IsFiniteSet(S) /\ Cardinality(S) \in Nat
  <2>1. IsFiniteSet(1..N)
    BY FS_Interval
  <2> QED
    BY <2>1, FS_Subset, FS_CardinalityType
<1>2. \A i \in S : i \in Int
  OBVIOUS
<1>3. ASSUME NEW i \in S
      PROVE  /\ IsFiniteSet({j \in S : j <= i}) /\ Rank(S, i) \in Nat
             /\ Rank(S, i) \in 1..Cardinality(S)
  <2>1. IsFiniteSet({j \in S : j <= i}) /\ Rank(S, i) \in Nat /\ Rank(S, i) <= Cardinality(S)
    BY <1>1, FS_Subset, FS_CardinalityType DEF Rank
  <2>2. i \in {j \in S : j <= i}
    BY <1>2
  <2>3. Rank(S, i) # 0
    BY <2>1, <2>2, FS_EmptySet DEF Rank
  <2> QED
    BY <1>1, <2>1, <2>3
<1>4. ASSUME NEW i \in S, NEW j \in S, i < j
      PROVE  Rank(S, i) < Rank(S, j)
  <2>1. i \in Int /\ j \in Int /\ \A k \in S : k \in Int
    BY <1>2
  <2>2. \A k \in S : k <= i => k <= j
    BY <1>4, <2>1
  <2>3. ~(j <= i) /\ j <= j
    BY <1>4, <2>1
  <2>4. /\ {k \in S : k <= i} \subseteq {k \in S : k <= j}
        /\ j \notin {k \in S : k <= i} /\ j \in {k \in S : k <= j}
    BY <2>2, <2>3
  <2>5. IsFiniteSet({k \in S : k <= j})
    BY <1>3
  <2>6. Rank(S, i) <= Rank(S, j) /\ Rank(S, i) # Rank(S, j)
    BY <2>4, <2>5, FS_Subset DEF Rank
  <2>7. Rank(S, i) \in Nat /\ Rank(S, j) \in Nat
    BY <1>3
  <2> QED
    BY <2>6, <2>7
<1> QED
  BY <1>1, <1>3, <1>4

\* Every rank up to the size of the set is some element's.
LEMMA RankOnto ==
  ASSUME NEW N \in Nat, NEW S \in SUBSET (1..N), NEW k \in 1..Cardinality(S)
  PROVE  \E i \in S : Rank(S, i) = k
<1> DEFINE F == [i \in S |-> Rank(S, i)]
           T == {Rank(S, i) : i \in S}
<1>1. /\ IsFiniteSet(S) /\ Cardinality(S) \in Nat
      /\ \A i \in S : Rank(S, i) \in 1..Cardinality(S)
      /\ \A i, j \in S : i < j => Rank(S, i) < Rank(S, j)
  BY RankFacts
<1>2. \A i, j \in S : Rank(S, i) = Rank(S, j) => i = j
  BY <1>1
<1>3. F \in Bijection(S, T)
  <2>1. F \in [S -> T]
    OBVIOUS
  <2>2. \A i, j \in S : F[i] = F[j] => i = j
    BY <1>2
  <2>3. \A t \in T : \E i \in S : F[i] = t
    OBVIOUS
  <2> QED
    BY <2>1, <2>2, <2>3 DEF Bijection, Injection, Surjection, IsInjective
<1>4. IsFiniteSet(T) /\ Cardinality(T) = Cardinality(S)
  <2> HIDE DEF F, T
  <2> QED
    BY <1>1, <1>3, FS_Bijection DEF ExistsBijection
<1>5. T \subseteq 1..Cardinality(S)
  BY <1>1
<1>6. IsFiniteSet(1..Cardinality(S)) /\ Cardinality(1..Cardinality(S)) = Cardinality(S)
  BY <1>1, FS_Interval
<1>7. T = 1..Cardinality(S)
  <2> HIDE DEF T
  <2> QED
    BY <1>4, <1>5, <1>6, FS_Subset
<1> QED
  BY <1>7

\* Neighbours keep their distance.
LEMMA RankRuns ==
  ASSUME NEW N \in Nat, NEW S \in SUBSET (1..N), NEW i \in S, NEW d \in Nat,
         \A e \in 1..d : i + e \in S
  PROVE  Rank(S, i + d) = Rank(S, i) + d
<1> DEFINE A == {j \in S : j <= i}
           B == (i + 1)..(i + d)
<1>1. i \in Nat /\ i + 1 \in Int /\ i + d \in Int
  OBVIOUS
<1>2. B \subseteq S
  <2> SUFFICES ASSUME NEW b \in B PROVE b \in S
    OBVIOUS
  <2>1. b - i \in 1..d /\ i + (b - i) = b
    BY <1>1
  <2> QED
    BY <2>1
<1>3. {j \in S : j <= i + d} = A \cup B
  <2>1. \A j \in S : j <= i + d <=> j <= i \/ j \in B
    BY <1>1
  <2> QED
    BY <1>2, <2>1
<1>4. A \cap B = {}
  BY <1>1
<1>5. IsFiniteSet(B) /\ Cardinality(B) = d
  <2>1. Cardinality(B) = IF (i + 1) > (i + d) THEN 0 ELSE ((i + d) - (i + 1)) + 1
    BY <1>1, FS_Interval
  <2>2. IsFiniteSet(B)
    BY <1>1, FS_Interval
  <2> HIDE DEF B
  <2> QED
    BY <1>1, <2>1, <2>2
<1>6. IsFiniteSet(A)
  BY RankFacts, FS_Subset
<1> HIDE DEF A, B
<1>7. Cardinality(A \cup B) = Cardinality(A) + Cardinality(B) - Cardinality(A \cap B)
  BY <1>5, <1>6, FS_Union
<1>8. Cardinality(A \cap B) = 0
  BY <1>4, FS_EmptySet
<1>9. Cardinality(A) \in Nat
  BY <1>6, FS_CardinalityType
<1> QED
  BY <1>3, <1>5, <1>7, <1>8, <1>9 DEF Rank, A

\* Position(S, k), which CHOOSE defines, is the inverse of the rank.
LEMMA PositionIs ==
  ASSUME NEW N \in Nat, NEW S \in SUBSET (1..N)
  PROVE  /\ \A k \in 1..Cardinality(S) : Wire!Position(S, k) \in S /\ Rank(S, Wire!Position(S, k)) = k
         /\ \A i \in S : Wire!Position(S, Rank(S, i)) = i
<1>1. ASSUME NEW k \in 1..Cardinality(S)
      PROVE  Wire!Position(S, k) \in S /\ Rank(S, Wire!Position(S, k)) = k
  <2>1. \E i \in S : Rank(S, i) = k
    BY RankOnto
  <2>2. Wire!Position(S, k) = CHOOSE i \in S : Rank(S, i) = k
    BY SameCardinality DEF Rank, Wire!Position
  <2> HIDE DEF Rank
  <2> QED
    BY <2>1, <2>2
<1>2. ASSUME NEW i \in S
      PROVE  Wire!Position(S, Rank(S, i)) = i
  <2>1. Rank(S, i) \in 1..Cardinality(S)
    BY RankFacts
  <2>2. PICK p \in S : p = Wire!Position(S, Rank(S, i)) /\ Rank(S, p) = Rank(S, i)
    BY <1>1, <2>1
  <2>3. \A a, b \in S : a < b => Rank(S, a) < Rank(S, b)
    BY RankFacts
  <2>4. Rank(S, i) \in Int /\ ~(Rank(S, i) < Rank(S, i))
    BY <2>1
  <2>5. ~(p < i) /\ ~(i < p)
    BY <2>2, <2>3, <2>4
  <2>6. p \in Int /\ i \in Int
    OBVIOUS
  <2> QED
    BY <2>2, <2>5, <2>6
<1> QED
  BY <1>1, <1>2

\* A filter of the Rust library gives a sequence of the elements at the positions.
LEMMA OnlyIs ==
  ASSUME NEW T, NEW s \in Seq(T), NEW S \in SUBSET DOMAIN s
  PROVE  /\ Wire!Only(s, S) = [k \in 1..Cardinality(S) |-> s[Wire!Position(S, k)]]
         /\ Wire!Only(s, S) \in Seq(T)
         /\ Len(Wire!Only(s, S)) = Cardinality(S)
         /\ Cardinality(S) \in Nat
         /\ \A k \in 1..Cardinality(S) : Wire!Position(S, k) \in S
<1>1. Len(s) \in Nat /\ S \in SUBSET (1..Len(s))
  OBVIOUS
<1>2. Cardinality(S) \in Nat /\ \A k \in 1..Cardinality(S) : Wire!Position(S, k) \in S
  BY <1>1, RankFacts, PositionIs
<1>3. Wire!Only(s, S) = [k \in 1..Cardinality(S) |-> s[Wire!Position(S, k)]]
  BY SameCardinality DEF Wire!Only
<1>4. \A k \in 1..Cardinality(S) : s[Wire!Position(S, k)] \in T
  <2>1. \A i \in DOMAIN s : s[i] \in T
    BY ElementOfSeq
  <2> QED
    BY <1>2, <2>1
<1>5. Wire!Only(s, S) \in [1..Cardinality(S) -> T]
  BY <1>3, <1>4
<1> QED
  BY <1>2, <1>3, <1>5

\* A selection that begins with the first n positions leaves them where they are.
LEMMA OnlyStarts ==
  ASSUME NEW N \in Nat, NEW S \in SUBSET (1..N), NEW n \in Nat, 1..n \subseteq S
  PROVE  /\ n <= Cardinality(S)
         /\ \A k \in 1..n : Wire!Position(S, k) = k
         /\ \A k \in (n + 1)..Cardinality(S) : Wire!Position(S, k) \notin 1..n
<1>1. ASSUME NEW k \in 1..n
      PROVE  Rank(S, k) = k
  <2>1. {j \in S : j <= k} = 1..k
    <3>1. \A j \in S : j \in Int /\ 1 <= j
      OBVIOUS
    <3>2. \A j \in 1..k : j \in 1..n
      OBVIOUS
    <3>3. \A j \in 1..k : j \in S /\ j <= k
      BY <3>2
    <3>4. \A j \in S : j <= k => j \in 1..k
      BY <3>1
    <3> QED
      BY <3>3, <3>4
  <2>2. k \in Nat /\ ~(1 > k)
    OBVIOUS
  <2>3. Cardinality(1..k) = (k - 1) + 1
    BY <2>2, FS_Interval
  <2>4. (k - 1) + 1 = k
    OBVIOUS
  <2> QED
    BY <2>1, <2>3, <2>4 DEF Rank
<1>2. \A k \in 1..n : Wire!Position(S, k) = k
  BY <1>1, PositionIs
<1>3. n <= Cardinality(S)
  <2>1. CASE n = 0
    <3>1. Cardinality(S) \in Nat
      BY RankFacts
    <3> QED
      BY <2>1, <3>1
  <2>2. CASE n # 0
    <3>1. n \in 1..n /\ n \in S
      BY <2>2
    <3>2. Rank(S, n) \in 1..Cardinality(S) /\ Cardinality(S) \in Nat
      BY <3>1, RankFacts
    <3> QED
      BY <1>1, <3>1, <3>2
  <2> QED
    BY <2>1, <2>2
<1>4. ASSUME NEW k \in (n + 1)..Cardinality(S), Wire!Position(S, k) \in 1..n
      PROVE  FALSE
  <2>1. k \in 1..Cardinality(S)
    BY RankFacts
  <2>2. Rank(S, Wire!Position(S, k)) = k
    BY <2>1, PositionIs
  <2>3. k \in 1..n
    BY <1>1, <1>4, <2>2
  <2> QED
    BY <2>3
<1> QED
  BY <1>2, <1>3, <1>4

-----------------------------------------------------------------------------
(* Selections, compactions and prompts of a history                          *)

\* A selection that leaves out no result and no message with calls.
KeepsTalk(ms, S) ==
  \A i \in DOMAIN ms :
    ms[i].role = "result" \/ (ms[i].role = "assistant" /\ ms[i].n # 0) => i \in S

\* What stands behind a message with calls is selected with it, and as far behind.
LEMMA SelectedBehind ==
  ASSUME NEW ms \in Seq(HistoryMessage), NEW S \in SUBSET DOMAIN ms, KeepsTalk(ms, S),
         NEW j \in S, NEW d \in Nat,
         \A e \in 1..d : j + e \in DOMAIN ms /\ ms[j + e].role = "result"
  PROVE  /\ j + d \in S
         /\ Rank(S, j + d) = Rank(S, j) + d
<1>1. Len(ms) \in Nat /\ S \in SUBSET (1..Len(ms)) /\ j \in Nat
  OBVIOUS
<1>2. \A e \in 1..d : j + e \in S
  BY DEF KeepsTalk
<1>3. j + d \in S
  <2>1. CASE d = 0
    BY <1>1, <2>1
  <2>2. CASE d # 0
    BY <1>2, <2>2
  <2> QED
    BY <2>1, <2>2
<1> QED
  BY <1>1, <1>2, <1>3, RankRuns

\* Such a selection of a paired history is one: the rank of a result's position is as far
\* behind its call's as the position is.
LEMMA OnlyPaired ==
  ASSUME NEW ms \in Seq(HistoryMessage), HistoryPaired(ms), NEW S \in SUBSET DOMAIN ms,
         KeepsTalk(ms, S)
  PROVE  Wire!Only(ms, S) \in Seq(HistoryMessage) /\ HistoryPaired(Wire!Only(ms, S))
<1> DEFINE t == Wire!Only(ms, S)
<1>1. Len(ms) \in Nat /\ S \in SUBSET (1..Len(ms)) /\ DOMAIN ms = 1..Len(ms)
  OBVIOUS
<1>2. /\ t \in Seq(HistoryMessage) /\ Cardinality(S) \in Nat /\ DOMAIN t = 1..Cardinality(S)
      /\ \A p \in 1..Cardinality(S) : t[p] = ms[Wire!Position(S, p)]
  BY OnlyIs
<1>3. /\ \A p \in 1..Cardinality(S) : Wire!Position(S, p) \in S /\ Rank(S, Wire!Position(S, p)) = p
      /\ \A i \in S : Wire!Position(S, Rank(S, i)) = i /\ Rank(S, i) \in 1..Cardinality(S)
  BY <1>1, PositionIs, RankFacts
<1> HIDE DEF t
<1>4. \A i \in S : Rank(S, i) \in DOMAIN t /\ t[Rank(S, i)] = ms[i]
  BY <1>2, <1>3
<1>5. \A i \in DOMAIN ms : ms[i].n \in Nat /\ ms[i].round \in 0..MaxIterations
  <2>1. \A i \in DOMAIN ms : ms[i] \in HistoryMessage
    BY ElementOfSeq
  <2> QED
    BY <2>1, ToolBatchAssumption DEF HistoryMessage, ToolBatchAssumption
<1>6. ASSUME NEW j \in DOMAIN ms, ms[j].role = "assistant", NEW d \in 1..ms[j].n
      PROVE  /\ j \in S /\ j + d \in S
             /\ Rank(S, j + d) = Rank(S, j) + d
             /\ ms[j + d] = ResultOf(ms[j].round, d)
  <2>1. j \in S
    BY <1>5, <1>6 DEF KeepsTalk
  <2>2. \A e \in 1..ms[j].n : j + e \in DOMAIN ms /\ ms[j + e] = ResultOf(ms[j].round, e)
    BY <1>6 DEF HistoryPaired, Complete
  <2>3. d \in Nat /\ \A e \in 1..d : e \in 1..ms[j].n
    <3>1. ms[j].n \in Nat
      BY <1>5
    <3> QED
      BY <3>1
  <2>4. \A r, k : ResultOf(r, k).role = "result"
    BY DEF ResultOf
  <2>5. \A e \in 1..d : j + e \in DOMAIN ms /\ ms[j + e].role = "result"
    BY <2>2, <2>3, <2>4
  <2> QED
    BY <2>1, <2>2, <2>3, <2>5, SelectedBehind
<1>7. ASSUME NEW p \in DOMAIN t
      PROVE  Complete(t, p)
  <2> DEFINE i == Wire!Position(S, p)
  <2>1. i \in S /\ i \in DOMAIN ms /\ Rank(S, i) = p /\ t[p] = ms[i]
    BY <1>2, <1>3
  <2> HIDE DEF i
  <2> SUFFICES ASSUME t[p].role = "assistant", NEW k \in 1..t[p].n
               PROVE  p + k \in DOMAIN t /\ t[p + k] = ResultOf(t[p].round, k)
    BY DEF Complete
  <2>2. i + k \in S /\ Rank(S, i + k) = p + k /\ ms[i + k] = ResultOf(ms[i].round, k)
    BY <1>6, <2>1
  <2> QED
    BY <1>4, <2>1, <2>2
<1>8. ASSUME NEW p \in DOMAIN t
      PROVE  Asked(t, p)
  <2> DEFINE i == Wire!Position(S, p)
  <2>1. i \in S /\ i \in DOMAIN ms /\ Rank(S, i) = p /\ t[p] = ms[i]
    BY <1>2, <1>3
  <2> HIDE DEF i
  <2> SUFFICES ASSUME t[p].role = "result"
               PROVE  \E q \in 1..p - 1 : t[q].role = "assistant" /\ p - q \in 1..t[q].n
    BY DEF Asked
  <2>2. PICK j \in 1..i - 1 : ms[j].role = "assistant" /\ i - j \in 1..ms[j].n
    BY <2>1 DEF HistoryPaired, Asked
  <2>3. j \in DOMAIN ms /\ i \in Nat /\ j \in Nat /\ j + (i - j) = i
    BY <1>1, <2>1
  <2>4. j \in S /\ p = Rank(S, j) + (i - j)
    <3>1. j \in S /\ Rank(S, j + (i - j)) = Rank(S, j) + (i - j)
      BY <1>6, <2>2, <2>3
    <3> QED
      BY <2>1, <2>3, <3>1
  <2>5. Rank(S, j) \in DOMAIN t /\ t[Rank(S, j)] = ms[j] /\ Rank(S, j) \in Nat /\ Rank(S, j) >= 1
    BY <1>2, <1>4, <2>4
  <2>6. i - j \in Nat /\ i - j >= 1
    BY <2>2, <2>3
  <2>7. p - Rank(S, j) = i - j /\ Rank(S, j) \in 1..p - 1
    BY <2>4, <2>5, <2>6
  <2> QED
    BY <2>2, <2>5, <2>7
<1> QED
  BY <1>2, <1>7, <1>8 DEF HistoryPaired, t

\* System messages may be put in front of a paired history, as Prepare and Compact do.
LEMMA PrefixPaired ==
  ASSUME NEW p \in Seq(HistoryMessage), \A i \in DOMAIN p : p[i].role = "system",
         NEW t \in Seq(HistoryMessage), HistoryPaired(t)
  PROVE  p \o t \in Seq(HistoryMessage) /\ HistoryPaired(p \o t)
<1> DEFINE c == p \o t
           l == Len(p)
<1>1. /\ c \in Seq(HistoryMessage) /\ l \in Nat /\ Len(t) \in Nat
      /\ DOMAIN c = 1..(l + Len(t)) /\ DOMAIN t = 1..Len(t) /\ DOMAIN p = 1..l
      /\ \A i \in 1..l : c[i] = p[i]
      /\ \A i \in 1..Len(t) : c[l + i] = t[i]
  OBVIOUS
<1> HIDE DEF c, l
<1>2. ASSUME NEW i \in DOMAIN c
      PROVE  Complete(c, i) /\ Asked(c, i)
  <2>1. CASE i \in 1..l
    BY <1>1, <2>1 DEF Complete, Asked
  <2>2. CASE i \notin 1..l
    <3> DEFINE x == i - l
    <3>1. x \in 1..Len(t) /\ i = l + x /\ c[i] = t[x] /\ x \in DOMAIN t
      BY <1>1, <2>2
    <3> HIDE DEF x
    <3>2. Complete(t, x) /\ Asked(t, x)
      BY <3>1 DEF HistoryPaired
    <3>3. ASSUME c[i].role = "assistant", NEW k \in 1..c[i].n
          PROVE  i + k \in DOMAIN c /\ c[i + k] = ResultOf(c[i].round, k)
      <4>1. x + k \in DOMAIN t /\ t[x + k] = ResultOf(t[x].round, k)
        BY <3>1, <3>2, <3>3 DEF Complete
      <4>2. i + k = l + (x + k)
        BY <1>1, <3>1
      <4> QED
        BY <1>1, <3>1, <4>1, <4>2
    <3>4. ASSUME c[i].role = "result"
          PROVE  \E j \in 1..i - 1 : c[j].role = "assistant" /\ i - j \in 1..c[j].n
      <4>1. PICK y \in 1..x - 1 : t[y].role = "assistant" /\ x - y \in 1..t[y].n
        BY <3>1, <3>2, <3>4 DEF Asked
      <4>2. y \in 1..Len(t) /\ l + y \in 1..i - 1 /\ i - (l + y) = x - y
        BY <1>1, <3>1
      <4> QED
        BY <1>1, <4>1, <4>2
    <3> QED
      BY <3>3, <3>4 DEF Complete, Asked
  <2> QED
    BY <2>1, <2>2
<1> QED
  BY <1>1, <1>2 DEF HistoryPaired, c

\* What follows a place that is no result's.
LEMMA SuffixPaired ==
  ASSUME NEW t \in Seq(HistoryMessage), HistoryPaired(t), NEW a \in 1..Len(t) + 1,
         a <= Len(t) => t[a].role # "result"
  PROVE  /\ SubSeq(t, a, Len(t)) \in Seq(HistoryMessage)
         /\ HistoryPaired(SubSeq(t, a, Len(t)))
<1> DEFINE c == SubSeq(t, a, Len(t))
           l == Len(t)
<1>1. /\ c \in Seq(HistoryMessage) /\ l \in Nat /\ a \in Nat /\ 1 <= a
      /\ DOMAIN c = 1..((l - a) + 1) /\ DOMAIN t = 1..l
      /\ \A i \in 1..((l - a) + 1) : c[i] = t[(a + i) - 1]
  <2>1. l \in Nat /\ a \in Nat /\ 1 <= a /\ DOMAIN t = 1..l
    OBVIOUS
  <2>2. \A i \in a..l : t[i] \in HistoryMessage
    BY <2>1, ElementOfSeq
  <2>3. /\ c \in Seq(HistoryMessage)
        /\ Len(c) = IF a <= l THEN (l - a) + 1 ELSE 0
        /\ \A i \in 1..((l - a) + 1) : c[i] = t[(a + i) - 1]
    BY <2>1, <2>2, SubSeqProperties
  <2> QED
    BY <2>1, <2>3
<1> HIDE DEF c, l
<1>2. ASSUME NEW i \in DOMAIN c
      PROVE  Complete(c, i) /\ Asked(c, i)
  <2> DEFINE x == (a + i) - 1
  <2>1. i \in Int /\ 1 <= i /\ i <= (l - a) + 1
    BY <1>1
  <2>2. x \in 1..l /\ c[i] = t[x] /\ i = (x - a) + 1 /\ i \in Nat /\ a <= x
    BY <1>1, <2>1
  <2> HIDE DEF x
  <2>3. Complete(t, x) /\ Asked(t, x)
    BY <1>1, <2>2 DEF HistoryPaired
  <2>4. ASSUME c[i].role = "assistant", NEW k \in 1..c[i].n
        PROVE  i + k \in DOMAIN c /\ c[i + k] = ResultOf(c[i].round, k)
    <3>1. x + k \in 1..l /\ t[x + k] = ResultOf(t[x].round, k)
      BY <1>1, <2>2, <2>3, <2>4 DEF Complete
    <3>2. k \in Int /\ 1 <= k /\ x \in Int
      BY <2>2
    <3>3. l \in Int /\ a \in Int /\ i \in Int /\ i = (x - a) + 1 /\ 1 <= i /\ x + k <= l
      BY <1>1, <2>2, <3>1, <3>2
    <3>4. i + k \in 1..((l - a) + 1) /\ (a + (i + k)) - 1 = x + k
      BY <3>2, <3>3
    <3> QED
      BY <1>1, <2>2, <3>1, <3>4
  <2>5. ASSUME c[i].role = "result"
        PROVE  \E j \in 1..i - 1 : c[j].role = "assistant" /\ i - j \in 1..c[j].n
    <3>1. PICK y \in 1..x - 1 : t[y].role = "assistant" /\ x - y \in 1..t[y].n
      BY <2>2, <2>3, <2>5 DEF Asked
    <3>2. y \in Nat /\ x \in Nat /\ y \in 1..l /\ y < x
      BY <1>1, <2>2
    <3>3. a <= y
      <4> SUFFICES ASSUME y < a PROVE FALSE
        BY <1>1, <3>2
      <4>1. a - y \in Nat /\ a - y >= 1 /\ a - y <= x - y /\ y + (a - y) = a
        BY <1>1, <2>2, <3>2
      <4>2. t[y].n \in Nat
        <5>1. t[y] \in HistoryMessage
          BY <3>2, ElementOfSeq DEF l
        <5> QED
          BY <5>1, ToolBatchAssumption DEF HistoryMessage, ToolBatchAssumption
      <4>3. x - y \in Int /\ x - y <= t[y].n
        BY <3>1, <3>2, <4>2
      <4>4. a - y \in 1..t[y].n
        BY <4>1, <4>2, <4>3
      <4>5. t[a] = ResultOf(t[y].round, a - y)
        <5>1. Complete(t, y)
          BY <1>1, <3>2 DEF HistoryPaired
        <5>2. t[y + (a - y)] = ResultOf(t[y].round, a - y)
          BY <3>1, <4>4, <5>1 DEF Complete
        <5> QED
          BY <4>1, <5>2
      <4>6. t[a].role = "result" /\ a <= l
        BY <1>1, <2>2, <4>5 DEF ResultOf
      <4> QED
        BY <4>6 DEF l
    <3>4. (y - a) + 1 \in 1..i - 1 /\ i - ((y - a) + 1) = x - y
      BY <1>1, <2>2, <3>2, <3>3
    <3>5. (y - a) + 1 \in 1..((l - a) + 1) /\ (a + ((y - a) + 1)) - 1 = y
      BY <1>1, <3>2, <3>3
    <3>6. c[(y - a) + 1] = t[y]
      BY <1>1, <3>5
    <3> QED
      BY <3>1, <3>4, <3>6
  <2> QED
    BY <2>4, <2>5 DEF Complete, Asked
<1> QED
  BY <1>1, <1>2 DEF HistoryPaired, c

\* A set of positions that has all behind each of its own is the end of the sequence.
LEMMA UpClosedIsEnd ==
  ASSUME NEW L \in Nat, NEW S \in SUBSET (1..L),
         \A i \in S : \A j \in 1..L : i < j => j \in S
  PROVE  /\ Cardinality(S) \in 0..L
         /\ \A i \in 1..L : i \in S <=> (L - Cardinality(S)) + 1 <= i
<1>1. IsFiniteSet(S) /\ Cardinality(S) \in Nat
  BY RankFacts
<1>2. IsFiniteSet(1..L) /\ Cardinality(1..L) = L
  BY FS_Interval
<1>3. Cardinality(S) <= L
  BY <1>2, FS_Subset
<1>4. ASSUME NEW i \in S
      PROVE  (L - Cardinality(S)) + 1 <= i
  <2>1. i..L \subseteq S
    BY <1>4
  <2>2. Cardinality(i..L) <= Cardinality(S)
    BY <1>1, <2>1, FS_Subset
  <2>3. i \in Int /\ ~(i > L)
    OBVIOUS
  <2>4. Cardinality(i..L) = (L - i) + 1
    BY <2>3, FS_Interval
  <2> QED
    BY <1>1, <2>2, <2>3, <2>4
<1>5. ASSUME NEW i \in 1..L, i \notin S
      PROVE  ~((L - Cardinality(S)) + 1 <= i)
  <2>1. S \subseteq (i + 1)..L
    <3> SUFFICES ASSUME NEW j \in S PROVE j \in (i + 1)..L
      OBVIOUS
    <3>1. j \in Int /\ i \in Int /\ ~(j < i) /\ j # i
      BY <1>5
    <3> QED
      BY <3>1
  <2>2. IsFiniteSet((i + 1)..L) /\ i + 1 \in Int
    BY FS_Interval
  <2>3. Cardinality(S) <= Cardinality((i + 1)..L)
    BY <2>1, <2>2, FS_Subset
  <2>4. Cardinality((i + 1)..L) = L - i
    <3>1. Cardinality((i + 1)..L) = IF (i + 1) > L THEN 0 ELSE (L - (i + 1)) + 1
      BY <2>2, FS_Interval
    <3>2. i \in Int /\ i <= L
      OBVIOUS
    <3> QED
      BY <3>1, <3>2
  <2> QED
    BY <1>1, <2>3, <2>4
<1> QED
  BY <1>1, <1>3, <1>4, <1>5

\* What Compact keeps of a conversation, and where it begins.
Kept(t) == {i \in DOMAIN t : Cardinality({u \in TurnStarts(t) : u > i}) < KeepTurns}
Cut(t) == (Len(t) - Cardinality(Kept(t))) + 1

\* Where the history is cut no result is torn from its call.
LEMMA CutBetweenTurns ==
  ASSUME NEW t \in Seq(HistoryMessage), HistoryPaired(t)
  PROVE  Cut(t) \in 1..Len(t) + 1 /\ (Cut(t) <= Len(t) => t[Cut(t)].role # "result")
<1> DEFINE kept == Kept(t)
           Later(i) == {u \in TurnStarts(t) : u > i}
           l == Len(t)
           a == (l - Cardinality(kept)) + 1
<1>1. l \in Nat /\ DOMAIN t = 1..l /\ TurnStarts(t) \subseteq 1..l /\ kept \subseteq 1..l
  BY DEF TurnStarts, Kept
<1>2. IsFiniteSet(TurnStarts(t)) /\ Cardinality(TurnStarts(t)) \in Nat
  BY <1>1, RankFacts
<1>3. \A i : IsFiniteSet(Later(i)) /\ Cardinality(Later(i)) \in Nat
  <2> TAKE i
  <2>1. Later(i) \subseteq TurnStarts(t)
    OBVIOUS
  <2> HIDE DEF Later
  <2> QED
    BY <1>2, <2>1, FS_Subset, FS_CardinalityType
<1>4. \A i \in 1..l : i \in kept <=> Cardinality(Later(i)) < KeepTurns
  BY <1>1 DEF Kept
<1>5. \A i, j \in 1..l : i < j => Later(j) \subseteq Later(i)
  <2> SUFFICES ASSUME NEW i \in 1..l, NEW j \in 1..l, i < j, NEW u \in Later(j)
               PROVE  u \in Later(i)
    OBVIOUS
  <2>1. u \in 1..l /\ u > j /\ u \in TurnStarts(t)
    BY <1>1
  <2>2. u \in Int /\ i \in Int /\ j \in Int
    BY <1>1, <2>1
  <2> QED
    BY <2>1, <2>2
<1>6. \A i \in kept : \A j \in 1..l : i < j => j \in kept
  <2> SUFFICES ASSUME NEW i \in kept, NEW j \in 1..l, i < j PROVE j \in kept
    OBVIOUS
  <2>1. i \in 1..l /\ Later(j) \subseteq Later(i)
    BY <1>1, <1>5
  <2> HIDE DEF Later
  <2>2. Cardinality(Later(j)) <= Cardinality(Later(i)) /\ Cardinality(Later(i)) < KeepTurns
    BY <1>3, <1>4, <2>1, FS_Subset
  <2>3. Cardinality(Later(j)) \in Nat /\ Cardinality(Later(i)) \in Nat /\ KeepTurns \in Nat
    BY <1>3, AgentLoopAssumption DEF AgentLoopAssumption
  <2>4. Cardinality(Later(j)) < KeepTurns
    BY <2>2, <2>3
  <2> QED
    BY <1>4, <2>4
<1> HIDE DEF Later, l, kept
<1>7. /\ Cardinality(kept) \in 0..l
      /\ \A i \in 1..l : i \in kept <=> (l - Cardinality(kept)) + 1 <= i
  BY <1>1, <1>6, UpClosedIsEnd
<1>8. a \in 1..l + 1
  BY <1>1, <1>7
<1>9. ASSUME a <= l, t[a].role = "result"
      PROVE  FALSE
  <2>1. a \in 1..l /\ a \in Int /\ a \in kept
    <3>1. a \in 1..l /\ a <= a
      BY <1>1, <1>8, <1>9
    <3> QED
      BY <1>7, <3>1
  <2>2. a # 1
    <3> SUFFICES ASSUME a = 1 PROVE FALSE
      OBVIOUS
    <3>1. Asked(t, 1) /\ t[1].role = "result"
      BY <1>1, <1>9, <2>1 DEF HistoryPaired
    <3>2. 1..1 - 1 = {}
      OBVIOUS
    <3> QED
      BY <3>1, <3>2 DEF Asked
  <2>3. a - 1 \in 1..l /\ ~(a <= a - 1)
    BY <1>1, <2>1, <2>2
  <2>4. a - 1 \notin kept
    BY <1>7, <2>3
  <2>5. Later(a - 1) = Later(a)
    <3>1. a \notin TurnStarts(t)
      BY <1>9, <2>2 DEF TurnStarts
    <3>2. \A u \in TurnStarts(t) : u > a - 1 <=> u > a
      <4> SUFFICES ASSUME NEW u \in TurnStarts(t) PROVE u > a - 1 <=> u > a
        OBVIOUS
      <4>1. u \in Int /\ u # a
        BY <1>1, <3>1
      <4> QED
        BY <2>1, <4>1
    <3> QED
      BY <3>2 DEF Later
  <2> QED
    BY <1>4, <2>1, <2>3, <2>4, <2>5
<1> QED
  BY <1>8, <1>9 DEF l, kept, Cut

\* Compaction, which drops the older turns and adds a notice, leaves no call without its
\* result and no result without its call.
LEMMA CompactPaired ==
  ASSUME NEW ms \in Seq(HistoryMessage), HistoryPaired(ms)
  PROVE  Compact(ms) \in Seq(HistoryMessage) /\ HistoryPaired(Compact(ms))
<1> DEFINE talk == Talk(ms)
           sys == {i \in DOMAIN ms : IsSystem(ms[i])}
           p == Append(Systems(ms), System)
           rest == SubSeq(talk, Cut(talk), Len(talk))
<1>1. talk \in Seq(HistoryMessage) /\ HistoryPaired(talk)
  <2> DEFINE S == {i \in DOMAIN ms : IsTalk(ms[i])}
  <2>1. KeepsTalk(ms, S)
    BY DEF KeepsTalk, IsTalk
  <2>2. S \in SUBSET DOMAIN ms
    OBVIOUS
  <2> HIDE DEF S
  <2>3. Wire!Only(ms, S) \in Seq(HistoryMessage) /\ HistoryPaired(Wire!Only(ms, S))
    BY <2>1, <2>2, OnlyPaired
  <2> QED
    BY <2>3 DEF Talk, S
<1>2. p \in Seq(HistoryMessage) /\ \A i \in DOMAIN p : p[i].role = "system"
  <2>1. System \in HistoryMessage /\ System.role = "system"
    BY ToolBatchAssumption, AgentLoopAssumption
    DEF System, HistoryMessage, ToolBatchAssumption, AgentLoopAssumption
  <2> DEFINE q == Wire!Only(ms, sys)
  <2>2. sys \in SUBSET DOMAIN ms /\ \A i \in sys : ms[i].role = "system"
    BY DEF IsSystem
  <2> HIDE DEF sys
  <2>3. /\ q \in Seq(HistoryMessage) /\ DOMAIN q = 1..Cardinality(sys)
        /\ \A k \in 1..Cardinality(sys) :
             q[k] = ms[Wire!Position(sys, k)] /\ Wire!Position(sys, k) \in sys
    BY <2>2, OnlyIs
  <2>4. \A k \in DOMAIN q : q[k].role = "system"
    BY <2>2, <2>3
  <2> HIDE DEF q
  <2>5. p = Append(q, System)
    BY DEF q, Systems, sys
  <2>6. Len(q) \in Nat /\ DOMAIN q = 1..Len(q)
    BY <2>3
  <2>7. /\ p \in Seq(HistoryMessage) /\ DOMAIN p = 1..(Len(q) + 1) /\ p[Len(q) + 1] = System
        /\ \A k \in 1..Len(q) : p[k] = q[k]
    BY <2>1, <2>3, <2>5
  <2> HIDE DEF p
  <2>8. \A k \in 1..(Len(q) + 1) : k \in 1..Len(q) \/ k = Len(q) + 1
    BY <2>6
  <2> QED
    BY <2>1, <2>4, <2>6, <2>7, <2>8
<1>3. CASE Cardinality(TurnStarts(talk)) <= KeepTurns
  BY <1>3 DEF Compact
<1>4. CASE ~(Cardinality(TurnStarts(talk)) <= KeepTurns)
  <2>1. Compact(ms) = p \o rest
    BY <1>4 DEF Compact, Cut, Kept
  <2> HIDE DEF p, talk
  <2>2. Cut(talk) \in 1..Len(talk) + 1 /\ (Cut(talk) <= Len(talk) => talk[Cut(talk)].role # "result")
    BY <1>1, CutBetweenTurns
  <2>3. rest \in Seq(HistoryMessage) /\ HistoryPaired(rest)
    BY <1>1, <2>2, SuffixPaired
  <2> QED
    BY <1>2, <2>1, <2>3, PrefixPaired
<1> QED
  BY <1>3, <1>4

-----------------------------------------------------------------------------
(* The history of a run: every call is answered, and nothing else is         *)

\* The last message calls, and waits for its results.
Waits(ms, r, n) ==
  /\ ms # <<>>
  /\ ms[Len(ms)] = Assistant(r, n)
  /\ \A i \in 1..Len(ms) - 1 : Complete(ms, i) /\ Asked(ms, i)

\* The response of the model, written behind a paired history, waits for its results.
LEMMA AskPaired ==
  ASSUME NEW ms \in Seq(HistoryMessage), HistoryPaired(ms),
         NEW r \in 0..MaxIterations, NEW n \in 0..MaxCalls
  PROVE  /\ Append(ms, Assistant(r, n)) \in Seq(HistoryMessage)
         /\ Waits(Append(ms, Assistant(r, n)), r, n)
<1> DEFINE c == Append(ms, Assistant(r, n))
           l == Len(ms)
<1>1. Assistant(r, n) \in HistoryMessage
  BY DEF Assistant, HistoryMessage
<1>2. /\ c \in Seq(HistoryMessage) /\ c # <<>> /\ Len(c) = l + 1 /\ l \in Nat
      /\ c[l + 1] = Assistant(r, n)
      /\ DOMAIN c = 1..(l + 1) /\ DOMAIN ms = 1..l
      /\ \A i \in 1..l : c[i] = ms[i]
  <2>1. /\ c \in Seq(HistoryMessage) /\ Len(c) = l + 1 /\ l \in Nat
        /\ \A i \in 1..l : c[i] = ms[i]
        /\ c[l + 1] = Assistant(r, n)
    BY <1>1, AppendProperties
  <2>2. DOMAIN c = 1..(l + 1) /\ DOMAIN ms = 1..l
    BY <2>1
  <2>3. c # <<>>
    BY <2>1
  <2> QED
    BY <2>1, <2>2, <2>3
<1> HIDE DEF c, l
<1>3. ASSUME NEW i \in 1..l
      PROVE  Complete(c, i) /\ Asked(c, i)
  <2>1. Complete(ms, i) /\ Asked(ms, i) /\ c[i] = ms[i]
    BY <1>2 DEF HistoryPaired
  <2>2. Complete(c, i)
    <3> SUFFICES ASSUME c[i].role = "assistant", NEW k \in 1..c[i].n
                 PROVE  i + k \in DOMAIN c /\ c[i + k] = ResultOf(c[i].round, k)
      BY DEF Complete
    <3>1. i + k \in 1..l /\ ms[i + k] = ResultOf(ms[i].round, k)
      BY <1>2, <2>1 DEF Complete
    <3> QED
      BY <1>2, <2>1, <3>1
  <2>3. Asked(c, i)
    <3> SUFFICES ASSUME c[i].role = "result"
                 PROVE  \E j \in 1..i - 1 : c[j].role = "assistant" /\ i - j \in 1..c[j].n
      BY DEF Asked
    <3>1. PICK j \in 1..i - 1 : ms[j].role = "assistant" /\ i - j \in 1..ms[j].n
      BY <2>1 DEF Asked
    <3>2. j \in 1..l
      BY <1>2
    <3> QED
      BY <1>2, <3>1, <3>2
  <2> QED
    BY <2>2, <2>3
<1>4. Len(c) - 1 = l
  BY <1>2
<1> QED
  BY <1>2, <1>3, <1>4 DEF Waits, c

\* The results of its calls, written behind it in the calls' order, make it paired again.
LEMMA AnswersPaired ==
  ASSUME NEW ms \in Seq(HistoryMessage), NEW r \in 0..MaxIterations, NEW n \in 0..MaxCalls,
         Waits(ms, r, n)
  PROVE  /\ ms \o [i \in 1..n |-> ResultOf(r, i)] \in Seq(HistoryMessage)
         /\ HistoryPaired(ms \o [i \in 1..n |-> ResultOf(r, i)])
<1> DEFINE q == [i \in 1..n |-> ResultOf(r, i)]
           c == ms \o q
           l == Len(ms)
<1>1. n \in Nat /\ MaxCalls \in Nat
  BY ToolBatchAssumption DEF ToolBatchAssumption
<1>2. \A i \in 1..n : ResultOf(r, i) \in HistoryMessage
  BY <1>1 DEF ResultOf, HistoryMessage
<1>3. q \in Seq(HistoryMessage) /\ Len(q) = n /\ \A i \in 1..n : q[i] = ResultOf(r, i)
  BY <1>1, <1>2
<1> HIDE DEF q
<1>4. /\ c \in Seq(HistoryMessage) /\ l \in Nat /\ l >= 1
      /\ DOMAIN c = 1..(l + n) /\ DOMAIN ms = 1..l
      /\ \A i \in 1..l : c[i] = ms[i]
      /\ \A i \in 1..n : c[l + i] = ResultOf(r, i)
  <2>1. /\ c \in Seq(HistoryMessage) /\ Len(c) = l + n /\ l \in Nat
        /\ \A i \in 1..l : c[i] = ms[i]
        /\ \A i \in 1..n : c[l + i] = q[i]
    BY <1>1, <1>3
  <2>2. DOMAIN c = 1..(l + n) /\ DOMAIN ms = 1..l
    BY <2>1
  <2>3. l # 0
    BY DEF Waits
  <2> QED
    BY <1>3, <2>1, <2>2, <2>3
<1> HIDE DEF c, l
<1>5. /\ ms[l] = Assistant(r, n)
      /\ \A i \in 1..l - 1 : Complete(ms, i) /\ Asked(ms, i)
  BY DEF Waits, l
<1>6. ms[l].role = "assistant" /\ ms[l].n = n /\ ms[l].round = r
  BY <1>5 DEF Assistant
<1>7. ASSUME NEW i \in DOMAIN c, c[i].role = "assistant", NEW k \in 1..c[i].n
      PROVE  i + k \in DOMAIN c /\ c[i + k] = ResultOf(c[i].round, k)
  <2>1. CASE i \in 1..l - 1
    <3>1. c[i] = ms[i] /\ i \in 1..l
      BY <1>4, <2>1
    <3>2. i + k \in 1..l /\ ms[i + k] = ResultOf(ms[i].round, k)
      BY <1>4, <1>5, <1>7, <2>1, <3>1 DEF Complete
    <3> QED
      BY <1>1, <1>4, <3>1, <3>2
  <2>2. CASE i = l
    <3>1. c[i] = ms[l]
      BY <1>4, <2>2
    <3>2. k \in 1..n
      BY <1>6, <3>1
    <3> QED
      BY <1>1, <1>4, <1>6, <2>2, <3>1, <3>2
  <2>3. CASE i \notin 1..l
    <3>1. i - l \in 1..n /\ l + (i - l) = i
      BY <1>1, <1>4, <2>3
    <3>2. c[i] = ResultOf(r, i - l)
      BY <1>4, <3>1
    <3>3. c[i].role = "result"
      BY <3>2 DEF ResultOf
    <3> QED
      BY <1>7, <3>3
  <2>4. i \in 1..l - 1 \/ i = l \/ i \notin 1..l
    BY <1>4
  <2> QED
    BY <2>1, <2>2, <2>3, <2>4
<1>8. ASSUME NEW i \in DOMAIN c, c[i].role = "result"
      PROVE  \E j \in 1..i - 1 : c[j].role = "assistant" /\ i - j \in 1..c[j].n
  <2>1. CASE i \in 1..l - 1
    <3>1. c[i] = ms[i]
      BY <1>4, <2>1
    <3>2. PICK j \in 1..i - 1 : ms[j].role = "assistant" /\ i - j \in 1..ms[j].n
      BY <1>5, <1>8, <2>1, <3>1 DEF Asked
    <3>3. j \in 1..l
      BY <1>4, <2>1
    <3> QED
      BY <1>4, <3>2, <3>3
  <2>2. i # l
    BY <1>4, <1>6, <1>8
  <2>3. CASE i \notin 1..l
    <3>1. i - l \in 1..n /\ l \in 1..i - 1
      BY <1>1, <1>4, <2>3
    <3>2. c[l] = ms[l]
      BY <1>4
    <3> QED
      BY <1>6, <3>1, <3>2
  <2>4. i \in 1..l - 1 \/ i = l \/ i \notin 1..l
    BY <1>4
  <2> QED
    BY <2>1, <2>2, <2>3, <2>4
<1> QED
  BY <1>4, <1>7, <1>8 DEF HistoryPaired, Complete, Asked, c, q

\* The history between the rounds, and while a response waits for its results.
HistoryInv ==
  /\ messages \in Seq(HistoryMessage)
  /\ node \in {"start", "budget_check", "compactor", "llm", "opening", "streaming"} \/
     (node = "finished" /\ outcome = "LlmFailed") =>
       HistoryPaired(messages) /\ calls = <<>>
  /\ node \in {"post_llm_check", "tool", "batch"} => Waits(messages, iterations, Len(response))
  /\ node = "post_llm_check" => calls = <<>>
  /\ node = "tool" => calls \in {<<>>, response}
  /\ node = "batch" => calls = response

\* The caller's history is paired, and no batch is open.
LEMMA HistoryInitially == Init => HistoryInv
BY AgentWireAssumption DEF Init, BatchInit, HistoryInv, AgentWireAssumption

\* A response has at most MaxCalls calls.
LEMMA ResponseLength ==
  ASSUME NEW cs \in CallLists \union {<<>>}
  PROVE  Len(cs) \in 0..MaxCalls /\ DOMAIN cs = 1..Len(cs)
<1>1. CASE cs = <<>>
  <2>1. Len(cs) = 0 /\ DOMAIN cs = {} /\ 1..0 = {}
    BY <1>1
  <2> QED
    BY <2>1, ToolBatchAssumption DEF ToolBatchAssumption
<1>2. CASE cs \in CallLists
  <2>1. PICK n \in 1..MaxCalls : n \in Nat /\ cs \in [1..n -> Tools] /\ DOMAIN cs = 1..n
    BY <1>2, CallListType
  <2>2. cs \in Seq(Tools) /\ Len(cs) = n
    BY <2>1
  <2> QED
    BY <2>1, <2>2
<1> QED
  BY <1>1, <1>2

\* A batch whose process dies is kept or given up as a whole.
LEMMA DieKeepsCalls == Die => calls' = calls \/ calls' = <<>>
BY DEF Die, callVars, Suspend, Forget

\* Every step keeps the invariant.  It is inductive only together with what a batch may be
\* in: ToolEnd needs the calls of the batch to be those of the last message, and a restored
\* run goes on at the node it was interrupted in with the batch kept or given up.
LEMMA HistoryStep == LoopInv /\ HistoryInv /\ [Next]_vars => HistoryInv'
<1> SUFFICES ASSUME LoopInv, HistoryInv, [Next]_vars PROVE HistoryInv'
  OBVIOUS
<1>1. iterations \in 0..MaxIterations /\ MaxIterations \in Nat /\ MaxCalls \in Nat
  BY AgentLoopAssumption, ToolBatchAssumption
  DEF LoopInv, RoundsCounted, AgentLoopAssumption, ToolBatchAssumption
<1>2. CASE UNCHANGED <<loopVars, calls>>
  BY <1>2 DEF loopVars, HistoryInv
<1>3. ToolsChange \/ Finish \/ Receive \/ Leave \/ Resolve \/ UNCHANGED vars =>
        UNCHANGED <<loopVars, calls>>
  BY DEF ToolsChange, CatalogChange, Finish, Receive, Leave, Resolve, Reconcile, vars, batchVars,
    callVars
<1>4. CASE ToolStep
  <2>1. UNCHANGED <<loopVars, calls>>
    BY <1>4 DEF ToolStep, CallStep, Start, Doubt, Fetch, Unknown, Return, Retry, Panic, Caught
  <2> QED
    BY <1>2, <2>1
<1>5. CASE Prepare
  <2>1. messages \in Seq(HistoryMessage) /\ HistoryPaired(messages) /\ calls = <<>> /\ calls' = calls
    BY <1>5 DEF Prepare, HistoryInv, batchVars, callVars
  <2>2. <<System>> \in Seq(HistoryMessage) /\ \A i \in DOMAIN <<System>> : <<System>>[i].role = "system"
    <3>1. System \in HistoryMessage /\ System.role = "system"
      BY <1>1 DEF System, HistoryMessage
    <3> QED
      BY <3>1
  <2>3. <<System>> \o messages \in Seq(HistoryMessage) /\ HistoryPaired(<<System>> \o messages)
    BY <2>1, <2>2, PrefixPaired
  <2>4. messages' \in {messages, <<System>> \o messages}
    BY <1>5 DEF Prepare
  <2>5. node' \in {"budget_check", "finished"} /\ (node' = "finished" => outcome' = "Refused")
    BY <1>5 DEF Prepare, End
  <2> QED
    BY <2>1, <2>3, <2>4, <2>5 DEF HistoryInv
<1>6. CASE StepsRunOut
  BY <1>6 DEF StepsRunOut, End, HistoryInv, batchVars, callVars
<1>7. CASE BudgetCheck
  BY <1>7 DEF BudgetCheck, Enter, HistoryInv, batchVars, callVars
<1>8. CASE Compactor
  <2>1. messages \in Seq(HistoryMessage) /\ HistoryPaired(messages) /\ calls = <<>> /\ calls' = calls
    BY <1>8 DEF Compactor, Enter, HistoryInv, batchVars, callVars
  <2>2. messages' \in {messages, Compact(messages)} /\ node' = "llm"
    BY <1>8 DEF Compactor
  <2> QED
    BY <2>1, <2>2, CompactPaired DEF HistoryInv
<1>9. CASE AskLlm \/ Opened \/ Token
  BY <1>9 DEF AskLlm, Opened, Token, Enter, HistoryInv, batchVars, callVars
<1>10. CASE OpenFails \/ StreamFails
  BY <1>10 DEF OpenFails, StreamFails, End, HistoryInv, batchVars, callVars
<1>11. CASE StreamEnds
  <2>1. messages \in Seq(HistoryMessage) /\ HistoryPaired(messages) /\ calls = <<>> /\ calls' = calls
    BY <1>11 DEF StreamEnds, HistoryInv, batchVars, callVars
  <2>2. PICK cs \in CallLists \union {<<>>} :
          response' = cs /\ messages' = Append(messages, Assistant(iterations + 1, Len(cs)))
    BY <1>11 DEF StreamEnds
  <2>3. iterations' = iterations + 1 /\ node' = "post_llm_check"
    BY <1>11 DEF StreamEnds
  <2>4. iterations + 1 \in 0..MaxIterations
    BY <1>1, <1>11 DEF StreamEnds, LoopInv, RoundsCounted, MayAsk
  <2>5. Len(cs) \in 0..MaxCalls
    BY ResponseLength
  <2>6. messages' \in Seq(HistoryMessage) /\ Waits(messages', iterations + 1, Len(cs))
    BY <2>1, <2>2, <2>4, <2>5, AskPaired
  <2>7. Waits(messages, iterations, Len(response))'
    BY <2>2, <2>3, <2>6
  <2> QED
    BY <2>1, <2>3, <2>6, <2>7 DEF HistoryInv
<1>12. CASE PostLlmCheck
  <2>1. UNCHANGED <<messages, iterations, response, calls>> /\ node = "post_llm_check"
    BY <1>12 DEF PostLlmCheck, Enter, batchVars, callVars
  <2>2. node' = "tool" \/ (node' = "finished" /\ outcome' # "LlmFailed")
    BY <1>12 DEF PostLlmCheck, End
  <2> QED
    BY <2>1, <2>2 DEF HistoryInv
<1>13. CASE ToolBegin
  <2>1. UNCHANGED <<messages, iterations, response>> /\ node = "tool" /\ node' = "batch"
    BY <1>13 DEF ToolBegin, Enter
  <2>2. calls' = response
    BY <1>13, <2>1 DEF ToolBegin, HistoryInv, InBatch, Reopen, Begin
  <2> QED
    BY <2>1, <2>2 DEF HistoryInv
<1>14. CASE ToolEnd
  <2>1. /\ messages \in Seq(HistoryMessage) /\ Waits(messages, iterations, Len(response))
        /\ calls = response
        /\ calls' = <<>> /\ node' = "budget_check"
        /\ messages' = messages \o [i \in Calls |-> ResultOf(iterations, i)]
    BY <1>14 DEF ToolEnd, Collect, Forget, HistoryInv
  <2>2. Len(response) \in 0..MaxCalls /\ Calls = 1..Len(response)
    BY <2>1, ResponseLength DEF LoopInv, Pending, Calls
  <2>3. messages' \in Seq(HistoryMessage) /\ HistoryPaired(messages')
    BY <1>1, <2>1, <2>2, AnswersPaired
  <2> QED
    BY <2>1, <2>3 DEF HistoryInv
<1>15. CASE ToolFails
  BY <1>15 DEF ToolFails, GiveUp, Suspend, HistoryInv
<1>16. CASE Restore
  <2>1. /\ UNCHANGED <<messages, iterations, response>> /\ outcome' = "running"
        /\ node \notin {"start", "finished"} \/ outcome = "LlmFailed"
        /\ node' = InterruptedNode
    BY <1>16 DEF Restore
  <2>2. calls' = calls \/ calls' = <<>>
    BY <1>16, DieKeepsCalls DEF Restore
  <2>3. outcome = "LlmFailed" => node = "finished"
    BY DEF LoopInv, RoundsCounted
  <2>4. CASE node \in {"opening", "streaming", "finished"}
    BY <2>1, <2>2, <2>3, <2>4 DEF InterruptedNode, HistoryInv
  <2>5. CASE node \in {"tool", "batch"}
    BY <2>1, <2>2, <2>5 DEF InterruptedNode, HistoryInv
  <2>6. CASE node \notin {"opening", "streaming", "finished", "tool", "batch"}
    BY <2>1, <2>2, <2>3, <2>6 DEF InterruptedNode, HistoryInv
  <2> QED
    BY <2>4, <2>5, <2>6
<1> QED
  BY <1>2, <1>3, <1>4, <1>5, <1>6, <1>7, <1>8, <1>9, <1>10, <1>11, <1>12, <1>13, <1>14, <1>15, <1>16
  DEF Next, LoopStep

\* Whatever the run goes through, between its rounds every call in the history has its
\* results behind it, and while a batch runs all but the last message's have.
THEOREM HistoryInvariance == Spec => []HistoryInv
BY HistoryInitially, HistoryStep, LoopInvariance, PTL DEF Spec

-----------------------------------------------------------------------------
(* What the codecs make of a message                                         *)

\* Blocks and messages written out.
LEMMA BlockIs ==
  /\ \A id, name, args :
       LET b == Wire!ToolCall(id, name, args)
       IN b.kind = "call" /\ b.id = id /\ b.name = name /\ Wire!IsCall(b)
  /\ \A t : LET b == Wire!Text(t) IN b.kind = "text" /\ ~Wire!IsCall(b)
  /\ \A t : LET b == Wire!CachedText(t) IN b.kind = "text" /\ ~Wire!IsCall(b)
  /\ \A t : LET b == Wire!Thinking(t) IN b.kind = "thinking" /\ ~Wire!IsCall(b)
  /\ \A b : Wire!IsCall(b) => b.kind = "call"
BY DEF Wire!ToolCall, Wire!Text, Wire!CachedText, Wire!Thinking, Wire!Block, Wire!IsCall

\* The calls stand first in what the model has said.
StartsWithCalls(c, n) ==
  /\ n \in Nat
  /\ \E T : c \in Seq(T)
  /\ n <= Len(c)
  /\ \A k \in 1..n : Wire!IsCall(c[k])
  /\ \A k \in DOMAIN c : k \notin 1..n => ~Wire!IsCall(c[k])

\* CallsIn gives back exactly the calls that stand first.
LEMMA CallsOfStart ==
  ASSUME NEW c, NEW n, StartsWithCalls(c, n)
  PROVE  DOMAIN Wire!CallsIn(c) = 1..n /\ \A k \in 1..n : Wire!CallsIn(c)[k] = c[k]
<1> DEFINE S == {i \in DOMAIN c : Wire!IsCall(c[i])}
<1>1. PICK T : c \in Seq(T)
  BY DEF StartsWithCalls
<1>2. Len(c) \in Nat /\ DOMAIN c = 1..Len(c) /\ n \in Nat /\ n <= Len(c)
  BY <1>1 DEF StartsWithCalls
<1>3. S = 1..n
  <2>1. \A k \in 1..n : k \in DOMAIN c /\ Wire!IsCall(c[k])
    BY <1>2 DEF StartsWithCalls
  <2>2. \A k \in DOMAIN c : Wire!IsCall(c[k]) => k \in 1..n
    BY DEF StartsWithCalls
  <2> QED
    BY <2>1, <2>2
<1>4. S \in SUBSET DOMAIN c
  OBVIOUS
<1>5. Wire!CallsIn(c) = Wire!Only(c, S)
  BY DEF Wire!CallsIn
<1> HIDE DEF S
<1>6. Cardinality(S) = n
  <2>1. Cardinality(1..n) = IF 1 > n THEN 0 ELSE (n - 1) + 1
    BY <1>2, FS_Interval
  <2> QED
    BY <1>2, <1>3, <2>1
<1>7. Wire!Only(c, S) = [k \in 1..n |-> c[Wire!Position(S, k)]]
  BY <1>1, <1>4, <1>6, OnlyIs
<1>8. \A k \in 1..n : Wire!Position(S, k) = k
  BY <1>2, <1>3, <1>4, OnlyStarts
<1> QED
  BY <1>5, <1>7, <1>8

\* A Google part keeps the kind and the name of its block.
Part(b) == IF Wire!IsCall(b) THEN [b EXCEPT !.id = ""] ELSE b

\* What GoogleCodec makes of a message leaves its calls first and their names as they are.
LEMMA GooglePartsStart ==
  ASSUME NEW c, NEW n, StartsWithCalls(c, n),
         \A k \in 1..n : \E id, name, args : c[k] = Wire!ToolCall(id, name, args)
  PROVE  /\ StartsWithCalls(Wire!GoogleParts(c), n)
         /\ \A k \in 1..n : Wire!GoogleParts(c)[k].name = c[k].name
<1> DEFINE S == {i \in DOMAIN c : c[i].kind \in {"text", "call"}}
           told == Wire!Only(c, S)
           g == [i \in DOMAIN told |-> Part(told[i])]
<1>1. PICK T : c \in Seq(T)
  BY DEF StartsWithCalls
<1>2. Len(c) \in Nat /\ DOMAIN c = 1..Len(c) /\ n \in Nat /\ n <= Len(c)
  BY <1>1 DEF StartsWithCalls
<1>3. Wire!GoogleParts(c) = g
  BY DEF Wire!GoogleParts, Part
<1>4. S \in SUBSET DOMAIN c /\ 1..n \subseteq S
  <2>1. \A k \in 1..n : k \in DOMAIN c /\ c[k].kind = "call"
    BY <1>2, BlockIs DEF StartsWithCalls
  <2> QED
    BY <2>1
<1> HIDE DEF S
<1>5. /\ told = [k \in 1..Cardinality(S) |-> c[Wire!Position(S, k)]]
      /\ Cardinality(S) \in Nat
      /\ \A k \in 1..Cardinality(S) : Wire!Position(S, k) \in S
  BY <1>1, <1>4, OnlyIs
<1>6. /\ n <= Cardinality(S)
      /\ \A k \in 1..n : Wire!Position(S, k) = k
      /\ \A k \in (n + 1)..Cardinality(S) : Wire!Position(S, k) \notin 1..n
  BY <1>2, <1>4, OnlyStarts
<1>7. DOMAIN told = 1..Cardinality(S)
  BY <1>5
<1>8. \A k \in 1..n : k \in 1..Cardinality(S) /\ told[k] = c[k]
  BY <1>2, <1>5, <1>6
<1> HIDE DEF told
<1>9. DOMAIN g = 1..Cardinality(S) /\ \A k \in 1..Cardinality(S) : g[k] = Part(told[k])
  BY <1>7
<1> HIDE DEF g
<1>10. \A k \in 1..n : Wire!IsCall(g[k]) /\ g[k].name = c[k].name
  <2> SUFFICES ASSUME NEW k \in 1..n PROVE Wire!IsCall(g[k]) /\ g[k].name = c[k].name
    OBVIOUS
  <2>1. g[k] = [c[k] EXCEPT !.id = ""]
    BY <1>8, <1>9 DEF Part, StartsWithCalls
  <2>2. PICK id, name, args : c[k] = Wire!ToolCall(id, name, args)
    OBVIOUS
  <2>3. c[k].kind = "call" /\ "kind" \in DOMAIN c[k] /\ "name" \in DOMAIN c[k]
    BY <2>2 DEF Wire!ToolCall, Wire!Block
  <2>4. \A b, x : "kind" \in DOMAIN b /\ "name" \in DOMAIN b =>
               [b EXCEPT !.id = x].kind = b.kind /\ [b EXCEPT !.id = x].name = b.name
    OBVIOUS
  <2>5. g[k].kind = c[k].kind /\ g[k].name = c[k].name
    BY <2>1, <2>3, <2>4
  <2> QED
    BY <2>3, <2>5 DEF Wire!IsCall
<1>11. ASSUME NEW k \in 1..Cardinality(S), k \notin 1..n
       PROVE  ~Wire!IsCall(g[k])
  <2>1. k \in (n + 1)..Cardinality(S)
    BY <1>2, <1>5, <1>11
  <2>2. Wire!Position(S, k) \in DOMAIN c /\ Wire!Position(S, k) \notin 1..n
    BY <1>4, <1>5, <1>6, <2>1
  <2>3. ~Wire!IsCall(told[k])
    BY <1>5, <2>2 DEF StartsWithCalls
  <2> QED
    BY <1>9, <2>3 DEF Part
<1>12. g \in Seq({g[k] : k \in 1..Cardinality(S)}) /\ Len(g) = Cardinality(S)
  <2> DEFINE R == {g[k] : k \in 1..Cardinality(S)}
  <2>1. g = [k \in 1..Cardinality(S) |-> Part(told[k])]
    BY <1>7 DEF g
  <2>2. \A k \in 1..Cardinality(S) : Part(told[k]) \in R
    BY <1>9
  <2> HIDE DEF R
  <2>3. g \in [1..Cardinality(S) -> R]
    BY <2>1, <2>2
  <2>4. g \in Seq(R) /\ Len(g) = Cardinality(S)
    BY <1>5, <2>3
  <2> QED
    BY <2>4 DEF R
<1> QED
  BY <1>2, <1>3, <1>6, <1>9, <1>10, <1>11, <1>12 DEF StartsWithCalls

\* What the model has said of a round: its calls first, then texts.
Speaks(c, v, m) ==
  /\ StartsWithCalls(c, m.n)
  /\ \A k \in 1..m.n : c[k] = Call(v, m.round, k)
  /\ \A k \in DOMAIN c : c[k].kind # "image"

\* A block behind the calls that is no call and no image leaves them where they are.
LEMMA SpeaksOn ==
  ASSUME NEW v, NEW m, NEW T, NEW c \in Seq(T), Speaks(c, v, m), NEW b \in T,
         ~Wire!IsCall(b), b.kind # "image"
  PROVE  c \o <<b>> \in Seq(T) /\ Speaks(c \o <<b>>, v, m)
<1> DEFINE e == c \o <<b>>
<1>1. /\ e \in Seq(T) /\ Len(c) \in Nat /\ Len(e) = Len(c) + 1 /\ DOMAIN c = 1..Len(c)
      /\ DOMAIN e = 1..(Len(c) + 1)
      /\ \A k \in 1..Len(c) : e[k] = c[k]
      /\ e[Len(c) + 1] = b
  OBVIOUS
<1>2. m.n \in Nat /\ m.n <= Len(c)
  BY DEF Speaks, StartsWithCalls
<1> HIDE DEF e
<1>3. \A k \in 1..m.n : k \in 1..Len(c)
  BY <1>1, <1>2
<1>4. \A k \in DOMAIN e : k \in 1..Len(c) \/ k = Len(c) + 1
  BY <1>1
<1>5. \A k \in 1..m.n : e[k] = Call(v, m.round, k) /\ Wire!IsCall(e[k])
  BY <1>1, <1>3 DEF Speaks, StartsWithCalls
<1>6. \A k \in DOMAIN e : e[k].kind # "image" /\ (k \notin 1..m.n => ~Wire!IsCall(e[k]))
  BY <1>1, <1>4 DEF Speaks, StartsWithCalls
<1>7. StartsWithCalls(e, m.n)
  BY <1>1, <1>2, <1>5, <1>6 DEF StartsWithCalls
<1> QED
  BY <1>1, <1>5, <1>6, <1>7 DEF Speaks, e

\* A call of the history has the key and the name that the provider is told.
LEMMA CallIs ==
  ASSUME NEW v, NEW r, NEW i
  PROVE  /\ Wire!IsCall(Call(v, r, i)) /\ Call(v, r, i).kind # "image"
         /\ Call(v, r, i).id = IF v = "google" THEN Function[i] ELSE CallId[r][i]
         /\ Call(v, r, i).name = Function[i]
         /\ \E id, name, args : Call(v, r, i) = Wire!ToolCall(id, name, args)
<1>1. Call(v, r, i) =
        Wire!ToolCall(IF v = "google" THEN Function[i] ELSE CallId[r][i], Function[i], <<>>)
  BY DEF Call
<1> QED
  BY <1>1, BlockIs

\* A function on 1..n is a sequence of length n.
LEMMA SeqOf ==
  ASSUME NEW n \in Nat, NEW T, NEW c \in [1..n -> T]
  PROVE  c \in Seq(T) /\ Len(c) = n
OBVIOUS

\* What a message counts is a natural number.
LEMMA UpToNat == \A N \in Nat : \A x \in 0..N : x \in Nat
OBVIOUS

\* The calls of a response by themselves.
LEMMA CallsSpeak ==
  ASSUME NEW v, NEW m, m.n \in Nat, NEW T, NEW c \in Seq(T),
         Len(c) = m.n, \A k \in 1..m.n : c[k] = Call(v, m.round, k)
  PROVE  Speaks(c, v, m)
<1>1. DOMAIN c = 1..m.n /\ m.n <= Len(c)
  OBVIOUS
<1>2. \A k \in 1..m.n : Wire!IsCall(c[k]) /\ c[k].kind # "image"
  BY CallIs
<1> QED
  BY <1>1, <1>2 DEF Speaks, StartsWithCalls

\* And with the thinking and the text that LLMNode puts behind them.
LEMMA WordsSpeak ==
  ASSUME NEW v, NEW m, NEW T, NEW c \in Seq(T), Speaks(c, v, m), NEW said \in Words
  PROVE  Speaks(Wire!Answered(c, said, said).content, v, m)
<1> DEFINE U == T \union {Wire!Thinking(said), Wire!CachedText(said)}
           think == Wire!Thinking(said)
           text == Wire!CachedText(said)
<1>1. c \in Seq(U) /\ think \in U /\ text \in U
  <2>1. T \subseteq U
    OBVIOUS
  <2> HIDE DEF U
  <2>2. c \in Seq(U)
    BY <2>1, SeqMonotonic
  <2> QED
    BY <2>2 DEF U
<1>2. ~Wire!IsCall(think) /\ think.kind # "image" /\ ~Wire!IsCall(text) /\ text.kind # "image"
  <2>1. think.kind = "thinking" /\ text.kind = "text"
    BY BlockIs
  <2> QED
    BY <2>1, BlockIs
<1>3. Wire!Answered(c, said, said).content =
        (c \o (IF said = "" THEN <<>> ELSE <<think>>)) \o (IF said = "" THEN <<>> ELSE <<text>>)
  BY DEF Wire!Answered, Wire!Assistant, Wire!Message
<1> HIDE DEF U, think, text
<1>4. CASE said = ""
  <2>1. c \o <<>> = c
    BY ConcatEmptySeq
  <2>2. Wire!Answered(c, said, said).content = (c \o <<>>) \o <<>>
    BY <1>3, <1>4
  <2> QED
    BY <2>1, <2>2
<1>5. CASE said # ""
  <2> DEFINE one == c \o <<think>>
  <2>1. one \in Seq(U) /\ Speaks(one, v, m)
    BY <1>1, <1>2, SpeaksOn
  <2> HIDE DEF one
  <2>2. Speaks(one \o <<text>>, v, m)
    BY <1>1, <1>2, <2>1, SpeaksOn
  <2>3. Wire!Answered(c, said, said).content = one \o <<text>>
    BY <1>3, <1>5 DEF one
  <2> QED
    BY <2>2, <2>3
<1> QED
  BY <1>4, <1>5

\* An assistant message of the history begins with its calls.
LEMMA SaidByModel ==
  ASSUME NEW v, NEW m \in HistoryMessage, m.role = "assistant", NEW said \in Words
  PROVE  /\ Said(v, m, said).role = "assistant"
         /\ Speaks(Said(v, m, said).content, v, m)
<1> DEFINE T == {Call(v, m.round, k) : k \in 1..m.n}
           c == CallsOf(v, m)
<1>1. m.n \in Nat
  <2>1. MaxCalls \in Nat
    BY ToolBatchAssumption DEF ToolBatchAssumption
  <2>2. m.n \in 0..MaxCalls
    BY DEF HistoryMessage
  <2> QED
    BY <2>1, <2>2, UpToNat
<1>2. c = [k \in 1..m.n |-> Call(v, m.round, k)]
  BY DEF CallsOf
<1>3. c \in [1..m.n -> T]
  BY <1>2
<1>4. \A k \in 1..m.n : c[k] = Call(v, m.round, k)
  BY <1>2
<1>5. Said(v, m, said) = Wire!Answered(c, said, said)
  BY DEF Said
<1> HIDE DEF c, T
<1>6. c \in Seq(T) /\ Len(c) = m.n
  BY <1>1, <1>3, SeqOf
<1>7. Speaks(c, v, m)
  BY <1>1, <1>4, <1>6, CallsSpeak
<1>8. Wire!Answered(c, said, said).role = "assistant"
  BY DEF Wire!Answered, Wire!Assistant, Wire!Message
<1> QED
  BY <1>5, <1>6, <1>7, <1>8, WordsSpeak

\* The other messages have one text.
LEMMA SaidByOthers ==
  ASSUME NEW v, NEW m \in HistoryMessage, m.role # "assistant", NEW said
  PROVE  /\ Said(v, m, said).role = m.role
         /\ Said(v, m, said).content = <<Wire!Text("text")>>
         /\ m.role = "result" => Said(v, m, said).id = Call(v, m.round, m.n).id
<1>1. m.role \in {"system", "user", "result"}
  BY DEF HistoryMessage
<1>2. CASE m.role = "system"
  BY <1>2 DEF Said, Wire!SystemText, Wire!Message
<1>3. CASE m.role = "user"
  BY <1>3 DEF Said, Wire!UserText, Wire!Message
<1>4. CASE m.role = "result"
  <2>1. Said(v, m, said) = Wire!ToolResult(Call(v, m.round, m.n), TRUE, "text")
    BY <1>4 DEF Said
  <2>2. \A call, ok, t : /\ Wire!ToolResult(call, ok, t).role = "result"
                         /\ Wire!ToolResult(call, ok, t).content = <<Wire!Text(t)>>
                         /\ Wire!ToolResult(call, ok, t).id = call.id
    BY DEF Wire!ToolResult, Wire!Message
  <2> QED
    BY <1>4, <2>1, <2>2
<1> QED
  BY <1>1, <1>2, <1>3, <1>4

\* The calls and the answers of a turn are those it is given.
LEMMA TurnWith ==
  ASSUME NEW r, NEW a, NEW th, NEW b
  PROVE  /\ [Wire!Turn(r) EXCEPT !.answers = a].answers = a
         /\ [Wire!Turn(r) EXCEPT !.answers = a].calls = <<>>
         /\ [Wire!Turn(r) EXCEPT !.texts = a, !.calls = b].calls = b
         /\ [Wire!Turn(r) EXCEPT !.texts = a, !.calls = b].answers = <<>>
         /\ [Wire!Turn(r) EXCEPT !.texts = a, !.thinking = th, !.calls = b].calls = b
         /\ [Wire!Turn(r) EXCEPT !.texts = a, !.thinking = th, !.calls = b].answers = <<>>
<1>1. [Wire!Turn(r) EXCEPT !.answers = a].answers = a /\ [Wire!Turn(r) EXCEPT !.answers = a].calls = <<>>
  BY DEF Wire!Turn
<1>2. /\ [Wire!Turn(r) EXCEPT !.texts = a, !.calls = b].calls = b
      /\ [Wire!Turn(r) EXCEPT !.texts = a, !.calls = b].answers = <<>>
  BY DEF Wire!Turn
<1>3. /\ [Wire!Turn(r) EXCEPT !.texts = a, !.thinking = th, !.calls = b].calls = b
      /\ [Wire!Turn(r) EXCEPT !.texts = a, !.thinking = th, !.calls = b].answers = <<>>
  BY DEF Wire!Turn
<1> QED
  BY <1>1, <1>2, <1>3

\* What a codec makes of a message.
TurnOf(v, s) == CASE v = "anthropic" -> Wire!AnthropicMessage(s)
                  [] v = "google"    -> Wire!GoogleMessage(s)
                  [] OTHER           -> Wire!OpenAIMessage(s)

\* The key of the k-th call of round r.
KeyOf(v, r, k) == IF v = "google" THEN Function[k] ELSE CallId[r][k]

\* A turn has the calls and the answer of the message m of the history.
CallsFit(t, v, m) ==
  IF m.role = "assistant"
  THEN DOMAIN t.calls = 1..m.n /\ \A k \in 1..m.n : Wire!Key(v, t.calls[k]) = KeyOf(v, m.round, k)
  ELSE DOMAIN t.calls = {}
AnswersFit(t, v, m) ==
  IF m.role = "result"
  THEN Len(t.answers) = 1 /\ t.answers[1].to = KeyOf(v, m.round, m.n)
  ELSE t.answers = <<>>
Fits(t, v, m) == CallsFit(t, v, m) /\ AnswersFit(t, v, m)

\* A result makes one answer, to the id it carries.
LEMMA ToIs == \A s, b : Len(Wire!To(s, b)) = 1 /\ Wire!To(s, b)[1].to = s.id
BY DEF Wire!To

\* A call is answered under its key,
LEMMA KeyIs ==
  ASSUME NEW v, NEW r, NEW k
  PROVE  Wire!Key(v, Call(v, r, k)) = KeyOf(v, r, k)
BY CallIs DEF Wire!Key, KeyOf

\* which is also the id that lellm-core gives it,
LEMMA IdIs ==
  ASSUME NEW v, NEW r, NEW k
  PROVE  Call(v, r, k).id = KeyOf(v, r, k)
BY CallIs DEF KeyOf

\* and for Google its name.
LEMMA GoogleKeyIs ==
  ASSUME NEW r, NEW k, NEW b, b.name = Call("google", r, k).name
  PROVE  Wire!Key("google", b) = KeyOf("google", r, k)
BY CallIs DEF Wire!Key, KeyOf

\* A text by itself has no calls, for Google neither.
LEMMA TextAlone ==
  /\ StartsWithCalls(<<Wire!Text("text")>>, 0)
  /\ DOMAIN Wire!CallsIn(<<Wire!Text("text")>>) = {}
  /\ DOMAIN Wire!CallsIn(Wire!GoogleParts(<<Wire!Text("text")>>)) = {}
<1> DEFINE c == <<Wire!Text("text")>>
           b == Wire!Text("text")
<1>1. b.kind = "text" /\ ~Wire!IsCall(b)
  BY BlockIs
<1> HIDE DEF b
<1>2. <<b>> \in Seq({b}) /\ Len(<<b>>) = 1 /\ DOMAIN <<b>> = {1} /\ <<b>>[1] = b
  OBVIOUS
<1>3. c = <<b>>
  BY DEF b
<1>4. 1..0 = {} /\ 0 \in Nat
  OBVIOUS
<1>5. StartsWithCalls(<<b>>, 0)
  <2>1. \E T : <<b>> \in Seq(T)
    BY <1>2
  <2>2. 0 <= Len(<<b>>)
    BY <1>2
  <2>3. \A k \in DOMAIN <<b>> : ~Wire!IsCall(<<b>>[k])
    BY <1>1, <1>2
  <2> QED
    BY <1>4, <2>1, <2>2, <2>3 DEF StartsWithCalls
<1>6. \A k \in 1..0 : \E id, name, args : c[k] = Wire!ToolCall(id, name, args)
  BY <1>4
<1>7. StartsWithCalls(c, 0)
  BY <1>5, <1>3
<1> HIDE DEF c
<1>8. StartsWithCalls(Wire!GoogleParts(c), 0)
  BY <1>6, <1>7, GooglePartsStart
<1>9. DOMAIN Wire!CallsIn(c) = 1..0 /\ DOMAIN Wire!CallsIn(Wire!GoogleParts(c)) = 1..0
  BY <1>7, <1>8, CallsOfStart
<1> QED
  BY <1>4, <1>7, <1>9 DEF c

\* The turn of an assistant message has its calls, for each of the three codecs.
LEMMA ModelFits ==
  ASSUME NEW v \in Vendors, NEW m \in HistoryMessage, m.role = "assistant",
         NEW s, s.role = "assistant", Speaks(s.content, v, m)
  PROVE  Fits(TurnOf(v, s), v, m)
<1> DEFINE c == s.content
           g == Wire!GoogleParts(c)
<1>1. /\ StartsWithCalls(c, m.n)
      /\ \A k \in 1..m.n : c[k] = Call(v, m.round, k)
  BY DEF Speaks
<1>2. DOMAIN Wire!CallsIn(c) = 1..m.n /\ \A k \in 1..m.n : Wire!CallsIn(c)[k] = c[k]
  BY <1>1, CallsOfStart
<1>3. \A k \in 1..m.n : Wire!Key(v, Wire!CallsIn(c)[k]) = KeyOf(v, m.round, k)
  BY <1>1, <1>2, KeyIs
<1>4. CASE v = "anthropic"
  <2>1. /\ Wire!AnthropicMessage(s).calls = Wire!CallsIn(c)
        /\ Wire!AnthropicMessage(s).answers = <<>>
    BY TurnWith DEF Wire!AnthropicMessage
  <2>2. TurnOf(v, s) = Wire!AnthropicMessage(s)
    BY <1>4 DEF TurnOf
  <2> QED
    BY <1>2, <1>3, <2>1, <2>2 DEF Fits, CallsFit, AnswersFit
<1>5. CASE v = "openai"
  <2>1. /\ Wire!OpenAIMessage(s).calls = Wire!CallsIn(c)
        /\ Wire!OpenAIMessage(s).answers = <<>>
    BY TurnWith DEF Wire!OpenAIMessage
  <2>2. TurnOf(v, s) = Wire!OpenAIMessage(s)
    BY <1>5 DEF TurnOf
  <2> QED
    BY <1>2, <1>3, <2>1, <2>2 DEF Fits, CallsFit, AnswersFit
<1>6. CASE v = "google"
  <2>1. /\ Wire!GoogleMessage(s).calls = Wire!CallsIn(g)
        /\ Wire!GoogleMessage(s).answers = <<>>
    BY TurnWith DEF Wire!GoogleMessage
  <2>2. TurnOf(v, s) = Wire!GoogleMessage(s)
    BY <1>6 DEF TurnOf
  <2>3. \A k \in 1..m.n : \E id, name, args : c[k] = Wire!ToolCall(id, name, args)
    BY <1>1, CallIs
  <2>4. StartsWithCalls(g, m.n) /\ \A k \in 1..m.n : g[k].name = c[k].name
    BY <1>1, <2>3, GooglePartsStart
  <2>5. DOMAIN Wire!CallsIn(g) = 1..m.n /\ \A k \in 1..m.n : Wire!CallsIn(g)[k] = g[k]
    BY <2>4, CallsOfStart
  <2>6. \A k \in 1..m.n : Wire!Key(v, Wire!CallsIn(g)[k]) = KeyOf(v, m.round, k)
    <3> TAKE k \in 1..m.n
    <3>1. Wire!CallsIn(g)[k].name = Call("google", m.round, k).name
      BY <1>1, <1>6, <2>4, <2>5
    <3> QED
      BY <1>6, <3>1, GoogleKeyIs
  <2> QED
    BY <2>1, <2>2, <2>5, <2>6 DEF Fits, CallsFit, AnswersFit
<1> QED
  BY <1>4, <1>5, <1>6 DEF Vendors

\* The turn of a result has its answer; the turns of a system and a user message have
\* neither calls nor answers.
LEMMA OthersFit ==
  ASSUME NEW v \in Vendors, NEW m \in HistoryMessage, m.role # "assistant",
         NEW s, s.role = m.role, s.content = <<Wire!Text("text")>>,
         m.role = "result" => s.id = KeyOf(v, m.round, m.n)
  PROVE  Fits(TurnOf(v, s), v, m)
<1>1. DOMAIN <<>> = {}
  OBVIOUS
<1>2. CASE m.role = "result"
  <2>1. /\ Wire!AnthropicMessage(s).answers = Wire!To(s, TRUE)
        /\ Wire!GoogleMessage(s).answers = Wire!To(s, FALSE)
        /\ Wire!OpenAIMessage(s).answers = Wire!To(s, FALSE)
    BY <1>2, TurnWith DEF Wire!AnthropicMessage, Wire!GoogleMessage, Wire!OpenAIMessage
  <2>2. TurnOf(v, s).answers \in {Wire!To(s, TRUE), Wire!To(s, FALSE)}
    BY <2>1 DEF TurnOf
  <2>3. TurnOf(v, s).calls = <<>>
    BY <1>2, TurnWith
    DEF TurnOf, Wire!AnthropicMessage, Wire!GoogleMessage, Wire!OpenAIMessage
  <2>4. Len(TurnOf(v, s).answers) = 1 /\ TurnOf(v, s).answers[1].to = s.id
    BY <2>2, ToIs
  <2> QED
    BY <1>1, <1>2, <2>3, <2>4 DEF Fits, CallsFit, AnswersFit
<1>3. CASE m.role # "result"
  <2>1. TurnOf(v, s).answers = <<>>
    BY <1>3, TurnWith
    DEF TurnOf, Wire!AnthropicMessage, Wire!GoogleMessage, Wire!OpenAIMessage
  <2>2. DOMAIN TurnOf(v, s).calls = {}
    BY <1>1, <1>3, TextAlone, TurnWith
    DEF TurnOf, Wire!AnthropicMessage, Wire!GoogleMessage, Wire!OpenAIMessage
  <2> QED
    BY <1>3, <2>1, <2>2 DEF Fits, CallsFit, AnswersFit
<1> QED
  BY <1>2, <1>3

\* Whoever says it, the turn a codec makes of it has the calls and the answer of the history.
LEMMA TurnFits ==
  ASSUME NEW v \in Vendors, NEW m \in HistoryMessage, NEW said \in Words
  PROVE  Fits(TurnOf(v, Said(v, m, said)), v, m)
<1>1. CASE m.role = "assistant"
  BY <1>1, SaidByModel, ModelFits
<1>2. CASE m.role # "assistant"
  <2>1. m.role = "result" => Said(v, m, said).id = Call(v, m.round, m.n).id
    BY <1>2, SaidByOthers
  <2>2. Call(v, m.round, m.n).id = KeyOf(v, m.round, m.n)
    BY IdIs
  <2> QED
    BY <1>2, <2>1, <2>2, SaidByOthers, OthersFit
<1> QED
  BY <1>1, <1>2

\* Turns that fit a paired history are paired.
LEMMA PairedTurns ==
  ASSUME NEW v, NEW h \in Seq(HistoryMessage), HistoryPaired(h),
         NEW t, DOMAIN t = DOMAIN h, \A i \in DOMAIN h : Fits(t[i], v, h[i])
  PROVE  Wire!Paired(v, t)
<1>1. ASSUME NEW i \in DOMAIN t, NEW k \in DOMAIN t[i].calls
      PROVE  /\ i + k \in DOMAIN t
             /\ Len(t[i + k].answers) = 1
             /\ t[i + k].answers[1].to = Wire!Key(v, t[i].calls[k])
  <2>1. CallsFit(t[i], v, h[i]) /\ i \in DOMAIN h
    BY <1>1 DEF Fits
  <2>2. h[i].role = "assistant" /\ k \in 1..h[i].n
    BY <1>1, <2>1 DEF CallsFit
  <2>3. Wire!Key(v, t[i].calls[k]) = KeyOf(v, h[i].round, k)
    BY <2>1, <2>2 DEF CallsFit
  <2>4. i + k \in DOMAIN h /\ h[i + k] = ResultOf(h[i].round, k)
    BY <2>1, <2>2 DEF HistoryPaired, Complete
  <2>5. AnswersFit(t[i + k], v, h[i + k])
    BY <2>4 DEF Fits
  <2>6. h[i + k].role = "result" /\ h[i + k].round = h[i].round /\ h[i + k].n = k
    BY <2>4 DEF ResultOf
  <2>7. Len(t[i + k].answers) = 1 /\ t[i + k].answers[1].to = KeyOf(v, h[i].round, k)
    BY <2>5, <2>6 DEF AnswersFit
  <2> QED
    BY <2>3, <2>4, <2>7
<1>2. ASSUME NEW i \in DOMAIN t, t[i].answers # <<>>
      PROVE  \E j \in 1..i - 1 : i - j \in DOMAIN t[j].calls
  <2>1. AnswersFit(t[i], v, h[i]) /\ i \in DOMAIN h
    BY <1>2 DEF Fits
  <2>2. h[i].role = "result"
    BY <1>2, <2>1 DEF AnswersFit
  <2>3. PICK j \in 1..i - 1 : h[j].role = "assistant" /\ i - j \in 1..h[j].n
    BY <2>1, <2>2 DEF HistoryPaired, Asked
  <2>4. j \in DOMAIN h
    <3>1. DOMAIN h = 1..Len(h) /\ Len(h) \in Nat
      OBVIOUS
    <3> QED
      BY <2>1, <3>1
  <2>5. CallsFit(t[j], v, h[j])
    BY <2>4 DEF Fits
  <2> QED
    BY <2>3, <2>5 DEF CallsFit
<1> QED
  BY <1>1, <1>2 DEF Wire!Paired

-----------------------------------------------------------------------------
(* What they make of a history                                               *)

\* A history as lellm-core has it.
ChatOf(h, v, said) == [i \in DOMAIN h |-> Said(v, h[i], said)]
\* And the turns of its messages.
TurnsOf(v, chat) == [i \in DOMAIN chat |-> TurnOf(v, chat[i])]

\* Selecting from it and writing it down may be swapped.
LEMMA ChatOnly ==
  ASSUME NEW h \in Seq(HistoryMessage), NEW S \in SUBSET DOMAIN h, NEW v, NEW said
  PROVE  Wire!Only(ChatOf(h, v, said), S) = ChatOf(Wire!Only(h, S), v, said)
<1> DEFINE C == ChatOf(h, v, said)
           o == Wire!Only(h, S)
<1>1. /\ o = [k \in 1..Cardinality(S) |-> h[Wire!Position(S, k)]]
      /\ \A k \in 1..Cardinality(S) : Wire!Position(S, k) \in S
  BY OnlyIs
<1>2. Wire!Only(C, S) = [k \in 1..Cardinality(S) |-> C[Wire!Position(S, k)]]
  BY SameCardinality DEF Wire!Only
<1>3. \A i \in S : C[i] = Said(v, h[i], said)
  BY DEF ChatOf
<1> HIDE DEF C, o
<1>4. DOMAIN o = 1..Cardinality(S) /\ \A k \in DOMAIN o : o[k] = h[Wire!Position(S, k)]
  BY <1>1
<1>5. \A k \in 1..Cardinality(S) : C[Wire!Position(S, k)] = Said(v, o[k], said)
  BY <1>1, <1>3, <1>4
<1>6. ChatOf(o, v, said) = [k \in 1..Cardinality(S) |-> Said(v, o[k], said)]
  BY <1>4 DEF ChatOf
<1> QED
  BY <1>2, <1>5, <1>6 DEF C, o

\* Message by message.
LEMMA ChatIs ==
  ASSUME NEW h, NEW v, NEW said
  PROVE  /\ DOMAIN ChatOf(h, v, said) = DOMAIN h
         /\ \A i \in DOMAIN h : ChatOf(h, v, said)[i] = Said(v, h[i], said)
BY DEF ChatOf

\* Turns made of every message of a paired history are paired as for OpenAI.
LEMMA ChatPaired ==
  ASSUME NEW v \in Vendors, NEW said \in Words,
         NEW h \in Seq(HistoryMessage), HistoryPaired(h)
  PROVE  Wire!Paired(v, TurnsOf(v, ChatOf(h, v, said)))
<1> DEFINE C == ChatOf(h, v, said)
           t == TurnsOf(v, C)
<1>1. DOMAIN C = DOMAIN h /\ \A i \in DOMAIN h : C[i] = Said(v, h[i], said)
  BY ChatIs
<1> HIDE DEF C
<1>2. DOMAIN t = DOMAIN C /\ \A i \in DOMAIN C : t[i] = TurnOf(v, C[i])
  BY DEF TurnsOf
<1> HIDE DEF t
<1>3. DOMAIN t = DOMAIN h /\ \A i \in DOMAIN h : t[i] = TurnOf(v, Said(v, h[i], said))
  BY <1>1, <1>2
<1>4. \A i \in DOMAIN h : h[i] \in HistoryMessage
  BY ElementOfSeq
<1>5. \A i \in DOMAIN h : Fits(t[i], v, h[i])
  BY <1>3, <1>4, TurnFits
<1>6. Wire!Paired(v, t)
  BY <1>3, <1>5, PairedTurns
<1> QED
  BY <1>6 DEF t, C

\* And so are those made of a selection that keeps calls and results.
LEMMA SelectedChatPaired ==
  ASSUME NEW v \in Vendors, NEW said \in Words,
         NEW h \in Seq(HistoryMessage), HistoryPaired(h),
         NEW S \in SUBSET DOMAIN h, KeepsTalk(h, S)
  PROVE  Wire!Paired(v, TurnsOf(v, Wire!Only(ChatOf(h, v, said), S)))
<1>1. Wire!Only(h, S) \in Seq(HistoryMessage) /\ HistoryPaired(Wire!Only(h, S))
  BY OnlyPaired
<1>2. Wire!Paired(v, TurnsOf(v, ChatOf(Wire!Only(h, S), v, said)))
  BY <1>1, ChatPaired
<1>3. Wire!Only(ChatOf(h, v, said), S) = ChatOf(Wire!Only(h, S), v, said)
  BY ChatOnly
<1> QED
  BY <1>2, <1>3

\* A message with calls has parts for Google.
LEMMA CallsAreParts ==
  ASSUME NEW v, NEW m \in HistoryMessage, m.role = "assistant", m.n # 0, NEW said \in Words
  PROVE  Wire!GoogleParts(Said(v, m, said).content) # <<>>
<1> DEFINE c == Said(v, m, said).content
<1>1. Speaks(c, v, m)
  BY SaidByModel
<1> HIDE DEF c
<1>2. StartsWithCalls(c, m.n) /\ \A k \in 1..m.n : c[k] = Call(v, m.round, k)
  BY <1>1 DEF Speaks
<1>3. \A k \in 1..m.n : \E id, name, args : c[k] = Wire!ToolCall(id, name, args)
  BY <1>2, CallIs
<1>4. StartsWithCalls(Wire!GoogleParts(c), m.n)
  BY <1>2, <1>3, GooglePartsStart
<1>5. m.n \in Nat /\ m.n <= Len(Wire!GoogleParts(c))
  BY <1>4 DEF StartsWithCalls
<1>6. Len(<<>>) = 0
  BY EmptySeq
<1>7. \A n \in Nat : n <= 0 => n = 0
  OBVIOUS
<1>8. Wire!GoogleParts(c) # <<>>
  BY <1>5, <1>6, <1>7
<1> QED
  BY <1>8 DEF c

\* What a message is to AnthropicCodec and GoogleCodec.
GoogleTold(s) == s.role = "result" \/ (s.role # "system" /\ Wire!GoogleParts(s.content) # <<>>)
Sent(v, chat) ==
  {i \in DOMAIN chat : IF v = "google" THEN GoogleTold(chat[i]) ELSE chat[i].role # "system"}

\* A result and a message with calls are sent.
LEMMA ToldIsSent ==
  ASSUME NEW v, NEW m \in HistoryMessage, NEW said \in Words,
         m.role = "result" \/ (m.role = "assistant" /\ m.n # 0)
  PROVE  GoogleTold(Said(v, m, said)) /\ Said(v, m, said).role # "system"
<1>1. CASE m.role = "result"
  <2>1. Said(v, m, said).role = "result"
    BY <1>1, SaidByOthers
  <2> QED
    BY <2>1 DEF GoogleTold
<1>2. CASE m.role = "assistant" /\ m.n # 0
  <2>1. Said(v, m, said).role = "assistant"
    BY <1>2, SaidByModel
  <2>2. Wire!GoogleParts(Said(v, m, said).content) # <<>>
    BY <1>2, CallsAreParts
  <2> QED
    BY <2>1, <2>2 DEF GoogleTold
<1> QED
  BY <1>1, <1>2

\* The selections of AnthropicCodec and GoogleCodec keep calls and results.
LEMMA SentKeepsTalk ==
  ASSUME NEW v \in Vendors, NEW said \in Words, NEW h \in Seq(HistoryMessage)
  PROVE  /\ Sent(v, ChatOf(h, v, said)) \in SUBSET DOMAIN h
         /\ KeepsTalk(h, Sent(v, ChatOf(h, v, said)))
<1> DEFINE C == ChatOf(h, v, said)
<1>1. DOMAIN C = DOMAIN h /\ \A i \in DOMAIN h : C[i] = Said(v, h[i], said)
  BY ChatIs
<1>2. \A i \in DOMAIN h : h[i] \in HistoryMessage
  BY ElementOfSeq
<1> HIDE DEF C
<1>3. ASSUME NEW i \in DOMAIN h, h[i].role = "result" \/ (h[i].role = "assistant" /\ h[i].n # 0)
      PROVE  i \in Sent(v, C)
  <2>1. h[i] \in HistoryMessage /\ C[i] = Said(v, h[i], said) /\ i \in DOMAIN C
    BY <1>1, <1>2
  <2>2. GoogleTold(C[i]) /\ C[i].role # "system"
    BY <1>3, <2>1, ToldIsSent
  <2> QED
    BY <2>1, <2>2 DEF Sent
<1>4. KeepsTalk(h, Sent(v, C))
  BY <1>3 DEF KeepsTalk
<1>5. Sent(v, C) \in SUBSET DOMAIN h
  BY <1>1 DEF Sent
<1> QED
  BY <1>4, <1>5 DEF C

\* The turns of the body are paired, whichever codec makes it.
LEMMA EncodedPaired ==
  ASSUME NEW v \in Vendors, NEW said \in Words,
         NEW h \in Seq(HistoryMessage), HistoryPaired(h)
  PROVE  Wire!Paired(v, Wire!Turns(v, ChatOf(h, v, said)))
<1> DEFINE C == ChatOf(h, v, said)
<1>1. CASE v = "openai"
  <2>1. Wire!Turns(v, C) = Wire!OpenAITurns(C)
    BY <1>1 DEF Wire!Turns, Wire!Codec
  <2>2. Wire!OpenAITurns(C) = TurnsOf(v, C)
    BY <1>1 DEF Wire!OpenAITurns, TurnsOf, TurnOf
  <2> QED
    BY <2>1, <2>2, ChatPaired
<1>2. CASE v = "anthropic"
  <2>1. Wire!Turns(v, C) = Wire!AnthropicTurns(C)
    BY <1>2 DEF Wire!Turns, Wire!Codec
  <2>2. Wire!AnthropicTurns(C) = TurnsOf(v, Wire!Only(C, Sent(v, C)))
    BY <1>2 DEF Wire!AnthropicTurns, TurnsOf, TurnOf, Sent
  <2> QED
    BY <2>1, <2>2, SentKeepsTalk, SelectedChatPaired
<1>3. CASE v = "google"
  <2>1. Wire!Turns(v, C) = Wire!GoogleTurns(C)
    BY <1>3 DEF Wire!Turns, Wire!Codec
  <2>2. Wire!GoogleTurns(C) = TurnsOf(v, Wire!Only(C, Sent(v, C)))
    BY <1>3 DEF Wire!GoogleTurns, TurnsOf, TurnOf, Sent, GoogleTold
  <2> QED
    BY <2>1, <2>2, SentKeepsTalk, SelectedChatPaired
<1> QED
  BY <1>1, <1>2, <1>3 DEF Vendors

-----------------------------------------------------------------------------
(* What is checked before                                                    *)

\* No call of a history lacks its key.
Keyed(v, m) ==
  /\ m.role = "assistant" => \A k \in 1..m.n : KeyOf(v, m.round, k) # ""
  /\ m.role = "result" => KeyOf(v, m.round, m.n) # ""

\* No key of a call of any round is empty.
LEMMA KeysAreThere ==
  ASSUME NEW v, NEW r \in 0..MaxIterations, NEW k \in 1..MaxCalls
  PROVE  KeyOf(v, r, k) # ""
BY AgentWireAssumption DEF AgentWireAssumption, KeyOf

\* The calls a paired history names are calls of a response: a result has the number of one.
LEMMA HistoryKeyed ==
  ASSUME NEW v, NEW h \in Seq(HistoryMessage), HistoryPaired(h), NEW i \in DOMAIN h
  PROVE  Keyed(v, h[i])
<1>1. \A j \in DOMAIN h : h[j].round \in 0..MaxIterations /\ h[j].n \in 0..MaxCalls
  <2>1. \A j \in DOMAIN h : h[j] \in HistoryMessage
    BY ElementOfSeq
  <2> QED
    BY <2>1 DEF HistoryMessage
<1>2. MaxCalls \in Nat /\ Len(h) \in Nat /\ DOMAIN h = 1..Len(h)
  BY ToolBatchAssumption DEF ToolBatchAssumption
<1>3. \A n \in 0..MaxCalls : \A k \in 1..n : k \in 1..MaxCalls
  BY <1>2
<1>4. ASSUME h[i].role = "assistant", NEW k \in 1..h[i].n
      PROVE  KeyOf(v, h[i].round, k) # ""
  <2>1. k \in 1..MaxCalls /\ h[i].round \in 0..MaxIterations
    BY <1>1, <1>3
  <2> QED
    BY <2>1, KeysAreThere
<1>5. ASSUME h[i].role = "result"
      PROVE  KeyOf(v, h[i].round, h[i].n) # ""
  <2>1. PICK j \in 1..i - 1 : h[j].role = "assistant" /\ i - j \in 1..h[j].n
    BY <1>5 DEF HistoryPaired, Asked
  <2>2. j \in DOMAIN h /\ j + (i - j) = i
    BY <1>2
  <2>3. h[j + (i - j)] = ResultOf(h[j].round, i - j)
    BY <2>1, <2>2 DEF HistoryPaired, Complete
  <2>4. h[i].n = i - j
    BY <2>2, <2>3 DEF ResultOf
  <2>5. h[i].n \in 1..MaxCalls /\ h[i].round \in 0..MaxIterations
    BY <1>1, <1>3, <2>1, <2>2, <2>4
  <2> QED
    BY <2>5, KeysAreThere
<1> QED
  BY <1>4, <1>5 DEF Keyed

Imageless(s) == \A k \in DOMAIN s.content : s.content[k].kind # "image"

\* Nothing that is said of the history is invalid or has an image.
LEMMA SaidIsValid ==
  ASSUME NEW v \in Vendors, NEW m \in HistoryMessage, Keyed(v, m), NEW said \in Words
  PROVE  Wire!Valid(Said(v, m, said)) /\ Imageless(Said(v, m, said))
<1> DEFINE s == Said(v, m, said)
<1>1. CASE m.role = "assistant"
  <2>1. s.role = "assistant" /\ Speaks(s.content, v, m)
    BY <1>1, SaidByModel
  <2> HIDE DEF s
  <2>2. StartsWithCalls(s.content, m.n) /\ \A k \in 1..m.n : s.content[k] = Call(v, m.round, k)
    BY <2>1 DEF Speaks
  <2>3. /\ DOMAIN Wire!CallsIn(s.content) = 1..m.n
        /\ \A k \in 1..m.n : Wire!CallsIn(s.content)[k] = Call(v, m.round, k)
    BY <2>2, CallsOfStart
  <2>4. \A k \in 1..m.n : Wire!CallsIn(s.content)[k].id = KeyOf(v, m.round, k)
    BY <2>3, IdIs
  <2>5. \A k \in 1..m.n : KeyOf(v, m.round, k) # ""
    BY <1>1 DEF Keyed
  <2>6. \A k \in DOMAIN Wire!CallsIn(s.content) : Wire!CallsIn(s.content)[k].id # ""
    BY <2>3, <2>4, <2>5
  <2>7. Wire!Valid(s)
    BY <2>1, <2>6 DEF Wire!Valid
  <2>8. Imageless(s)
    BY <2>1 DEF Imageless, Speaks
  <2> QED
    BY <2>7, <2>8 DEF s
<1>2. CASE m.role # "assistant"
  <2>1. /\ s.role = m.role /\ s.content = <<Wire!Text("text")>>
        /\ m.role = "result" => s.id = Call(v, m.round, m.n).id
    BY <1>2, SaidByOthers
  <2>2. m.role \in {"system", "user", "result"}
    BY <1>2 DEF HistoryMessage
  <2> HIDE DEF s
  <2>3. m.role = "result" => s.id # ""
    BY <2>1, IdIs DEF Keyed
  <2>4. Wire!Text("text").kind = "text"
    BY BlockIs
  <2>5. \A k \in DOMAIN s.content : s.content[k].kind = "text"
    BY <2>1, <2>4
  <2>6. ~Wire!Has(s.content, "call") /\ ~Wire!Has(s.content, "thinking")
    BY <2>5 DEF Wire!Has
  <2>7. Imageless(s)
    BY <2>5 DEF Imageless
  <2>8. Wire!Valid(s)
    BY <2>1, <2>2, <2>3, <2>6 DEF Wire!Valid
  <2> QED
    BY <2>7, <2>8 DEF s
<1> QED
  BY <1>1, <1>2

\* The request as BuildRequest makes it.
OptionsSent(a) == [o \in DOMAIN Wire!Applied(a) \ {"tool_choice"} |-> Wire!Applied(a)[o]]

\* Of a round after the first BuildRequest forgets the option tool_choice, and no other.
LEMMA RequestIs ==
  ASSUME NEW a, NEW ms, NEW tools, NEW it \in Nat, it # 0,
         NEW req, req = Wire!BuildRequest(a, ms, tools, it)
  PROVE  /\ req.messages = ms
         /\ req.model = a.model
         /\ req.tools = Wire!Definitions(a, tools)
         /\ req.options = OptionsSent(a)
<1>1. it > 0
  OBVIOUS
<1> QED
  BY <1>1 DEF Wire!BuildRequest, OptionsSent

\* A limit of tokens is always set, and the level of reasoning is the agent's.
LEMMA OptionsStay ==
  ASSUME NEW a, NEW req, req.options = OptionsSent(a)
  PROVE  /\ "max_tokens" \in DOMAIN req.options
         /\ Wire!Option(req, "reasoning", "disabled") = Wire!Option(a, "reasoning", "disabled")
<1>1. /\ DOMAIN Wire!Applied(a) = DOMAIN a.options \cup {"max_tokens"}
      /\ \A o \in DOMAIN a.options : Wire!Applied(a)[o] = a.options[o]
  BY DEF Wire!Applied
<1>2. /\ DOMAIN req.options = DOMAIN Wire!Applied(a) \ {"tool_choice"}
      /\ \A o \in DOMAIN req.options : req.options[o] = Wire!Applied(a)[o]
  BY DEF OptionsSent
<1>3. "max_tokens" # "tool_choice" /\ "reasoning" # "tool_choice" /\ "reasoning" # "max_tokens"
  OBVIOUS
<1>4. "max_tokens" \in DOMAIN req.options
  BY <1>1, <1>2, <1>3
<1>5. "reasoning" \in DOMAIN req.options <=> "reasoning" \in DOMAIN a.options
  BY <1>1, <1>2, <1>3
<1>6. "reasoning" \in DOMAIN a.options => req.options["reasoning"] = a.options["reasoning"]
  BY <1>1, <1>2, <1>5
<1> QED
  BY <1>4, <1>5, <1>6 DEF Wire!Option

\* No check of validate_request and of encode refuses a request of a paired history.
LEMMA NotRefused ==
  ASSUME NEW v \in Vendors, NEW said \in Words, NEW h \in Seq(HistoryMessage), HistoryPaired(h),
         NEW it \in Nat, it # 0
  PROVE  Wire!Refusals(v, Wire!BuildRequest(Agent, ChatOf(h, v, said), Wire!Offered(Agent), it)) = {}
<1> DEFINE C == ChatOf(h, v, said)
           req == Wire!BuildRequest(Agent, C, Wire!Offered(Agent), it)
           can == Wire!Capabilities(v, Agent.model)
<1>1. /\ req.messages = C
      /\ req.model = Agent.model
      /\ req.tools = Wire!Definitions(Agent, Wire!Offered(Agent))
      /\ req.options = OptionsSent(Agent)
  BY RequestIs
<1>2. /\ "max_tokens" \in DOMAIN req.options
      /\ Wire!Option(req, "reasoning", "disabled") = Wire!Option(Agent, "reasoning", "disabled")
  BY <1>1, OptionsStay
<1>3. \A i \in DOMAIN C : Wire!Valid(C[i]) /\ Imageless(C[i])
  <2>1. DOMAIN C = DOMAIN h /\ \A i \in DOMAIN h : C[i] = Said(v, h[i], said)
    BY ChatIs
  <2>2. \A i \in DOMAIN h : h[i] \in HistoryMessage
    BY ElementOfSeq
  <2>3. \A i \in DOMAIN h : Keyed(v, h[i])
    BY HistoryKeyed
  <2> HIDE DEF C
  <2> QED
    BY <2>1, <2>2, <2>3, SaidIsValid
<1>4. \A i \in DOMAIN C : ~Wire!Has(C[i].content, "image")
  BY <1>3 DEF Imageless, Wire!Has
<1>5. /\ Wire!Option(Agent, "reasoning", "disabled") # "disabled" => can.reasoning
      /\ Wire!Offered(Agent) # <<>> => can.tool_call
  BY AgentWireAssumption DEF AgentWireAssumption
<1>6. Wire!Offered(Agent) = <<>> => Wire!Definitions(Agent, Wire!Offered(Agent)) = <<>>
  BY DEF Wire!Definitions
<1> HIDE DEF C, req, can
<1>7. ~Wire!Unsupported(req, can)
  BY <1>1, <1>2, <1>4, <1>5, <1>6 DEF Wire!Unsupported
<1>8. Wire!Refusals(v, req) = {}
  BY <1>1, <1>2, <1>3, <1>7 DEF Wire!Refusals, can
<1> QED
  BY <1>8 DEF req, C

\* When LLMNode asks, the history is paired.
LEMMA RequestPaired ==
  ASSUME LoopInv, HistoryInv, node \in {"llm", "opening", "streaming"},
         NEW v \in Vendors, NEW said \in Words
  PROVE  /\ Wire!Refusals(v, Request(v, said)) = {}
         /\ Wire!Paired(v, Wire!Encode(v, Request(v, said)).turns)
<1>1. messages \in Seq(HistoryMessage) /\ HistoryPaired(messages)
  BY DEF HistoryInv
<1>2. iterations + 1 \in Nat /\ iterations + 1 # 0
  BY AgentLoopAssumption DEF AgentLoopAssumption, LoopInv, RoundsCounted
<1>3. Request(v, said) =
        Wire!BuildRequest(Agent, ChatOf(messages, v, said), Wire!Offered(Agent), iterations + 1)
  BY DEF Request, Chat, ChatOf
<1>4. Wire!Refusals(v, Request(v, said)) = {}
  BY <1>1, <1>2, <1>3, NotRefused
<1>5. Request(v, said).messages = ChatOf(messages, v, said)
  BY <1>2, <1>3, RequestIs
<1>6. Wire!Encode(v, Request(v, said)).turns = Wire!Turns(v, Request(v, said).messages)
  BY DEF Wire!Encode
<1> QED
  BY <1>1, <1>4, <1>5, <1>6, EncodedPaired

\* Whatever the tools, the limits, the agent and the caller's history, if that is paired: no
\* request of a run is refused before it is sent, and every body has behind each call exactly
\* its result, through restarts, compactions, panics and batches given up.
THEOREM RequestsArePaired == Spec => []WireIsPaired
<1>1. LoopInv /\ HistoryInv => WireIsPaired
  BY RequestPaired DEF WireIsPaired
<1> QED
  BY <1>1, LoopInvariance, HistoryInvariance, PTL
=============================================================================
