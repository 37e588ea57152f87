-------------------------- MODULE ParallelNodeProofs --------------------------
(***************************************************************************)
(* What a parallel node reports, for any number of branches, any state, any    *)
(* merge and any bound on the calls: the first failure, and a parent's state    *)
(* that is touched only if all branches succeeded.  Then what StateMerge makes *)
(* of the branches' states, for any keys and any mutations, and AgentStateMerge  *)
(* of their messages, tokens and endings.  Both need induction along the batches: *)
(* it is derived here from the library's theorem that < is well-founded on Nat.  *)
(***************************************************************************)
EXTENDS ParallelNode, FiniteSetTheorems, SequenceTheorems, WellFoundedInduction, TLAPS

Ended == {"NodeExecutionFailed", "Cancelled", "Suspended", "Stopped",
          "BarrierHandlerMissing", "StepsExceeded"}

TypeOK ==
    /\ done \in [Branch -> {"running", "ok"} \cup Ended]
    /\ errors \in Seq([branch : Branch, error : Ended])
    /\ suspended \in BOOLEAN /\ stopped \in BOOLEAN
    /\ group \in BOOLEAN /\ cancel \in BOOLEAN

\* The siblings are cancelled for a reason: somebody failed before, or stopped the run.
GroupHasCause == group => errors # <<>> \/ stopped

\* If the first error is a cancellation, it came from without.
CancelledFromWithout ==
    errors # <<>> /\ errors[1].error = "Cancelled" => cancel \/ stopped

\* A branch that has ended without success has left its trace.
EndsAreNoted ==
    (\E b \in Branch : done[b] \in Ended) => errors # <<>> \/ suspended \/ stopped

\* Until it returns, the node does not touch the parent's state.
ParentIsBase == outcome = NoOutcome => parent = base

Inv ==
    /\ TypeOK
    /\ GroupHasCause /\ CancelledFromWithout /\ EndsAreNoted /\ ParentIsBase
    /\ FirstFailureTold

LEMMA Initial == Init => Inv
<1> SUFFICES ASSUME Init PROVE Inv
  OBVIOUS
<1>1. TypeOK
  <2>1. done \in [Branch -> {"running", "ok"} \cup Ended]
    BY DEF Init
  <2>2. errors \in Seq([branch : Branch, error : Ended])
    BY DEF Init
  <2> QED
    BY <2>1, <2>2 DEF Init, TypeOK
<1>2. GroupHasCause /\ CancelledFromWithout /\ ParentIsBase
  BY DEF Init, GroupHasCause, CancelledFromWithout, ParentIsBase
<1>3. EndsAreNoted
  BY DEF Init, EndsAreNoted, Ended
<1>4. FirstFailureTold
  BY DEF Init, FirstFailureTold, NoOutcome
<1> QED
  BY <1>1, <1>2, <1>3, <1>4 DEF Inv

\* A step that ends no branch and reports nothing keeps the invariant.
LEMMA KeepsQuiet ==
  ASSUME Inv, outcome = NoOutcome, cancel' \in BOOLEAN, cancel => cancel',
         UNCHANGED <<base, parent, errors, suspended, stopped, group, outcome>>,
         \/ done' = done
         \/ \E b \in Branch : done' = [done EXCEPT ![b] = "ok"]
  PROVE  Inv'
<1>1. done' \in [Branch -> {"running", "ok"} \cup Ended]
  BY DEF Inv, TypeOK
<1>2. TypeOK'
  BY <1>1 DEF Inv, TypeOK
<1>3. GroupHasCause' /\ CancelledFromWithout' /\ ParentIsBase'
  BY DEF Inv, GroupHasCause, CancelledFromWithout, ParentIsBase
<1>4. \A b \in Branch : done'[b] \in Ended => done[b] \in Ended
  BY DEF Inv, TypeOK, Ended
<1>5. EndsAreNoted'
  BY <1>4 DEF Inv, EndsAreNoted
<1>6. FirstFailureTold'
  BY DEF FirstFailureTold, NoOutcome
<1> QED
  BY <1>2, <1>3, <1>5, <1>6 DEF Inv

\* A branch that ends otherwise keeps it if it leaves a trace, and is told as cancelled
\* first only if it was cancelled from without.
LEMMA KeepsEnds ==
  ASSUME Inv, outcome = NoOutcome, NEW b \in Branch, NEW why \in Ended, Ends(b, why),
         errors' \in Seq([branch : Branch, error : Ended]),
         suspended' \in BOOLEAN, stopped' \in BOOLEAN, group' \in BOOLEAN,
         errors' # <<>> \/ suspended' \/ stopped',
         GroupHasCause', CancelledFromWithout'
  PROVE  Inv'
<1>1. TypeOK'
  BY DEF Inv, TypeOK, Ends
<1>2. EndsAreNoted'
  BY DEF EndsAreNoted
<1>3. ParentIsBase' /\ outcome' = NoOutcome
  BY DEF Inv, ParentIsBase, Ends
<1>4. FirstFailureTold'
  BY <1>3 DEF FirstFailureTold, NoOutcome
<1> QED
  BY <1>1, <1>2, <1>3, <1>4 DEF Inv

LEMMA KeepsFails ==
  ASSUME Inv, outcome = NoOutcome, NEW b \in Branch, NEW why \in Ended, Fails(b, why),
         why = "Cancelled" => group \/ cancel
  PROVE  Inv'
<1> DEFINE new == Failed(b, why)
<1>1. new \in [branch : Branch, error : Ended] /\ new.error = why
  BY DEF Failed
<1>2. errors' = Append(errors, new) /\ Ends(b, why) /\ UNCHANGED <<suspended, stopped, cancel>>
  BY DEF Fails, Ends
<1>3. errors \in Seq([branch : Branch, error : Ended])
  BY DEF Inv, TypeOK
<1> HIDE DEF new
<1>4. errors' \in Seq([branch : Branch, error : Ended]) /\ errors' # <<>>
  BY <1>1, <1>2, <1>3
<1>5. errors'[1] = IF errors = <<>> THEN new ELSE errors[1]
  BY <1>1, <1>2, <1>3
<1>6. CancelledFromWithout'
  BY <1>1, <1>2, <1>5 DEF Inv, CancelledFromWithout, GroupHasCause
<1>7. GroupHasCause' /\ group' \in BOOLEAN
  BY <1>4 DEF GroupHasCause, Fails, Inv, TypeOK
<1> QED
  BY <1>2, <1>4, <1>6, <1>7, KeepsEnds DEF Inv, TypeOK

LEMMA KeepsCompletes == ASSUME Inv, NEW b \in Branch, Completes(b) PROVE Inv'
<1>1. outcome = NoOutcome
  BY DEF Completes, Running
<1>2. CASE BodyResult(b) = "ok"
  <2>1. /\ done' = [done EXCEPT ![b] = "ok"]
        /\ UNCHANGED <<base, parent, errors, suspended, stopped, group, cancel, outcome>>
    BY <1>2 DEF Completes
  <2> QED
    BY <1>1, <2>1, KeepsQuiet DEF Inv, TypeOK
<1>3. CASE BodyResult(b) # "ok"
  <2>1. BodyResult(b) \in Ended /\ BodyResult(b) # "Cancelled"
    BY <1>3 DEF BodyResult, Ended
  <2>2. Fails(b, BodyResult(b))
    BY <1>3 DEF Completes
  <2> QED
    BY <1>1, <2>1, <2>2, KeepsFails
<1> QED
  BY <1>2, <1>3

LEMMA KeepsSuspends == ASSUME Inv, NEW b \in Branch, Suspends(b) PROVE Inv'
<1>1. outcome = NoOutcome /\ Ends(b, "Suspended") /\ UNCHANGED <<errors, stopped, group, cancel>>
  BY DEF Suspends, Running, Ends
<1>2. suspended' = TRUE /\ "Suspended" \in Ended
  BY DEF Suspends, Ended
<1>3. GroupHasCause' /\ CancelledFromWithout'
  BY <1>1 DEF Inv, GroupHasCause, CancelledFromWithout
<1> QED
  BY <1>1, <1>2, <1>3, KeepsEnds DEF Inv, TypeOK

LEMMA KeepsStops == ASSUME Inv, NEW b \in Branch, Stops(b) PROVE Inv'
<1>1. outcome = NoOutcome /\ Ends(b, "Stopped") /\ UNCHANGED <<errors, suspended, cancel>>
  BY DEF Stops, Running, Ends
<1>2. stopped' = TRUE /\ group' = TRUE /\ "Stopped" \in Ended
  BY DEF Stops, Ended
<1>3. GroupHasCause' /\ CancelledFromWithout'
  BY <1>2 DEF GroupHasCause, CancelledFromWithout
<1> QED
  BY <1>1, <1>2, <1>3, KeepsEnds DEF Inv, TypeOK

LEMMA KeepsSettle == ASSUME Inv, Settle PROVE Inv'
<1>1. /\ outcome = NoOutcome /\ parent = base
      /\ \A b \in Branch : done[b] # "running"
      /\ UNCHANGED <<base, done, errors, suspended, stopped, group, cancel>>
  BY DEF Settle, Inv, ParentIsBase
<1>2. TypeOK' /\ GroupHasCause' /\ CancelledFromWithout' /\ EndsAreNoted'
  BY <1>1 DEF Inv, TypeOK, GroupHasCause, CancelledFromWithout, EndsAreNoted
<1>3. CASE stopped \/ errors # <<>> \/ suspended
  <2>1. outcome' = Failure /\ parent' = parent
    BY <1>3 DEF Settle
  <2>2. Failure.kind \in {"Stopped", "ParallelFailures", "NodeExecutionFailed", "Suspended"}
    BY DEF Failure, Returned
  <2>3. Failure.kind = "NodeExecutionFailed" =>
            ~stopped /\ errors # <<>> /\ Failure.errors[1] = errors[1]
    BY DEF Failure, Returned, Inv, TypeOK
  <2>4. ParentIsBase'
    BY <1>1, <2>1 DEF ParentIsBase
  <2>5. FirstFailureTold'
    BY <1>1, <2>1, <2>2, <2>3 DEF FirstFailureTold, Inv, CancelledFromWithout
  <2> QED
    BY <1>2, <2>4, <2>5 DEF Inv
<1>4. CASE ~(stopped \/ errors # <<>> \/ suspended)
  <2>1. \A b \in Branch : done'[b] = "ok"
    BY <1>1, <1>4 DEF Inv, TypeOK, EndsAreNoted
  <2>2. outcome' \in {Returned("Ok", <<>>), Returned("StateError", <<>>)}
    BY <1>4 DEF Settle
  <2>3. FirstFailureTold' /\ outcome' # NoOutcome
    BY <2>1, <2>2 DEF FirstFailureTold, Returned, NoOutcome
  <2> QED
    BY <1>2, <2>3 DEF Inv, ParentIsBase
<1> QED
  BY <1>3, <1>4

LEMMA Inductive == Inv /\ [Next]_vars => Inv'
<1> SUFFICES ASSUME Inv, [Next]_vars PROVE Inv'
  OBVIOUS
<1>1. ASSUME NEW b \in Branch, Record(b) \/ Route(b) PROVE Inv'
  BY <1>1, KeepsQuiet DEF Record, Route, Running, Inv, TypeOK
<1>2. ASSUME NEW b \in Branch, Completes(b) PROVE Inv'
  BY <1>2, KeepsCompletes
<1>3. ASSUME NEW b \in Branch, NodeFails(b) PROVE Inv'
  BY <1>3, KeepsFails DEF NodeFails, Running, Ended
<1>4. ASSUME NEW b \in Branch, SeesCancel(b) PROVE Inv'
  BY <1>4, KeepsFails DEF SeesCancel, Running, Ended
<1>5. ASSUME NEW b \in Branch, Suspends(b) \/ Stops(b) PROVE Inv'
  BY <1>5, KeepsSuspends, KeepsStops
<1>6. CASE CancelParent
  BY <1>6, KeepsQuiet DEF CancelParent
<1>7. CASE Settle
  BY <1>7, KeepsSettle
<1>8. CASE UNCHANGED vars
  BY <1>8 DEF vars, Inv, TypeOK, GroupHasCause, CancelledFromWithout, EndsAreNoted,
     ParentIsBase, FirstFailureTold, NoOutcome
<1> QED
  BY <1>1, <1>2, <1>3, <1>4, <1>5, <1>6, <1>7, <1>8 DEF Next

\* Whatever the branches do, in every order: errors are noted before siblings are
\* cancelled, and the parent's state is the base until the node returns.
THEOREM Invariance == Spec => []Inv
BY Initial, Inductive, PTL DEF Spec

\* A fail-fast node returns the failure that came first, not an echo of its own
\* cancellation, and a node that does not succeed leaves the parent's state alone
\* (parallel_execute.rs, ParallelErrorStrategy).
THEOREM TheFirstFailureIsTold == Spec => []FirstFailureTold
<1>1. Inv => FirstFailureTold
  BY DEF Inv
<1> QED
  BY <1>1, Invariance, PTL

-----------------------------------------------------------------------------
(***************************************************************************)
(* Induction.  A least number exists because < is well-founded on Nat; from  *)
(* it follows induction for a set, and that a fold steps through a sequence. *)
(***************************************************************************)
LEMMA Least ==
  ASSUME NEW T \in SUBSET Nat, T # {}
  PROVE  \E x \in T : \A y \in T : x <= y
<1> DEFINE R == OpToRel(<, Nat)
<1>1. IsWellFoundedOn(R, Nat)
  BY NatLessThanWellFounded
<1>2. \A x, y \in Nat : y < x => <<y, x>> \in R
  BY Zenon DEF OpToRel
<1> HIDE DEF R
<1>3. PICK x \in T : \A y \in T : ~ (<<y, x>> \in R)
  BY <1>1, WFMin
<1>4. \A y \in T : ~ (y < x)
  BY <1>2, <1>3
<1> QED
  BY <1>4

LEMMA Induction ==
  ASSUME NEW n \in Nat, NEW S, 0 \in S, \A i \in 0 .. n - 1 : i \in S => i + 1 \in S
  PROVE  0 .. n \subseteq S
<1> DEFINE T == (0 .. n) \ S
<1> SUFFICES ASSUME T # {} PROVE FALSE
  OBVIOUS
<1>0. T \in SUBSET Nat
  OBVIOUS
<1>1. PICK x \in T : \A y \in T : x <= y
  BY <1>0, Least
<1>2. x # 0 /\ x \in 0 .. n
  OBVIOUS
<1>3. x - 1 \in 0 .. n - 1 /\ x - 1 \notin T
  BY <1>1, <1>2
<1> QED
  BY <1>2, <1>3

\* The greatest number of a set of positions.
LEMMA MaxOfUpTo ==
  ASSUME NEW n \in Nat, NEW s \in SUBSET (1 .. n), s # {}
  PROVE  Max(s) \in s /\ \A y \in s : Max(s) >= y
<1> DEFINE T == {k \in 0 .. n : n - k \in s}
<1>1. T \in SUBSET Nat /\ T # {}
  <2>1. PICK x \in s : TRUE
    OBVIOUS
  <2>2. n - x \in 0 .. n /\ n - (n - x) = x
    BY <2>1
  <2>3. T \in SUBSET Nat
    OBVIOUS
  <2> QED
    BY <2>1, <2>2, <2>3
<1>2. PICK k \in T : \A j \in T : k <= j
  BY <1>1, Least
<1>3. n - k \in s
  OBVIOUS
<1>4. \A y \in s : n - k >= y
  <2> SUFFICES ASSUME NEW y \in s PROVE n - k >= y
    OBVIOUS
  <2>1. n - y \in T
    OBVIOUS
  <2> QED
    BY <1>2, <2>1
<1>5. \E x \in s : \A y \in s : x >= y
  BY <1>3, <1>4
<1> QED
  BY <1>5 DEF Max

LEMMA MaxUpTo ==
  ASSUME NEW n \in Nat, NEW i \in 1 .. n
  PROVE  Max(1 .. i) = i /\ (1 .. i) \ {i} = 1 .. i - 1
<1>1. 1 .. i \in SUBSET (1 .. n) /\ 1 .. i # {} /\ i \in 1 .. i
  OBVIOUS
<1>2. Max(1 .. i) \in 1 .. i /\ Max(1 .. i) >= i
  BY <1>1, MaxOfUpTo
<1> QED
  BY <1>2

\* The recursion over the sets of positions by which a fold is defined has a solution.
Folds(m, x0, step, X, h) ==
  /\ h \in [SUBSET (1 .. m) -> X]
  /\ \A s \in SUBSET (1 .. m) :
        h[s] = IF s = {} THEN x0 ELSE step[<<h[s \ {Max(s)}], Max(s)>>]

LEMMA FoldDefined ==
  ASSUME NEW n \in Nat, NEW X, NEW x0 \in X, NEW step \in [X \X (1 .. n) -> X]
  PROVE  \E h : Folds(n, x0, step, X, h)
<1> DEFINE S == {m \in 0 .. n : \E h : Folds(m, x0, step, X, h)}
<1>1. 0 \in S
  <2> DEFINE h == [s \in SUBSET (1 .. 0) |-> x0]
  <2>1. \A s \in SUBSET (1 .. 0) : s = {}
    OBVIOUS
  <2>2. Folds(0, x0, step, X, h)
    BY <2>1 DEF Folds
  <2> QED
    BY <2>2
<1>2. ASSUME NEW m \in 0 .. n - 1, m \in S PROVE m + 1 \in S
  <2>1. PICK h : Folds(m, x0, step, X, h)
    BY <1>2
  <2> DEFINE k == m + 1
             g == [s \in SUBSET (1 .. k) |->
                      IF k \in s THEN step[<<h[s \ {k}], k>>] ELSE h[s]]
  <2>2. \A s \in SUBSET (1 .. k) : /\ s \ {k} \in SUBSET (1 .. m)
                                   /\ k \notin s => s \in SUBSET (1 .. m)
    OBVIOUS
  <2>3. k \in 1 .. n
    OBVIOUS
  <2>4. \A s \in SUBSET (1 .. m) : h[s] \in X
    BY <2>1 DEF Folds
  <2>5. ASSUME NEW s \in SUBSET (1 .. k)
        PROVE  g[s] \in X /\ g[s] = IF s = {} THEN x0 ELSE step[<<g[s \ {Max(s)}], Max(s)>>]
    <3>1. CASE k \in s
      <4>1. k \in Nat /\ s \in SUBSET (1 .. k) /\ s # {}
        BY <3>1
      <4>2. Max(s) = k
        <5>1. Max(s) \in s /\ Max(s) >= k
          BY <3>1, <4>1, MaxOfUpTo
        <5>2. Max(s) \in 1 .. k
          BY <4>1, <5>1
        <5> QED
          BY <4>1, <5>1, <5>2
      <4>3. g[s] = step[<<h[s \ {k}], k>>] /\ h[s \ {k}] \in X
        BY <2>2, <2>4, <3>1
      <4>4. s \ {k} \in SUBSET (1 .. k) /\ k \notin s \ {k}
        OBVIOUS
      <4>5. g[s \ {k}] = h[s \ {k}]
        BY <4>4
      <4> QED
        BY <2>3, <3>1, <4>2, <4>3, <4>5
    <3>2. CASE k \notin s
      <4>1. g[s] = h[s] /\ s \in SUBSET (1 .. m)
        BY <2>2, <3>2
      <4>2. CASE s = {}
        BY <2>1, <4>1, <4>2 DEF Folds
      <4>3. CASE s # {}
        <5>1. s \ {Max(s)} \in SUBSET (1 .. k) /\ k \notin s \ {Max(s)}
          BY <3>2
        <5>2. g[s \ {Max(s)}] = h[s \ {Max(s)}]
          BY <5>1
        <5> QED
          BY <2>1, <4>1, <4>3, <5>2 DEF Folds
      <4> QED
        BY <4>2, <4>3
    <3> QED
      BY <3>1, <3>2
  <2>6. g \in [SUBSET (1 .. k) -> X]
    BY <2>5
  <2> HIDE DEF g
  <2>7. Folds(k, x0, step, X, g)
    BY <2>5, <2>6 DEF Folds
  <2> QED
    BY <2>7
<1> HIDE DEF S
<1>3. 0 .. n \subseteq S
  BY <1>1, <1>2, Induction
<1> QED
  BY <1>3 DEF S


\* Whatever solves the recursion along the values in X goes through a sequence of them.
Recurs(h, n, x0, step, X) ==
  /\ h[{}] = x0
  /\ \A s \in SUBSET (1 .. n) :
        s # {} /\ h[s \ {Max(s)}] \in X => h[s] = step[<<h[s \ {Max(s)}], Max(s)>>]

Trace(tr, h, n, x0, step, X) ==
  /\ tr \in [0 .. n -> X] /\ tr[0] = x0 /\ tr[n] = h[1 .. n]
  /\ \A i \in 1 .. n : tr[i] = step[<<tr[i - 1], i>>]

LEMMA FoldTrace ==
  ASSUME NEW n \in Nat, NEW X, NEW x0 \in X, NEW step \in [X \X (1 .. n) -> X], NEW h,
         Recurs(h, n, x0, step, X)
  PROVE  \E tr : Trace(tr, h, n, x0, step, X)
<1> DEFINE tr == [i \in 0 .. n |-> h[1 .. i]]
<1>1. h[{}] = x0 /\ 1 .. 0 = {}
  BY DEF Recurs
<1>2. ASSUME NEW i \in 1 .. n, h[1 .. i - 1] \in X
      PROVE  h[1 .. i] = step[<<h[1 .. i - 1], i>>]
  <2>1. Max(1 .. i) = i /\ (1 .. i) \ {i} = 1 .. i - 1
    BY MaxUpTo
  <2>2. 1 .. i \in SUBSET (1 .. n) /\ 1 .. i # {}
    OBVIOUS
  <2> QED
    BY <1>2, <2>1, <2>2 DEF Recurs
<1> DEFINE S == {i \in 0 .. n : h[1 .. i] \in X}
<1>3. 0 .. n \subseteq S
  <2>1. 0 \in S
    BY <1>1
  <2>2. ASSUME NEW i \in 0 .. n - 1, i \in S PROVE i + 1 \in S
    <3>1. i + 1 \in 1 .. n /\ (i + 1) - 1 = i /\ h[1 .. i] \in X
      BY <2>2
    <3>2. h[1 .. i + 1] = step[<<h[1 .. i], i + 1>>]
      BY <1>2, <3>1
    <3>3. h[1 .. i + 1] \in X
      BY <3>1, <3>2
    <3> QED
      BY <3>1, <3>3
  <2> HIDE DEF S
  <2> QED
    BY <2>1, <2>2, Induction
<1>4. \A i \in 0 .. n : h[1 .. i] \in X
  BY <1>3
<1>5. tr \in [0 .. n -> X] /\ tr[n] = h[1 .. n] /\ tr[0] = x0
  BY <1>1, <1>4
<1>6. \A i \in 1 .. n : tr[i] = step[<<tr[i - 1], i>>]
  <2> SUFFICES ASSUME NEW i \in 1 .. n PROVE tr[i] = step[<<tr[i - 1], i>>]
    OBVIOUS
  <2>1. i - 1 \in 0 .. n /\ i \in 0 .. n
    OBVIOUS
  <2> QED
    BY <1>2, <1>4, <2>1
<1> HIDE DEF tr
<1> QED
  BY <1>5, <1>6 DEF Trace

(***************************************************************************)
(* A batch of Put and Delete, seen from one key.                            *)
(***************************************************************************)
KeyState == UNION {[held -> Value] : held \in SUBSET Key}

LEMMA AppliedIsState ==
  ASSUME NEW s \in KeyState, NEW m \in StateMutation
  PROVE  ApplyState(s, m) \in KeyState
<1>1. PICK held \in SUBSET Key : s \in [held -> Value]
  BY DEF KeyState
<1>2. CASE m.kind = "Delete"
  <2>1. ApplyState(s, m) = [j \in held \ {m.key} |-> s[j]]
    BY <1>1, <1>2 DEF ApplyState, Without
  <2>2. held \ {m.key} \in SUBSET Key
    OBVIOUS
  <2>3. ApplyState(s, m) \in [held \ {m.key} -> Value]
    BY <1>1, <2>1
  <2> QED
    BY <2>2, <2>3 DEF KeyState
<1>3. CASE m.kind # "Delete"
  <2>1. m.key \in Key /\ m.value \in Value
    BY <1>3 DEF StateMutation, Put, Delete
  <2>2. ApplyState(s, m) = [j \in held \cup {m.key} |-> IF j = m.key THEN m.value ELSE s[j]]
    BY <1>1, <1>3 DEF ApplyState
  <2>3. held \cup {m.key} \in SUBSET Key
    BY <2>1
  <2>4. ApplyState(s, m) \in [held \cup {m.key} -> Value]
    BY <1>1, <2>1, <2>2
  <2> QED
    BY <2>3, <2>4 DEF KeyState
<1> QED
  BY <1>2, <1>3

\* The states a fold of a batch goes through.
StateTrace(tr, s0, batch) ==
  /\ tr \in [0 .. Len(batch) -> KeyState]
  /\ tr[0] = s0
  /\ \A i \in 1 .. Len(batch) : tr[i] = ApplyState(tr[i - 1], batch[i])

LEMMA StateFold ==
  ASSUME NEW s0 \in KeyState, NEW batch \in Seq(StateMutation)
  PROVE  \E tr : StateTrace(tr, s0, batch) /\ FoldLeft(ApplyState, s0, batch) = tr[Len(batch)]
<1> DEFINE n == Len(batch)
           step == [p \in KeyState \X (1 .. n) |-> ApplyState(p[1], batch[p[2]])]
           Solves(h) == h = [s \in SUBSET (1 .. n) |->
                               IF s = {} THEN s0 ELSE ApplyState(h[s \ {Max(s)}], batch[Max(s)])]
           h == CHOOSE h : Solves(h)
<1>1. n \in Nat /\ DOMAIN batch = 1 .. n /\ \A i \in 1 .. n : batch[i] \in StateMutation
  OBVIOUS
<1>2. step \in [KeyState \X (1 .. n) -> KeyState]
  BY <1>1, AppliedIsState
<1>3. \A x \in KeyState, i \in 1 .. n : step[<<x, i>>] = ApplyState(x, batch[i])
  OBVIOUS
<1> HIDE DEF n, step
<1>4. \E g : Solves(g)
  <2>1. PICK g : Folds(n, s0, step, KeyState, g)
    BY <1>1, <1>2, FoldDefined
  <2>2. ASSUME NEW s \in SUBSET (1 .. n)
        PROVE  g[s] = IF s = {} THEN s0 ELSE ApplyState(g[s \ {Max(s)}], batch[Max(s)])
    <3>1. CASE s = {}
      BY <2>1, <3>1 DEF Folds
    <3>2. CASE s # {}
      <4>1. Max(s) \in 1 .. n
        BY <1>1, <3>2, MaxOfUpTo
      <4>2. g[s \ {Max(s)}] \in KeyState /\ g[s] = step[<<g[s \ {Max(s)}], Max(s)>>]
        BY <2>1, <3>2 DEF Folds
      <4> QED
        BY <1>3, <3>2, <4>1, <4>2
    <3> QED
      BY <3>1, <3>2
  <2>3. Solves(g)
    BY <2>1, <2>2 DEF Folds
  <2> QED
    BY <2>3
<1>5. Solves(h)
  <2> HIDE DEF Solves
  <2> QED
    BY <1>4
<1>6. FoldLeft(ApplyState, s0, batch) = h[1 .. n]
  BY <1>1 DEF FoldLeft, MapThenFoldSet
<1> HIDE DEF h
<1>7. Recurs(h, n, s0, step, KeyState)
  <2>1. h[{}] = s0
    BY <1>5
  <2>2. ASSUME NEW s \in SUBSET (1 .. n), s # {}, h[s \ {Max(s)}] \in KeyState
        PROVE  h[s] = step[<<h[s \ {Max(s)}], Max(s)>>]
    <3>1. Max(s) \in 1 .. n
      BY <1>1, <2>2, MaxOfUpTo
    <3> QED
      BY <1>3, <1>5, <2>2, <3>1
  <2> QED
    BY <2>1, <2>2 DEF Recurs
<1>8. PICK tr : Trace(tr, h, n, s0, step, KeyState)
  BY <1>1, <1>2, <1>7, FoldTrace
<1>9. \A i \in 1 .. n : tr[i - 1] \in KeyState
  BY <1>1, <1>8 DEF Trace
<1>10. StateTrace(tr, s0, batch)
  BY <1>3, <1>8, <1>9 DEF StateTrace, Trace, n
<1> QED
  BY <1>6, <1>8, <1>10 DEF n, Trace


Effect(m) == IF m.kind = "Delete" THEN <<>> ELSE <<m.value>>

\* What a batch leaves under key k where it found e0: what its last mutation of k says, or
\* e0 if it has none.
Leaves(batch, k, e0, e) ==
  \/ (\A i \in DOMAIN batch : batch[i].key # k) /\ e = e0
  \/ \E j \in DOMAIN batch :
        /\ batch[j].key = k /\ e = Effect(batch[j])
        /\ \A i \in DOMAIN batch : i > j => batch[i].key # k

LEMMA AppliedAtKey ==
  ASSUME NEW s \in KeyState, NEW m \in StateMutation, NEW k \in Key
  PROVE  Entry(ApplyState(s, m), k) = IF m.key = k THEN Effect(m) ELSE Entry(s, k)
<1>1. CASE m.kind = "Delete"
  <2>1. ApplyState(s, m) = [j \in DOMAIN s \ {m.key} |-> s[j]]
    BY <1>1 DEF ApplyState, Without
  <2> QED
    BY <1>1, <2>1 DEF Entry, Effect
<1>2. CASE m.kind # "Delete"
  <2>1. ApplyState(s, m) = [j \in DOMAIN s \cup {m.key} |-> IF j = m.key THEN m.value ELSE s[j]]
    BY <1>2 DEF ApplyState
  <2> QED
    BY <1>2, <2>1 DEF Entry, Effect
<1> QED
  BY <1>1, <1>2

LEMMA FoldAtKey ==
  ASSUME NEW s0 \in KeyState, NEW batch \in Seq(StateMutation), NEW k \in Key
  PROVE  Leaves(batch, k, Entry(s0, k), Entry(FoldLeft(ApplyState, s0, batch), k))
<1>1. PICK tr : StateTrace(tr, s0, batch) /\ FoldLeft(ApplyState, s0, batch) = tr[Len(batch)]
  BY StateFold
<1> DEFINE n == Len(batch)
           Upto(i) == \/ (\A l \in 1 .. i : batch[l].key # k) /\ Entry(tr[i], k) = Entry(s0, k)
                      \/ \E j \in 1 .. i :
                            /\ batch[j].key = k /\ Entry(tr[i], k) = Effect(batch[j])
                            /\ \A l \in 1 .. i : l > j => batch[l].key # k
           S == {i \in 0 .. n : Upto(i)}
<1>2. n \in Nat /\ DOMAIN batch = 1 .. n /\ \A i \in 1 .. n : batch[i] \in StateMutation
  OBVIOUS
<1>3. 0 \in S
  <2>1. tr[0] = s0 /\ \A l \in 1 .. 0 : FALSE
    BY <1>1 DEF StateTrace
  <2> QED
    BY <1>2, <2>1
<1>4. ASSUME NEW i \in 0 .. n - 1, i \in S PROVE i + 1 \in S
  <2> DEFINE p == i + 1
  <2>1. p \in 1 .. n /\ p - 1 = i /\ 1 .. p = 1 .. i \cup {p} /\ \A l \in 1 .. i : l < p
    BY <1>2
  <2>2. tr[p] = ApplyState(tr[i], batch[p]) /\ tr[i] \in KeyState /\ batch[p] \in StateMutation
    BY <1>1, <1>2, <2>1 DEF StateTrace
  <2>3. Entry(tr[p], k) = IF batch[p].key = k THEN Effect(batch[p]) ELSE Entry(tr[i], k)
    BY <2>2, AppliedAtKey
  <2> HIDE DEF p
  <2>4. CASE batch[p].key = k
    <3>1. Entry(tr[p], k) = Effect(batch[p]) /\ \A l \in 1 .. p : ~ (l > p)
      BY <2>1, <2>3, <2>4
    <3>2. Upto(p)
      BY <2>1, <2>4, <3>1
    <3> QED
      BY <2>1, <3>2 DEF p
  <2>5. CASE batch[p].key # k
    <3>1. Entry(tr[p], k) = Entry(tr[i], k)
      BY <2>3, <2>5
    <3>2. Upto(i)
      BY <1>4
    <3>3. Upto(p)
      BY <2>1, <2>5, <3>1, <3>2
    <3> QED
      BY <2>1, <3>3 DEF p
  <2> QED
    BY <2>4, <2>5
<1> HIDE DEF S, n
<1>5. 0 .. n \subseteq S
  BY <1>2, <1>3, <1>4, Induction
<1>6. Upto(n)
  BY <1>2, <1>5 DEF S
<1> QED
  BY <1>1, <1>2, <1>6 DEF Leaves, n

LEMMA LeavesOnce ==
  ASSUME NEW batch \in Seq(StateMutation), NEW k \in Key, NEW e0, NEW e, NEW f,
         Leaves(batch, k, e0, e), Leaves(batch, k, e0, f)
  PROVE  e = f
<1>1. DOMAIN batch = 1 .. Len(batch) /\ Len(batch) \in Nat
  OBVIOUS
<1> QED
  BY <1>1 DEF Leaves

LEMMA LeavesAfter ==
  ASSUME NEW s \in Seq(StateMutation), NEW t \in Seq(StateMutation), NEW k \in Key,
         NEW e0, NEW e1, NEW e2, Leaves(s, k, e0, e1), Leaves(t, k, e1, e2)
  PROVE  Leaves(s \o t, k, e0, e2)
<1> DEFINE u == s \o t
           m == Len(s)
           n == Len(t)
<1>1. /\ m \in Nat /\ n \in Nat /\ DOMAIN s = 1 .. m /\ DOMAIN t = 1 .. n
      /\ DOMAIN u = 1 .. m + n
      /\ \A i \in 1 .. m : u[i] = s[i]
      /\ \A i \in 1 .. n : u[m + i] = t[i]
  OBVIOUS
<1>2. \A i \in 1 .. m + n : i > m => i - m \in 1 .. n /\ u[i] = t[i - m]
  BY <1>1
<1> HIDE DEF u, m, n
<1>3. CASE (\A i \in DOMAIN t : t[i].key # k) /\ e2 = e1
  <2>1. \A i \in 1 .. m + n : i > m => u[i].key # k
    BY <1>1, <1>2, <1>3
  <2>2. CASE (\A i \in DOMAIN s : s[i].key # k) /\ e1 = e0
    BY <1>1, <1>3, <2>1, <2>2 DEF Leaves, u
  <2>3. CASE \E j \in DOMAIN s :
                /\ s[j].key = k /\ e1 = Effect(s[j])
                /\ \A i \in DOMAIN s : i > j => s[i].key # k
    <3>1. PICK j \in 1 .. m : /\ s[j].key = k /\ e1 = Effect(s[j])
                              /\ \A i \in 1 .. m : i > j => s[i].key # k
      BY <1>1, <2>3
    <3>2. j \in DOMAIN u /\ u[j].key = k /\ e2 = Effect(u[j])
      BY <1>1, <1>3, <3>1
    <3>3. \A i \in DOMAIN u : i > j => u[i].key # k
      BY <1>1, <2>1, <3>1
    <3> QED
      BY <3>2, <3>3 DEF Leaves, u
  <2> QED
    BY <2>2, <2>3 DEF Leaves
<1>4. CASE \E j \in DOMAIN t :
              /\ t[j].key = k /\ e2 = Effect(t[j])
              /\ \A i \in DOMAIN t : i > j => t[i].key # k
  <2>1. PICK j \in 1 .. n : /\ t[j].key = k /\ e2 = Effect(t[j])
                            /\ \A i \in 1 .. n : i > j => t[i].key # k
    BY <1>1, <1>4
  <2>2. m + j \in DOMAIN u /\ u[m + j].key = k /\ e2 = Effect(u[m + j])
    BY <1>1, <2>1
  <2>3. \A i \in DOMAIN u : i > m + j => u[i].key # k
    <3> SUFFICES ASSUME NEW i \in 1 .. m + n, i > m + j PROVE u[i].key # k
      BY <1>1
    <3>1. i > m /\ i - m \in 1 .. n /\ i - m > j
      BY <1>1, <1>2
    <3> QED
      BY <1>2, <2>1, <3>1
  <2> QED
    BY <2>2, <2>3 DEF Leaves, u
<1> QED
  BY <1>3, <1>4 DEF Leaves


(***************************************************************************)
(* Batches one after the other.                                             *)
(***************************************************************************)
Joins(n, segs, M, g) ==
  /\ g \in [1 .. n -> Seq(M)]
  /\ \A i \in 1 .. n : g[i] = IF i = 1 THEN segs[i] ELSE g[i - 1] \o segs[i]

LEMMA Flattened ==
  ASSUME NEW n \in Nat \ {0}, NEW M, NEW segs \in [1 .. n -> Seq(M)]
  PROVE  \E g : Joins(n, segs, M, g) /\ FlattenSeq(segs) = g[n]
<1> DEFINE S == {m \in 0 .. n : \E g : Joins(m, segs, M, g)}
<1>1. 0 \in S
  <2> DEFINE g == [i \in 1 .. 0 |-> <<>>]
  <2>1. \A i \in 1 .. 0 : FALSE
    OBVIOUS
  <2>2. Joins(0, segs, M, g)
    BY <2>1 DEF Joins
  <2> QED
    BY <2>2
<1>2. ASSUME NEW m \in 0 .. n - 1, m \in S PROVE m + 1 \in S
  <2>1. PICK g : Joins(m, segs, M, g)
    BY <1>2
  <2> DEFINE p == m + 1
             h == [i \in 1 .. p |->
                      IF i = p THEN IF p = 1 THEN segs[p] ELSE g[m] \o segs[p] ELSE g[i]]
  <2>2. p \in 1 .. n /\ p - 1 = m /\ p \in Nat /\ \A i \in 1 .. p : i # p => i \in 1 .. m
    OBVIOUS
  <2>3. segs[p] \in Seq(M) /\ (p # 1 => m \in 1 .. m /\ g[m] \in Seq(M))
    BY <2>1, <2>2 DEF Joins
  <2>4. \A i \in 1 .. p : h[i] \in Seq(M)
    BY <2>1, <2>2, <2>3 DEF Joins
  <2>5. ASSUME NEW i \in 1 .. p
        PROVE  h[i] = IF i = 1 THEN segs[i] ELSE h[i - 1] \o segs[i]
    <3>1. CASE i = p
      <4>1. CASE p = 1
        BY <3>1, <4>1
      <4>2. CASE p # 1
        <5>1. m \in 1 .. p /\ m # p
          BY <2>2, <4>2
        <5>2. h[m] = g[m]
          BY <5>1
        <5> QED
          BY <2>2, <3>1, <4>2, <5>2
      <4> QED
        BY <4>1, <4>2
    <3>2. CASE i # p
      <4>1. i \in 1 .. m /\ h[i] = g[i]
        BY <2>2, <3>2
      <4>2. i # 1 => i - 1 \in 1 .. p /\ i - 1 # p
        BY <2>2
      <4>3. i # 1 => h[i - 1] = g[i - 1]
        BY <4>2
      <4> QED
        BY <2>1, <4>1, <4>3 DEF Joins
    <3> QED
      BY <3>1, <3>2
  <2>6. h \in [1 .. p -> Seq(M)]
    BY <2>4
  <2> HIDE DEF h
  <2>7. Joins(p, segs, M, h)
    BY <2>5, <2>6 DEF Joins
  <2> QED
    BY <2>2, <2>7
<1> HIDE DEF S
<1>3. 0 .. n \subseteq S
  BY <1>1, <1>2, Induction
<1>4. PICK g : Joins(n, segs, M, g)
  BY <1>3 DEF S
<1> DEFINE Solves(h) == h = [i \in 1 .. n |-> IF i = 1 THEN segs[i] ELSE h[i - 1] \o segs[i]]
           h == CHOOSE h : Solves(h)
<1>5. Solves(g)
  BY <1>4 DEF Joins
<1>6. Solves(h)
  <2>1. \E f : Solves(f)
    BY <1>5
  <2> HIDE DEF Solves
  <2> QED
    BY <2>1
<1>7. Len(segs) = n
  OBVIOUS
<1>8. FlattenSeq(segs) = h[n]
  BY <1>7 DEF FlattenSeq
<1> HIDE DEF h
<1> DEFINE T == {i \in 0 .. n : i = 0 \/ h[i] = g[i]}
<1>9. 0 .. n \subseteq T
  <2>1. 0 \in T
    OBVIOUS
  <2>2. ASSUME NEW i \in 0 .. n - 1, i \in T PROVE i + 1 \in T
    <3>1. i + 1 \in 1 .. n /\ (i + 1) - 1 = i
      OBVIOUS
    <3>2. h[i + 1] = IF i + 1 = 1 THEN segs[i + 1] ELSE h[i] \o segs[i + 1]
      BY <1>6, <3>1
    <3>3. g[i + 1] = IF i + 1 = 1 THEN segs[i + 1] ELSE g[i] \o segs[i + 1]
      BY <1>4, <3>1 DEF Joins
    <3> QED
      BY <2>2, <3>1, <3>2, <3>3
  <2> HIDE DEF T
  <2> QED
    BY <2>1, <2>2, Induction
<1>10. h[n] = g[n]
  BY <1>9
<1> QED
  BY <1>4, <1>8, <1>10

\* If every batch but the last leaves what it found under k, all of them one after the
\* other leave what the last one does.
LEMMA LastOneCounts ==
  ASSUME NEW n \in Nat \ {0}, NEW segs \in [1 .. n -> Seq(StateMutation)],
         NEW k \in Key, NEW e0, NEW e,
         \A i \in 1 .. n - 1 : Leaves(segs[i], k, e0, e0), Leaves(segs[n], k, e0, e)
  PROVE  FlattenSeq(segs) \in Seq(StateMutation) /\ Leaves(FlattenSeq(segs), k, e0, e)
<1>1. PICK g : Joins(n, segs, StateMutation, g) /\ FlattenSeq(segs) = g[n]
  BY Flattened
<1> DEFINE S == {i \in 0 .. n - 1 : i # 0 => Leaves(g[i], k, e0, e0)}
<1>2. 0 .. n - 1 \subseteq S
  <2>1. 0 \in S /\ n - 1 \in Nat
    OBVIOUS
  <2>2. ASSUME NEW i \in 0 .. (n - 1) - 1, i \in S PROVE i + 1 \in S
    <3>1. i + 1 \in 1 .. n - 1 /\ i + 1 \in 1 .. n /\ (i + 1) - 1 = i /\ (i # 0 => i \in 1 .. n)
      OBVIOUS
    <3>2. Leaves(segs[i + 1], k, e0, e0) /\ segs[i + 1] \in Seq(StateMutation)
      BY <3>1
    <3>3. g[i + 1] = IF i + 1 = 1 THEN segs[i + 1] ELSE g[i] \o segs[i + 1]
      BY <1>1, <3>1 DEF Joins
    <3>4. CASE i = 0
      BY <3>1, <3>2, <3>3, <3>4
    <3>5. CASE i # 0
      <4>1. g[i] \in Seq(StateMutation) /\ Leaves(g[i], k, e0, e0)
        BY <1>1, <2>2, <3>1, <3>5 DEF Joins
      <4>2. Leaves(g[i] \o segs[i + 1], k, e0, e0)
        BY <3>2, <4>1, LeavesAfter
      <4> QED
        BY <3>1, <3>3, <3>5, <4>2
    <3> QED
      BY <3>4, <3>5
  <2> HIDE DEF S
  <2> QED
    BY <2>1, <2>2, Induction
<1>3. g[n] \in Seq(StateMutation) /\ segs[n] \in Seq(StateMutation)
      /\ g[n] = IF n = 1 THEN segs[n] ELSE g[n - 1] \o segs[n]
  <2>1. n \in 1 .. n
    OBVIOUS
  <2> QED
    BY <1>1, <2>1 DEF Joins
<1>4. CASE n = 1
  BY <1>1, <1>3, <1>4
<1>5. CASE n # 1
  <2>1. n - 1 \in 0 .. n - 1 /\ n - 1 # 0 /\ n - 1 \in 1 .. n
    BY <1>5
  <2>2. Leaves(g[n - 1], k, e0, e0) /\ g[n - 1] \in Seq(StateMutation)
    BY <1>1, <1>2, <2>1 DEF Joins
  <2> QED
    BY <1>1, <1>3, <1>5, <2>2, LeavesAfter
<1> QED
  BY <1>4, <1>5


(***************************************************************************)
(* The node keeps, for every branch that succeeded, the batch and the state  *)
(* it made of the base; the parent's state is a merge of those.              *)
(***************************************************************************)
Kept ==
  /\ base = IF strategy = "AgentStateMerge" THEN AgentBase ELSE StateBase
  /\ DOMAIN calls = Branch /\ \A b \in Branch : calls[b] \in Seq(Mutation(b))
  /\ DOMAIN states = Branch
  /\ \A b \in Branch : done[b] = "ok" => states[b] = apply_batch(base, calls[b])
  /\ outcome.kind = "Ok" =>
        parent \in Merge(base, states) /\ \A b \in Branch : done[b] = "ok"

LEMMA KeptInitially == Init => Kept
<1> SUFFICES ASSUME Init PROVE Kept
  OBVIOUS
<1>1. \A b \in Branch : <<>> \in Seq(Mutation(b))
  OBVIOUS
<1> QED
  BY <1>1 DEF Init, Kept, NoOutcome

\* A step of one branch that has not ended leaves what the others made.
LEMMA BranchKeeps ==
  ASSUME Inv, Kept, NEW b \in Branch, Running(b),
         UNCHANGED <<strategy, base, outcome>>,
         DOMAIN calls' = Branch, calls'[b] \in Seq(Mutation(b)), DOMAIN states' = Branch,
         \A c \in Branch \ {b} : /\ calls'[c] = calls[c] /\ done'[c] = done[c]
                                 /\ states'[c] = states[c],
         done'[b] = "ok" => states'[b] = apply_batch(base, calls'[b])
  PROVE  Kept'
<1>1. outcome' = NoOutcome
  BY DEF Running
<1>2. \A c \in Branch : Mutation(c)' = Mutation(c)
  BY DEF Mutation
<1>3. \A c \in Branch : apply_batch(base, calls[c])' = apply_batch(base, calls'[c])
  BY DEF apply_batch
<1>4. \A c \in Branch : calls'[c] \in Seq(Mutation(c))
  BY DEF Kept
<1>5. \A c \in Branch : done'[c] = "ok" => states'[c] = apply_batch(base, calls'[c])
  BY DEF Kept
<1> QED
  BY <1>1, <1>2, <1>3, <1>4, <1>5 DEF Kept, NoOutcome

LEMMA BranchStepKeeps ==
  ASSUME Inv, Kept, NEW b \in Branch,
         Record(b) \/ Route(b) \/ Completes(b) \/ NodeFails(b) \/ SeesCancel(b)
         \/ Suspends(b) \/ Stops(b)
  PROVE  Kept'
<1>1. done \in [Branch -> {"running", "ok"} \cup Ended] /\ "ok" \notin Ended
  BY DEF Inv, TypeOK, Ended
<1>2. DOMAIN calls = Branch /\ calls[b] \in Seq(Mutation(b)) /\ DOMAIN states = Branch
      /\ <<>> \in Seq(Mutation(b))
  BY DEF Kept
<1>3. Running(b)
  BY DEF Record, Route, Completes, NodeFails, SeesCancel, Suspends, Stops
<1>4. CASE Record(b)
  <2>1. PICK m \in Mutation(b) : calls' = [calls EXCEPT ![b] = Append(calls[b], m)]
    BY <1>4 DEF Record
  <2>2. Append(calls[b], m) \in Seq(Mutation(b))
    BY <1>2
  <2>3. done[b] = "running" /\ UNCHANGED <<strategy, base, outcome, done, states>>
    BY <1>4 DEF Record, Running
  <2> QED
    BY <1>2, <1>3, <2>1, <2>2, <2>3, BranchKeeps
<1>5. CASE Route(b)
  <2>1. done[b] = "running" /\ UNCHANGED <<strategy, base, outcome, done, states, calls>>
    BY <1>5 DEF Route, Running
  <2> QED
    BY <1>2, <1>3, <2>1, BranchKeeps
<1>6. CASE Completes(b) /\ BodyResult(b) = "ok"
  <2>1. /\ done' = [done EXCEPT ![b] = "ok"]
        /\ states' = [states EXCEPT ![b] = apply_batch(base, calls[b])]
        /\ UNCHANGED <<strategy, base, outcome, calls>>
    BY <1>6 DEF Completes
  <2> QED
    BY <1>1, <1>2, <1>3, <2>1, BranchKeeps
<1>7. ASSUME NEW why \in Ended, Ends(b, why) PROVE Kept'
  <2>1. /\ done' = [done EXCEPT ![b] = why] /\ calls' = [calls EXCEPT ![b] = <<>>]
        /\ UNCHANGED <<strategy, base, outcome, states>>
    BY <1>7 DEF Ends
  <2> QED
    BY <1>1, <1>2, <1>3, <2>1, BranchKeeps
<1>8. CASE Completes(b) /\ BodyResult(b) # "ok"
  <2>1. BodyResult(b) \in Ended /\ Ends(b, BodyResult(b))
    BY <1>8 DEF BodyResult, Ended, Completes, Fails
  <2> QED
    BY <1>7, <2>1
<1>9. CASE NodeFails(b) \/ SeesCancel(b) \/ Suspends(b) \/ Stops(b)
  BY <1>7, <1>9 DEF NodeFails, SeesCancel, Suspends, Stops, Fails, Ended
<1> QED
  BY <1>4, <1>5, <1>6, <1>8, <1>9

LEMMA SettleKeeps == ASSUME Inv, Kept, Settle PROVE Kept'
<1> USE DEF Settle
<1>1. UNCHANGED <<strategy, base, calls, states, done>>
  OBVIOUS
<1>2. \A b \in Branch : /\ Mutation(b)' = Mutation(b)
                        /\ apply_batch(base, calls[b])' = apply_batch(base, calls[b])
  BY <1>1 DEF Mutation, apply_batch
<1>3. Merge(base, states)' = Merge(base, states)
  BY <1>1 DEF Merge
<1>4. outcome'.kind = "Ok" =>
          parent' \in Merge(base, states) /\ \A b \in Branch : done[b] = "ok"
  <2>1. CASE stopped \/ errors # <<>> \/ suspended
    BY <2>1 DEF Failure, Returned
  <2>2. CASE ~(stopped \/ errors # <<>> \/ suspended)
    <3>1. \A b \in Branch : done[b] = "ok"
      BY <2>2 DEF Inv, TypeOK, EndsAreNoted
    <3> QED
      BY <2>2, <3>1 DEF Returned
  <2> QED
    BY <2>1, <2>2
<1> QED
  BY <1>1, <1>2, <1>3, <1>4 DEF Kept

LEMMA KeptInductive == Inv /\ Kept /\ [Next]_vars => Kept'
<1> SUFFICES ASSUME Inv, Kept, [Next]_vars PROVE Kept'
  OBVIOUS
<1>1. ASSUME NEW b \in Branch,
             Record(b) \/ Route(b) \/ Completes(b) \/ NodeFails(b) \/ SeesCancel(b)
             \/ Suspends(b) \/ Stops(b)
      PROVE  Kept'
  BY <1>1, BranchStepKeeps
<1>2. CASE Settle
  BY <1>2, SettleKeeps
<1>3. CASE CancelParent \/ UNCHANGED vars
  <2>1. UNCHANGED <<strategy, base, calls, states, done, outcome, parent>>
    BY <1>3 DEF CancelParent, vars
  <2>2. \A b \in Branch : /\ Mutation(b)' = Mutation(b)
                          /\ apply_batch(base, calls[b])' = apply_batch(base, calls[b])
    BY <2>1 DEF Mutation, apply_batch
  <2>3. Merge(base, states)' = Merge(base, states)
    BY <2>1 DEF Merge
  <2> QED
    BY <2>1, <2>2, <2>3 DEF Kept
<1> QED
  BY <1>1, <1>2, <1>3 DEF Next

(***************************************************************************)
(* What StateMerge makes of the states, at one key: what the one branch that *)
(* changed it has there, or what was there.                                 *)
(***************************************************************************)
LEMMA MergedAtKey ==
  ASSUME NEW from, NEW all, DOMAIN all = Branch, NEW s \in StateMerge(from, all), NEW k \in Key
  PROVE  \/ Entry(s, k) = Entry(from, k) /\ \A b \in Branch : Entry(all[b], k) = Entry(from, k)
         \/ \E w \in Branch : /\ Entry(s, k) = Entry(all[w], k)
                              /\ \A b \in Branch \ {w} : Entry(all[b], k) = Entry(from, k)
<1> DEFINE writers(j) == {i \in DOMAIN all : Changes(from, all[i], j)}
           merged(j) == IF writers(j) = {} THEN Entry(from, j)
                        ELSE Entry(all[CHOOSE i \in writers(j) : TRUE], j)
           held == {j \in Key : merged(j) # <<>>}
<1>1. /\ ~(\E j \in Key : Cardinality(writers(j)) > 1)
      /\ s = [j \in held |-> merged(j)[1]]
  BY DEF StateMerge
<1>2. merged(k) = <<>> \/ \E v : merged(k) = <<v>>
  BY DEF Entry
<1>3. Entry(s, k) = merged(k)
  <2>1. Entry(s, k) = IF k \in held THEN <<merged(k)[1]>> ELSE <<>>
    BY <1>1 DEF Entry
  <2> HIDE DEF merged
  <2> QED
    BY <1>2, <2>1
<1>4. CASE writers(k) = {}
  BY <1>3, <1>4 DEF Changes
<1>5. CASE writers(k) # {}
  <2> DEFINE w == CHOOSE i \in writers(k) : TRUE
  <2>1. w \in writers(k)
    BY <1>5
  <2>2. IsFiniteSet(writers(k))
    <3>1. IsFiniteSet(1 .. Branches)
      BY ParallelAssumption, FS_Interval
    <3>2. writers(k) \in SUBSET (1 .. Branches)
      BY DEF Branch
    <3> QED
      BY <3>1, <3>2, FS_Subset
  <2>3. Cardinality(writers(k)) \in Nat /\ Cardinality(writers(k)) <= 1
    <3>1. ~ (Cardinality(writers(k)) > 1)
      BY <1>1
    <3>2. Cardinality(writers(k)) \in Nat
      BY <2>2, FS_CardinalityType
    <3> HIDE DEF writers
    <3> QED
      BY <3>1, <3>2
  <2>4. /\ IsFiniteSet(writers(k) \ {w})
        /\ Cardinality(writers(k) \ {w}) = Cardinality(writers(k)) - 1
    BY <2>1, <2>2, FS_RemoveElement
  <2>5. Cardinality(writers(k) \ {w}) \in Nat
    BY <2>4, FS_CardinalityType
  <2>6. Cardinality(writers(k) \ {w}) = 0
    BY <2>3, <2>4, <2>5
  <2>7. writers(k) \ {w} = {}
    BY <2>4, <2>6, FS_EmptySet
  <2>8. Entry(s, k) = Entry(all[w], k)
    BY <1>3, <1>5
  <2> HIDE DEF w
  <2>9. w \in Branch /\ \A b \in Branch \ {w} : Entry(all[b], k) = Entry(from, k)
    BY <2>1, <2>7 DEF Changes
  <2> QED
    BY <2>8, <2>9
<1> QED
  BY <1>4, <1>5

\* The order that lets branch w come last.
ComesLast(w) == [i \in Branch |-> IF i = w THEN Branches ELSE IF i = Branches THEN w ELSE i]

LEMMA SerialAtKey ==
  ASSUME Kept, strategy = "StateMerge", outcome.kind = "Ok", NEW k \in Key, NEW w \in Branch,
         \A b \in Branch \ {w} : Entry(states[b], k) = Entry(base, k),
         Entry(parent, k) = Entry(states[w], k)
  PROVE  \E f \in Order :
            Entry(parent, k) = Entry(apply_batch(base, FlattenSeq([i \in Branch |-> calls[f[i]]])), k)
<1> DEFINE f == ComesLast(w)
           segs == [i \in 1 .. Branches |-> calls[f[i]]]
<1>1. Branches \in Nat \ {0} /\ Branches \in Branch /\ Branch = 1 .. Branches
  BY ParallelAssumption DEF Branch
<1>2. f \in Order /\ f[Branches] = w /\ \A i \in 1 .. Branches - 1 : f[i] \in Branch \ {w}
  <2>1. f \in [Branch -> Branch] /\ \A i, j \in Branch : f[i] = f[j] => i = j
    BY <1>1 DEF ComesLast
  <2>2. \A i \in 1 .. Branches - 1 : i \in Branch /\ i # Branches
    BY <1>1
  <2> QED
    BY <1>1, <2>1, <2>2 DEF ComesLast, Order
<1> HIDE DEF f
<1>3. base \in KeyState
  BY ParallelAssumption DEF Kept, KeyState
<1>4. \A b \in Branch : calls[b] \in Seq(StateMutation)
  BY DEF Kept, Mutation
<1>5. \A b \in Branch : states[b] = FoldLeft(ApplyState, base, calls[b])
  BY DEF Kept, apply_batch
<1>6. \A b \in Branch : Leaves(calls[b], k, Entry(base, k), Entry(states[b], k))
  BY <1>3, <1>4, <1>5, FoldAtKey
<1>7. segs \in [1 .. Branches -> Seq(StateMutation)]
  BY <1>1, <1>2, <1>4 DEF Order
<1>8. \A i \in 1 .. Branches - 1 : Leaves(segs[i], k, Entry(base, k), Entry(base, k))
  <2> SUFFICES ASSUME NEW i \in 1 .. Branches - 1
               PROVE  Leaves(segs[i], k, Entry(base, k), Entry(base, k))
    OBVIOUS
  <2>1. segs[i] = calls[f[i]] /\ f[i] \in Branch \ {w}
    BY <1>1, <1>2
  <2> QED
    BY <1>6, <2>1
<1>9. Leaves(segs[Branches], k, Entry(base, k), Entry(parent, k))
  BY <1>1, <1>2, <1>6
<1> HIDE DEF segs
<1>10. FlattenSeq(segs) \in Seq(StateMutation)
       /\ Leaves(FlattenSeq(segs), k, Entry(base, k), Entry(parent, k))
  BY <1>1, <1>7, <1>8, <1>9, LastOneCounts
<1>11. Leaves(FlattenSeq(segs), k, Entry(base, k),
              Entry(FoldLeft(ApplyState, base, FlattenSeq(segs)), k))
  BY <1>3, <1>10, FoldAtKey
<1>12. Entry(parent, k) = Entry(FoldLeft(ApplyState, base, FlattenSeq(segs)), k)
  BY <1>10, <1>11, LeavesOnce
<1>13. apply_batch(base, FlattenSeq(segs)) = FoldLeft(ApplyState, base, FlattenSeq(segs))
  BY DEF apply_batch
<1>14. segs = [i \in Branch |-> calls[f[i]]]
  BY <1>1 DEF segs
<1> QED
  BY <1>2, <1>12, <1>13, <1>14

\* What was recorded is what is merged, in every run.
THEOREM MergeInvariance == Spec => [](Inv /\ Kept)
BY Invariance, KeptInitially, KeptInductive, PTL DEF Spec

\* Key by key a merge by StateMerge is a serial run of the branches, for any number of
\* branches, keys and mutations (StateMerge::merge).
THEOREM MergesAreSerialByKey == Spec => []MergeIsSerialByKey
<1>1. ASSUME Inv, Kept, strategy = "StateMerge", outcome.kind = "Ok", NEW k \in Key
      PROVE  \E f \in Order :
                Entry(parent, k)
                  = Entry(apply_batch(base, FlattenSeq([i \in Branch |-> calls[f[i]]])), k)
  <2>1. parent \in StateMerge(base, states) /\ DOMAIN states = Branch
    BY <1>1 DEF Kept, Merge
  <2>2. 1 \in Branch
    BY ParallelAssumption DEF Branch
  <2>3. \E w \in Branch : /\ Entry(parent, k) = Entry(states[w], k)
                          /\ \A b \in Branch \ {w} : Entry(states[b], k) = Entry(base, k)
    BY <2>1, <2>2, MergedAtKey
  <2> QED
    BY <1>1, <2>3, SerialAtKey
<1>2. Inv /\ Kept => MergeIsSerialByKey
  BY <1>1 DEF MergeIsSerialByKey
<1> QED
  BY <1>2, MergeInvariance, PTL

(***************************************************************************)
(* Sums, and batches on the agent's state.                                  *)
(***************************************************************************)
SumTrace(tr, n, from, d) ==
  /\ tr \in [0 .. n -> Int] /\ tr[0] = from
  /\ \A i \in 1 .. n : tr[i] = tr[i - 1] + d[i]

LEMMA AddedSteps ==
  ASSUME NEW n \in Nat, NEW values \in [1 .. n -> Int]
  PROVE  \E tr : SumTrace(tr, n, 0, values) /\ Added(values) = tr[n]
<1> DEFINE step == [p \in Int \X (1 .. n) |-> p[1] + values[p[2]]]
           Solves(h) == h = [s \in SUBSET (1 .. n) |->
                               IF s = {} THEN 0 ELSE h[s \ {Max(s)}] + values[Max(s)]]
           h == CHOOSE h : Solves(h)
<1>1. DOMAIN values = 1 .. n /\ \A i \in 1 .. n : values[i] \in Int
  OBVIOUS
<1>2. step \in [Int \X (1 .. n) -> Int] /\ 0 \in Int
  BY <1>1
<1>3. \A x \in Int, i \in 1 .. n : step[<<x, i>>] = x + values[i]
  OBVIOUS
<1> HIDE DEF step
<1>4. \E g : Solves(g)
  <2>1. PICK g : Folds(n, 0, step, Int, g)
    BY <1>2, FoldDefined
  <2>2. ASSUME NEW s \in SUBSET (1 .. n)
        PROVE  g[s] = IF s = {} THEN 0 ELSE g[s \ {Max(s)}] + values[Max(s)]
    <3>1. CASE s = {}
      BY <2>1, <3>1 DEF Folds
    <3>2. CASE s # {}
      <4>1. Max(s) \in 1 .. n
        BY <3>2, MaxOfUpTo
      <4>2. g[s \ {Max(s)}] \in Int /\ g[s] = step[<<g[s \ {Max(s)}], Max(s)>>]
        BY <2>1, <3>2 DEF Folds
      <4> QED
        BY <1>3, <3>2, <4>1, <4>2
    <3> QED
      BY <3>1, <3>2
  <2>3. Solves(g)
    BY <2>1, <2>2 DEF Folds
  <2> QED
    BY <2>3
<1>5. Solves(h)
  <2> HIDE DEF Solves
  <2> QED
    BY <1>4
<1>6. Added(values) = h[1 .. n]
  BY <1>1 DEF Added, FoldLeft, MapThenFoldSet
<1> HIDE DEF h
<1>7. Recurs(h, n, 0, step, Int)
  <2>1. h[{}] = 0
    BY <1>5
  <2>2. ASSUME NEW s \in SUBSET (1 .. n), s # {}, h[s \ {Max(s)}] \in Int
        PROVE  h[s] = step[<<h[s \ {Max(s)}], Max(s)>>]
    <3>1. Max(s) \in 1 .. n
      BY <2>2, MaxOfUpTo
    <3> QED
      BY <1>3, <1>5, <2>2, <3>1
  <2> QED
    BY <2>1, <2>2 DEF Recurs
<1>8. PICK tr : Trace(tr, h, n, 0, step, Int)
  BY <1>2, <1>7, FoldTrace
<1>9. \A i \in 1 .. n : tr[i - 1] \in Int
  BY <1>8 DEF Trace
<1>10. SumTrace(tr, n, 0, values)
  BY <1>3, <1>8, <1>9 DEF SumTrace, Trace
<1> QED
  BY <1>6, <1>8, <1>10 DEF Trace

\* A sum in which at most the term at w counts.
LEMMA SumOfOne ==
  ASSUME NEW n \in Nat, NEW d \in [1 .. n -> Int], NEW w \in 1 .. n,
         \A i \in 1 .. n : i # w => d[i] = 0
  PROVE  Added(d) = d[w]
<1>1. PICK t : SumTrace(t, n, 0, d) /\ Added(d) = t[n]
  BY AddedSteps
<1> DEFINE S == {i \in 0 .. n : t[i] = IF i < w THEN 0 ELSE d[w]}
<1>2. 0 \in S
  BY <1>1 DEF SumTrace
<1>3. ASSUME NEW i \in 0 .. n - 1, i \in S PROVE i + 1 \in S
  <2>1. i + 1 \in 1 .. n /\ (i + 1) - 1 = i
    OBVIOUS
  <2>2. t[i + 1] = t[i] + d[i + 1] /\ d[i + 1] \in Int /\ d[w] \in Int
    BY <1>1, <2>1 DEF SumTrace
  <2>3. CASE i + 1 = w
    BY <1>3, <2>1, <2>2, <2>3
  <2>4. CASE i + 1 # w
    <3>1. d[i + 1] = 0
      BY <2>1, <2>4
    <3>2. i + 1 < w <=> i < w
      BY <2>1, <2>4
    <3> QED
      BY <1>3, <2>1, <2>2, <3>1, <3>2
  <2> QED
    BY <2>3, <2>4
<1> HIDE DEF S
<1>4. 0 .. n \subseteq S
  BY <1>2, <1>3, Induction
<1> QED
  BY <1>1, <1>4 DEF S

AgentRecord ==
  [messages : Seq(Nat), iterations : Nat, output_tokens : 0 .. UsizeMax,
   stop_reason : Reason \cup {NoReason}, last_response : Reason \cup {NoReason}]

LEMMA AppliedIsAgent ==
  ASSUME NEW b \in Branch, NEW s \in AgentRecord, NEW m \in AgentMutation(b)
  PROVE  ApplyAgent(s, m) \in AgentRecord
<1>1. UsizeMax \in Nat /\ b \in Nat
  BY ParallelAssumption DEF Branch
<1>2. \A x \in Nat, y \in Nat : (x + y) % (UsizeMax + 1) \in 0 .. UsizeMax
  BY <1>1
<1>3. s.iterations \in Nat /\ s.output_tokens \in Nat
  BY <1>1 DEF AgentRecord
<1>4. CASE m.kind = "AppendMessage"
  <2>1. m.value = b /\ ApplyAgent(s, m) = [s EXCEPT !.messages = Append(s.messages, m.value)]
    BY <1>4 DEF AgentMutation, ApplyAgent
  <2>2. s.messages \in Seq(Nat)
    BY DEF AgentRecord
  <2>3. Append(s.messages, b) \in Seq(Nat)
    BY <1>1, <2>2
  <2> QED
    BY <2>1, <2>3 DEF AgentRecord
<1>5. CASE m.kind = "ReplaceMessages"
  <2>1. m.value = <<>> /\ <<>> \in Seq(Nat)
    BY <1>5 DEF AgentMutation
  <2>2. ApplyAgent(s, m) = [s EXCEPT !.messages = m.value]
    BY <1>5 DEF ApplyAgent
  <2>3. ApplyAgent(s, m) = [s EXCEPT !.messages = <<>>]
    BY <2>1, <2>2
  <2> HIDE DEF ApplyAgent
  <2> QED
    BY <2>1, <2>3 DEF AgentRecord
<1>6. CASE m.kind = "IncrementIteration"
  <2>1. ApplyAgent(s, m) = [s EXCEPT !.iterations = Plus(s.iterations, 1)]
    BY <1>6 DEF ApplyAgent
  <2>2. Plus(s.iterations, 1) \in Nat
    BY <1>1, <1>2, <1>3 DEF Plus
  <2> QED
    BY <2>1, <2>2 DEF AgentRecord
<1>7. CASE m.kind = "AddOutputTokens"
  <2>1. m.value = b
    BY <1>7 DEF AgentMutation
  <2>2. ApplyAgent(s, m) = [s EXCEPT !.output_tokens = Plus(s.output_tokens, m.value)]
    BY <1>7 DEF ApplyAgent
  <2>3. Plus(s.output_tokens, b) \in 0 .. UsizeMax
    BY <1>1, <1>2, <1>3 DEF Plus
  <2> QED
    BY <2>1, <2>2, <2>3 DEF AgentRecord
<1>8. CASE m.kind = "SetStopReason"
  <2>1. m.value \in Reason /\ ApplyAgent(s, m) = [s EXCEPT !.stop_reason = m.value]
    BY <1>8 DEF AgentMutation, ApplyAgent
  <2> QED
    BY <2>1 DEF AgentRecord
<1>9. CASE m.kind = "SetLastResponse"
  <2>1. m.value \in Reason /\ ApplyAgent(s, m) = [s EXCEPT !.last_response = m.value]
    BY <1>9 DEF AgentMutation, ApplyAgent
  <2> QED
    BY <2>1 DEF AgentRecord
<1>10. m.kind \in {"AppendMessage", "ReplaceMessages", "IncrementIteration", "AddOutputTokens",
                   "SetStopReason", "SetLastResponse"}
  BY DEF AgentMutation
<1> QED
  BY <1>4, <1>5, <1>6, <1>7, <1>8, <1>9, <1>10

\* The states a fold of a batch goes through.
AgentTrace(tr, s0, batch) ==
  /\ tr \in [0 .. Len(batch) -> AgentRecord]
  /\ tr[0] = s0
  /\ \A i \in 1 .. Len(batch) : tr[i] = ApplyAgent(tr[i - 1], batch[i])

LEMMA AgentFold ==
  ASSUME NEW b \in Branch, NEW s0 \in AgentRecord, NEW batch \in Seq(AgentMutation(b))
  PROVE  \E tr : AgentTrace(tr, s0, batch) /\ FoldLeft(ApplyAgent, s0, batch) = tr[Len(batch)]
<1> DEFINE n == Len(batch)
           step == [p \in AgentRecord \X (1 .. n) |-> ApplyAgent(p[1], batch[p[2]])]
           Solves(h) == h = [s \in SUBSET (1 .. n) |->
                               IF s = {} THEN s0 ELSE ApplyAgent(h[s \ {Max(s)}], batch[Max(s)])]
           h == CHOOSE h : Solves(h)
<1>1. n \in Nat /\ DOMAIN batch = 1 .. n /\ \A i \in 1 .. n : batch[i] \in AgentMutation(b)
  OBVIOUS
<1>2. step \in [AgentRecord \X (1 .. n) -> AgentRecord]
  BY <1>1, AppliedIsAgent
<1>3. \A x \in AgentRecord, i \in 1 .. n : step[<<x, i>>] = ApplyAgent(x, batch[i])
  OBVIOUS
<1> HIDE DEF n, step
<1>4. \E g : Solves(g)
  <2>1. PICK g : Folds(n, s0, step, AgentRecord, g)
    BY <1>1, <1>2, FoldDefined
  <2>2. ASSUME NEW s \in SUBSET (1 .. n)
        PROVE  g[s] = IF s = {} THEN s0 ELSE ApplyAgent(g[s \ {Max(s)}], batch[Max(s)])
    <3>1. CASE s = {}
      BY <2>1, <3>1 DEF Folds
    <3>2. CASE s # {}
      <4>1. Max(s) \in 1 .. n
        BY <1>1, <3>2, MaxOfUpTo
      <4>2. g[s \ {Max(s)}] \in AgentRecord /\ g[s] = step[<<g[s \ {Max(s)}], Max(s)>>]
        BY <2>1, <3>2 DEF Folds
      <4> QED
        BY <1>3, <3>2, <4>1, <4>2
    <3> QED
      BY <3>1, <3>2
  <2>3. Solves(g)
    BY <2>1, <2>2 DEF Folds
  <2> QED
    BY <2>3
<1>5. Solves(h)
  <2> HIDE DEF Solves
  <2> QED
    BY <1>4
<1>6. FoldLeft(ApplyAgent, s0, batch) = h[1 .. n]
  BY <1>1 DEF FoldLeft, MapThenFoldSet
<1> HIDE DEF h
<1>7. Recurs(h, n, s0, step, AgentRecord)
  <2>1. h[{}] = s0
    BY <1>5
  <2>2. ASSUME NEW s \in SUBSET (1 .. n), s # {}, h[s \ {Max(s)}] \in AgentRecord
        PROVE  h[s] = step[<<h[s \ {Max(s)}], Max(s)>>]
    <3>1. Max(s) \in 1 .. n
      BY <1>1, <2>2, MaxOfUpTo
    <3> QED
      BY <1>3, <1>5, <2>2, <3>1
  <2> QED
    BY <2>1, <2>2 DEF Recurs
<1>8. PICK tr : Trace(tr, h, n, s0, step, AgentRecord)
  BY <1>1, <1>2, <1>7, FoldTrace
<1>9. \A i \in 1 .. n : tr[i - 1] \in AgentRecord
  BY <1>1, <1>8 DEF Trace
<1>10. AgentTrace(tr, s0, batch)
  BY <1>3, <1>8, <1>9 DEF AgentTrace, Trace, n
<1> QED
  BY <1>6, <1>8, <1>10 DEF n, Trace

\* What one mutation does to the messages and to the tokens.
LEMMA AppliedParts ==
  ASSUME NEW b \in Branch, NEW s \in AgentRecord, NEW m \in AgentMutation(b)
  PROVE  /\ ApplyAgent(s, m).messages = IF m.kind = "AppendMessage" THEN Append(s.messages, b)
                                        ELSE IF m.kind = "ReplaceMessages" THEN <<>> ELSE s.messages
         /\ ApplyAgent(s, m).output_tokens = IF m.kind = "AddOutputTokens"
                                             THEN Plus(s.output_tokens, b) ELSE s.output_tokens
         /\ m.kind = "AddOutputTokens" => m.value = b
<1>1. /\ m.kind = "AppendMessage" => m.value = b
      /\ m.kind = "AddOutputTokens" => m.value = b
      /\ m.kind = "ReplaceMessages" => m.value = <<>>
  BY DEF AgentMutation
<1>2. m.kind \in {"AppendMessage", "ReplaceMessages", "IncrementIteration", "AddOutputTokens",
                  "SetStopReason", "SetLastResponse"}
  BY DEF AgentMutation
<1>3. CASE m.kind = "AppendMessage"
  BY <1>1, <1>3 DEF ApplyAgent, AgentRecord
<1>4. CASE m.kind = "ReplaceMessages"
  BY <1>1, <1>4 DEF ApplyAgent, AgentRecord
<1>5. CASE m.kind = "AddOutputTokens"
  BY <1>1, <1>5 DEF ApplyAgent, AgentRecord
<1>6. CASE m.kind \in {"IncrementIteration", "SetStopReason", "SetLastResponse"}
  BY <1>6 DEF ApplyAgent, AgentRecord
<1> QED
  BY <1>2, <1>3, <1>4, <1>5, <1>6

\* ms is from, followed by n messages of branch b.
Extends(ms, from, b, n) ==
  /\ Len(ms) = Len(from) + n
  /\ \A j \in 1 .. Len(ms) : ms[j] = IF j <= Len(from) THEN from[j] ELSE b

Appends(batch, i) == {j \in 1 .. i : batch[j].kind = "AppendMessage"}
Keeps(batch, i) == \A j \in 1 .. i : batch[j].kind # "ReplaceMessages"

LEMMA AppendsCounted ==
  ASSUME NEW batch, NEW i \in Nat
  PROVE  /\ Cardinality(Appends(batch, i)) \in Nat /\ Cardinality(Appends(batch, 0)) = 0
         /\ Cardinality(Appends(batch, i + 1))
              = IF batch[i + 1].kind = "AppendMessage" THEN Cardinality(Appends(batch, i)) + 1
                ELSE Cardinality(Appends(batch, i))
<1>1. IsFiniteSet(Appends(batch, i))
  <2>1. IsFiniteSet(1 .. i) /\ Appends(batch, i) \in SUBSET (1 .. i)
    BY FS_Interval DEF Appends
  <2> QED
    BY <2>1, FS_Subset
<1>2. Cardinality(Appends(batch, i)) \in Nat
  BY <1>1, FS_CardinalityType
<1>3. Appends(batch, 0) = {}
  BY DEF Appends
<1>4. Appends(batch, i + 1) = IF batch[i + 1].kind = "AppendMessage"
                              THEN Appends(batch, i) \cup {i + 1} ELSE Appends(batch, i)
  BY DEF Appends
<1>5. i + 1 \notin Appends(batch, i)
  BY DEF Appends
<1>6. Cardinality(Appends(batch, i) \cup {i + 1}) = Cardinality(Appends(batch, i)) + 1
  BY <1>1, <1>5, FS_AddElement
<1> QED
  BY <1>2, <1>3, <1>4, <1>6, FS_EmptySet

\* A branch that never replaced the messages has appended to those it was given, one for
\* each call; one that did holds nothing but its own.
LEMMA AgentMessages ==
  ASSUME NEW b \in Branch, NEW s0 \in AgentRecord, NEW batch \in Seq(AgentMutation(b)), NEW s,
         s = FoldLeft(ApplyAgent, s0, batch)
  PROVE  /\ s \in AgentRecord
         /\ Keeps(batch, Len(batch)) => Extends(s.messages, s0.messages, b,
                                                Cardinality(Appends(batch, Len(batch))))
         /\ ~ Keeps(batch, Len(batch)) => \A j \in 1 .. Len(s.messages) : s.messages[j] = b
<1> DEFINE n == Len(batch)
<1>1. PICK tr : AgentTrace(tr, s0, batch) /\ s = tr[n]
  BY AgentFold
<1> DEFINE from == s0.messages
           Upto(i) == /\ Keeps(batch, i) => Extends(tr[i].messages, from, b,
                                                    Cardinality(Appends(batch, i)))
                      /\ ~ Keeps(batch, i) =>
                            \A j \in 1 .. Len(tr[i].messages) : tr[i].messages[j] = b
           S == {i \in 0 .. n : Upto(i)}
<1>2. n \in Nat /\ \A i \in 1 .. n : batch[i] \in AgentMutation(b)
  OBVIOUS
<1>3. from \in Seq(Nat) /\ b \in Nat
  BY DEF AgentRecord, Branch
<1>4. \A i \in 0 .. n : tr[i] \in AgentRecord /\ tr[i].messages \in Seq(Nat)
  <2>1. \A i \in 0 .. n : tr[i] \in AgentRecord
    BY <1>1 DEF AgentTrace
  <2> QED
    BY <2>1 DEF AgentRecord
<1> HIDE DEF n
<1>5. 0 \in S
  <2>1. tr[0] = s0 /\ Keeps(batch, 0) /\ Cardinality(Appends(batch, 0)) = 0
    BY <1>1, AppendsCounted DEF AgentTrace, Keeps
  <2>2. Extends(from, from, b, 0)
    BY <1>3 DEF Extends
  <2> QED
    BY <1>2, <2>1, <2>2
<1>6. ASSUME NEW i \in 0 .. n - 1, i \in S PROVE i + 1 \in S
  <2> DEFINE p == i + 1
             ms == tr[i].messages
             c == Cardinality(Appends(batch, i))
  <2>1. p \in 1 .. n /\ p - 1 = i /\ 1 .. p = 1 .. i \cup {p} /\ i \in Nat /\ i \in 0 .. n
    BY <1>2
  <2>2. tr[p] = ApplyAgent(tr[i], batch[p]) /\ tr[i] \in AgentRecord
        /\ batch[p] \in AgentMutation(b)
    BY <1>1, <1>2, <1>4, <2>1 DEF AgentTrace, n
  <2>3. tr[p].messages = IF batch[p].kind = "AppendMessage" THEN Append(ms, b)
                         ELSE IF batch[p].kind = "ReplaceMessages" THEN <<>> ELSE ms
    BY <2>2, AppliedParts
  <2>4. c \in Nat /\ Cardinality(Appends(batch, p))
                       = IF batch[p].kind = "AppendMessage" THEN c + 1 ELSE c
    BY <2>1, AppendsCounted
  <2>5. Keeps(batch, p) <=> Keeps(batch, i) /\ batch[p].kind # "ReplaceMessages"
    BY <2>1 DEF Keeps
  <2>6. Upto(i) /\ ms \in Seq(Nat)
    BY <1>4, <1>6, <2>1
  <2> HIDE DEF p, c, ms
  <2>7. CASE batch[p].kind = "AppendMessage"
    <3>1. /\ Len(Append(ms, b)) = Len(ms) + 1 /\ Append(ms, b)[Len(ms) + 1] = b
          /\ \A j \in 1 .. Len(ms) : Append(ms, b)[j] = ms[j]
      BY <1>3, <2>6
    <3>2. tr[p].messages = Append(ms, b) /\ Cardinality(Appends(batch, p)) = c + 1
      BY <2>3, <2>4, <2>7
    <3>3. \A j \in 1 .. Len(ms) + 1 : j \in 1 .. Len(ms) \/ j = Len(ms) + 1
      BY <2>6
    <3>4. Len(ms) \in Nat /\ Len(from) \in Nat
      BY <1>3, <2>6
    <3>5. ASSUME Keeps(batch, p)
          PROVE  Extends(tr[p].messages, from, b, Cardinality(Appends(batch, p)))
      <4>1. Extends(ms, from, b, c)
        BY <2>5, <2>6, <3>5 DEF ms, c
      <4>2. Len(ms) = Len(from) + c /\ Len(ms) + 1 > Len(from)
        BY <2>4, <3>4, <4>1 DEF Extends
      <4>3. \A j \in 1 .. Len(ms) + 1 : Append(ms, b)[j] = IF j <= Len(from) THEN from[j] ELSE b
        BY <3>1, <3>3, <3>4, <4>1, <4>2 DEF Extends
      <4>4. Len(ms) + 1 = Len(from) + (c + 1)
        <5>1. \A x, y, z \in Nat : x = y + z => x + 1 = y + (z + 1)
          OBVIOUS
        <5>2. c \in Nat
          BY <2>4
        <5> QED
          BY <3>4, <4>2, <5>1, <5>2
      <4> QED
        BY <3>1, <3>2, <4>3, <4>4 DEF Extends
    <3>6. ASSUME ~ Keeps(batch, p)
          PROVE  \A j \in 1 .. Len(tr[p].messages) : tr[p].messages[j] = b
      <4>1. \A j \in 1 .. Len(ms) : ms[j] = b
        BY <2>5, <2>6, <2>7, <3>6 DEF ms
      <4> QED
        BY <3>1, <3>2, <3>3, <4>1
    <3>7. Upto(p)
      BY <3>5, <3>6
    <3> QED
      BY <2>1, <3>7 DEF p
  <2>8. CASE batch[p].kind = "ReplaceMessages"
    <3>1. ~ Keeps(batch, p) /\ tr[p].messages = <<>>
      BY <2>3, <2>5, <2>8
    <3> QED
      BY <2>1, <3>1 DEF p
  <2>9. CASE batch[p].kind \notin {"AppendMessage", "ReplaceMessages"}
    <3>1. /\ Keeps(batch, p) <=> Keeps(batch, i)
          /\ tr[p].messages = ms /\ Cardinality(Appends(batch, p)) = c
      BY <2>3, <2>4, <2>5, <2>9
    <3>2. Upto(p)
      BY <2>6, <3>1 DEF ms, c
    <3> QED
      BY <2>1, <3>2 DEF p
  <2> QED
    BY <2>7, <2>8, <2>9
<1> HIDE DEF S
<1>7. 0 .. n \subseteq S
  BY <1>2, <1>5, <1>6, Induction
<1>8. Upto(n) /\ n \in 0 .. n
  BY <1>2, <1>7 DEF S
<1> QED
  BY <1>1, <1>4, <1>8 DEF n

Tokens(m) == IF m.kind = "AddOutputTokens" THEN m.value ELSE 0

\* No addition wraps around if the sum fits.
LEMMA AgentTokens ==
  ASSUME NEW b \in Branch, NEW s0 \in AgentRecord, NEW batch \in Seq(AgentMutation(b)), NEW d,
         d = [i \in DOMAIN batch |-> Tokens(batch[i])]
  PROVE  /\ Added(d) \in Nat
         /\ s0.output_tokens + Added(d) <= UsizeMax =>
               FoldLeft(ApplyAgent, s0, batch).output_tokens = s0.output_tokens + Added(d)
<1> DEFINE n == Len(batch)
           o == s0.output_tokens
<1>1. n \in Nat /\ DOMAIN batch = 1 .. n /\ \A i \in 1 .. n : batch[i] \in AgentMutation(b)
  OBVIOUS
<1>2. b \in Nat /\ UsizeMax \in Nat /\ o \in 0 .. UsizeMax
  BY ParallelAssumption DEF Branch, AgentRecord
<1>3. \A i \in 1 .. n : Tokens(batch[i]) = IF batch[i].kind = "AddOutputTokens" THEN b ELSE 0
  BY <1>1 DEF Tokens, AgentMutation
<1>4. d \in [1 .. n -> Int] /\ \A i \in 1 .. n : d[i] = Tokens(batch[i]) /\ d[i] \in Nat
  BY <1>1, <1>2, <1>3
<1>5. PICK t : SumTrace(t, n, 0, d) /\ Added(d) = t[n]
  BY <1>1, <1>4, AddedSteps
<1>6. PICK tr : AgentTrace(tr, s0, batch) /\ FoldLeft(ApplyAgent, s0, batch) = tr[n]
  BY AgentFold
<1> HIDE DEF n, o
<1> DEFINE S == {i \in 0 .. n : t[i] \in Nat /\ \A j \in 0 .. i : t[j] <= t[i]}
<1>7. 0 .. n \subseteq S
  <2>1. 0 \in S
    BY <1>1, <1>5 DEF SumTrace
  <2>2. ASSUME NEW i \in 0 .. n - 1, i \in S PROVE i + 1 \in S
    <3>1. i + 1 \in 1 .. n /\ (i + 1) - 1 = i /\ i \in Nat
      BY <1>1
    <3>2. t[i + 1] = t[i] + d[i + 1] /\ d[i + 1] \in Nat /\ t[i] \in Nat
      BY <1>4, <1>5, <2>2, <3>1 DEF SumTrace
    <3>3. t[i + 1] \in Nat /\ t[i] <= t[i + 1]
      BY <3>2
    <3>4. ASSUME NEW j \in 0 .. i + 1 PROVE t[j] <= t[i + 1]
      <4>1. CASE j = i + 1
        BY <3>3, <4>1
      <4>2. CASE j # i + 1
        <5>1. j \in 0 .. i /\ j \in 0 .. n
          BY <1>1, <3>1, <4>2
        <5>2. t[j] <= t[i] /\ t[j] \in Int
          BY <1>5, <2>2, <5>1 DEF SumTrace
        <5> QED
          BY <3>2, <3>3, <5>2
      <4> QED
        BY <4>1, <4>2
    <3> QED
      BY <3>1, <3>3, <3>4
  <2> HIDE DEF S
  <2> QED
    BY <1>1, <2>1, <2>2, Induction
<1>8. n \in 0 .. n /\ \A i \in 0 .. n : t[i] \in Nat /\ t[i] <= t[n]
  BY <1>1, <1>7
<1> HIDE DEF S
<1> DEFINE T == {i \in 0 .. n : tr[i].output_tokens = o + t[i]}
<1>9. ASSUME o + t[n] <= UsizeMax PROVE 0 .. n \subseteq T
  <2>1. 0 \in T
    BY <1>1, <1>2, <1>5, <1>6 DEF SumTrace, AgentTrace, o
  <2>2. ASSUME NEW i \in 0 .. n - 1, i \in T PROVE i + 1 \in T
    <3>1. i + 1 \in 1 .. n /\ (i + 1) - 1 = i /\ i \in 0 .. n /\ i + 1 \in 0 .. n
      BY <1>1
    <3>2. tr[i + 1] = ApplyAgent(tr[i], batch[i + 1]) /\ tr[i] \in AgentRecord
      BY <1>6, <3>1 DEF AgentTrace, n
    <3>3. tr[i + 1].output_tokens = IF batch[i + 1].kind = "AddOutputTokens"
                                    THEN Plus(tr[i].output_tokens, b) ELSE tr[i].output_tokens
      BY <1>1, <3>1, <3>2, AppliedParts
    <3>4. t[i + 1] = t[i] + d[i + 1] /\ t[i] \in Nat /\ t[i + 1] <= t[n] /\ t[n] \in Nat
          /\ t[i + 1] \in Nat
      BY <1>5, <1>8, <3>1 DEF SumTrace
    <3>5. tr[i].output_tokens = o + t[i]
      BY <2>2
    <3>6. CASE batch[i + 1].kind = "AddOutputTokens"
      <4>1. d[i + 1] = b
        BY <1>3, <1>4, <3>1, <3>6
      <4>2. (o + t[i]) + b = o + t[i + 1] /\ o + t[i + 1] <= UsizeMax /\ o + t[i + 1] \in Nat
        BY <1>2, <1>9, <3>4, <4>1
      <4>3. \A x \in Nat : x <= UsizeMax => x % (UsizeMax + 1) = x
        BY <1>2
      <4>4. Plus(o + t[i], b) = o + t[i + 1]
        BY <4>2, <4>3 DEF Plus
      <4> QED
        BY <3>1, <3>3, <3>5, <3>6, <4>4
    <3>7. CASE batch[i + 1].kind # "AddOutputTokens"
      <4>1. d[i + 1] = 0
        BY <1>3, <1>4, <3>1, <3>7
      <4>2. t[i + 1] = t[i]
        BY <3>4, <4>1
      <4> QED
        BY <3>1, <3>3, <3>5, <3>7, <4>2
    <3> QED
      BY <3>6, <3>7
  <2> HIDE DEF T
  <2> QED
    BY <1>1, <2>1, <2>2, Induction
<1>10. o + t[n] <= UsizeMax => tr[n].output_tokens = o + t[n]
  BY <1>8, <1>9
<1> QED
  BY <1>5, <1>6, <1>8, <1>10 DEF o

(***************************************************************************)
(* Counting the messages of one branch.                                     *)
(***************************************************************************)
LEMMA CountPure ==
  ASSUME NEW s \in Seq(Nat), NEW b
  PROVE  /\ (\A j \in 1 .. Len(s) : s[j] = b) => Count(s, b) = Len(s)
         /\ (\A j \in 1 .. Len(s) : s[j] # b) => Count(s, b) = 0
<1>1. DOMAIN s = 1 .. Len(s) /\ Len(s) \in Nat
  OBVIOUS
<1>2. Cardinality(1 .. Len(s)) = Len(s)
  BY <1>1, FS_Interval
<1>3. ASSUME \A j \in 1 .. Len(s) : s[j] = b PROVE Count(s, b) = Len(s)
  <2>1. {i \in DOMAIN s : s[i] = b} = 1 .. Len(s)
    BY <1>1, <1>3
  <2> QED
    BY <1>2, <2>1 DEF Count
<1>4. ASSUME \A j \in 1 .. Len(s) : s[j] # b PROVE Count(s, b) = 0
  <2>1. {i \in DOMAIN s : s[i] = b} = {}
    BY <1>1, <1>4
  <2> QED
    BY <2>1, FS_EmptySet DEF Count
<1> QED
  BY <1>3, <1>4

LEMMA UpperInterval ==
  ASSUME NEW m \in Nat, NEW n \in Nat
  PROVE  IsFiniteSet(m + 1 .. m + n) /\ Cardinality(m + 1 .. m + n) = n
<1> DEFINE x == m + 1
           y == m + n
<1>1. x \in Int /\ y \in Int /\ (IF x > y THEN 0 ELSE y - x + 1) = n
  OBVIOUS
<1> HIDE DEF x, y
<1>2. IsFiniteSet(x .. y) /\ Cardinality(x .. y) = IF x > y THEN 0 ELSE y - x + 1
  BY <1>1, FS_Interval
<1> QED
  BY <1>1, <1>2 DEF x, y

LEMMA CountJoined ==
  ASSUME NEW s \in Seq(Nat), NEW t \in Seq(Nat), NEW b
  PROVE  /\ Count(s, b) \in Nat
         /\ (\A j \in 1 .. Len(t) : t[j] = b) => Count(s \o t, b) = Count(s, b) + Len(t)
         /\ (\A j \in 1 .. Len(t) : t[j] # b) => Count(s \o t, b) = Count(s, b)
<1> DEFINE u == s \o t
           m == Len(s)
           n == Len(t)
           A == {i \in 1 .. m : s[i] = b}
<1>1. /\ m \in Nat /\ n \in Nat /\ DOMAIN s = 1 .. m /\ DOMAIN u = 1 .. m + n
      /\ \A i \in 1 .. m : u[i] = s[i]
      /\ \A i \in 1 .. n : u[m + i] = t[i]
  OBVIOUS
<1>2. \A i \in 1 .. m + n : i > m => i - m \in 1 .. n /\ u[i] = t[i - m]
  BY <1>1
<1>3. IsFiniteSet(A) /\ Count(s, b) = Cardinality(A)
  <2>1. IsFiniteSet(1 .. m)
    BY <1>1, FS_Interval
  <2> QED
    BY <1>1, <2>1, FS_Subset DEF Count
<1>4. ASSUME \A j \in 1 .. n : t[j] = b PROVE Count(u, b) = Count(s, b) + n
  <2> DEFINE B == m + 1 .. m + n
  <2>1. {i \in DOMAIN u : u[i] = b} = A \cup B
    <3> HIDE DEF u, m, n
    <3>1. \A i \in 1 .. m + n : u[i] = b <=> i \in A \/ i > m
      BY <1>1, <1>2, <1>4
    <3> QED
      BY <1>1, <3>1
  <2> HIDE DEF u, m, n
  <2>2. A \cap B = {}
    BY <1>1
  <2>3. IsFiniteSet(B) /\ Cardinality(B) = n
    BY <1>1, UpperInterval
  <2> HIDE DEF A, B
  <2>4. Cardinality(A) \in Nat /\ Cardinality(A \cap B) = 0
    BY <1>3, <2>2, FS_CardinalityType, FS_EmptySet
  <2>5. Cardinality(A \cup B) = Cardinality(A) + Cardinality(B) - Cardinality(A \cap B)
    BY <1>3, <2>3, FS_Union
  <2>6. Count(u, b) = Cardinality(A \cup B)
    BY <2>1 DEF Count
  <2> QED
    BY <1>1, <1>3, <2>3, <2>4, <2>5, <2>6
<1>5. ASSUME \A j \in 1 .. n : t[j] # b PROVE Count(u, b) = Count(s, b)
  <2>1. {i \in DOMAIN u : u[i] = b} = A
    <3> HIDE DEF u, m, n
    <3>1. \A i \in 1 .. m + n : u[i] = b <=> i \in A
      BY <1>1, <1>2, <1>5
    <3>2. A \subseteq 1 .. m + n
      BY <1>1
    <3> QED
      BY <1>1, <3>1, <3>2
  <2> QED
    BY <1>3, <2>1 DEF Count
<1> QED
  BY <1>3, <1>4, <1>5, FS_CardinalityType

LEMMA Associates ==
  ASSUME NEW x \in Seq(Nat), NEW y \in Seq(Nat), NEW z \in Seq(Nat)
  PROVE  (x \o y) \o z = x \o (y \o z)
BY ConcatAssociative

\* Each branch contributes only its own messages; so many of them are then in the whole.
Pure(segs, n) == \A i \in 1 .. n : \A j \in 1 .. Len(segs[i]) : segs[i][j] = i

LEMMA CountFlattened ==
  ASSUME NEW n \in Nat \ {0}, NEW segs \in [1 .. n -> Seq(Nat)], NEW b \in 1 .. n,
         Pure(segs, n),
         NEW from \in Seq(Nat), Count(from, b) = 0
  PROVE  Count(from \o FlattenSeq(segs), b) = Len(segs[b])
<1>1. PICK g : Joins(n, segs, Nat, g) /\ FlattenSeq(segs) = g[n]
  BY Flattened
<1> DEFINE c == [i \in 0 .. n |-> IF i = 0 THEN from ELSE from \o g[i]]
           S == {i \in 0 .. n : /\ c[i] \in Seq(Nat)
                                /\ Count(c[i], b) = IF i < b THEN 0 ELSE Len(segs[b])}
<1>2. 0 \in S
  OBVIOUS
<1>3. ASSUME NEW i \in 0 .. n - 1, i \in S PROVE i + 1 \in S
  <2> DEFINE p == i + 1
             t == segs[p]
  <2>1. p \in 1 .. n /\ p - 1 = i /\ p # 0 /\ (i # 0 => i \in 1 .. n) /\ (p = 1 <=> i = 0)
    OBVIOUS
  <2>2. t \in Seq(Nat) /\ Len(t) \in Nat /\ \A j \in 1 .. Len(t) : t[j] = p
    BY <2>1 DEF Pure
  <2>3. c[p] = c[i] \o t
    <3>1. g[p] = IF p = 1 THEN t ELSE g[i] \o t
      BY <1>1, <2>1 DEF Joins
    <3>2. c[p] = from \o g[p] /\ c[i] = IF i = 0 THEN from ELSE from \o g[i]
      BY <2>1
    <3> HIDE DEF c, t, p
    <3>3. CASE i = 0
      BY <2>1, <3>1, <3>2, <3>3
    <3>4. CASE i # 0
      <4>1. g[i] \in Seq(Nat)
        BY <1>1, <2>1, <3>4 DEF Joins
      <4>2. t \in Seq(Nat)
        BY <2>2
      <4>3. (from \o g[i]) \o t = from \o (g[i] \o t)
        BY <4>1, <4>2, Associates
      <4> QED
        BY <2>1, <3>1, <3>2, <3>4, <4>3
    <3> QED
      BY <3>3, <3>4
  <2>4. c[i] \in Seq(Nat) /\ Count(c[i], b) = IF i < b THEN 0 ELSE Len(segs[b])
    BY <1>3
  <2> HIDE DEF c, t
  <2>5. c[p] \in Seq(Nat)
    BY <2>2, <2>3, <2>4
  <2>6. CASE p = b
    <3>1. Count(c[p], b) = Count(c[i], b) + Len(t)
      <4>1. \A j \in 1 .. Len(t) : t[j] = b
        BY <2>2, <2>6
      <4>2. t \in Seq(Nat) /\ c[i] \in Seq(Nat)
        BY <2>2, <2>4
      <4>3. Count(c[i] \o t, b) = Count(c[i], b) + Len(t)
        BY <4>1, <4>2, CountJoined
      <4> QED
        BY <2>3, <4>3
    <3>2. i < b /\ ~ (p < b)
      BY <2>1, <2>6
    <3>3. Count(c[p], b) = Len(segs[b])
      <4>1. t = segs[b]
        BY <2>6 DEF t
      <4>2. Count(c[i], b) = 0
        BY <2>4, <3>2
      <4> QED
        BY <2>2, <3>1, <4>1, <4>2
    <3> QED
      BY <2>1, <2>5, <3>2, <3>3
  <2>7. CASE p # b
    <3>1. \A j \in 1 .. Len(t) : t[j] # b
      BY <2>2, <2>7
    <3>2. Count(c[p], b) = Count(c[i], b)
      BY <2>2, <2>3, <2>4, <3>1, CountJoined
    <3>3. p < b <=> i < b
      BY <2>1, <2>7
    <3> QED
      BY <2>1, <2>4, <2>5, <3>2, <3>3
  <2> QED
    BY <2>6, <2>7
<1> HIDE DEF S
<1>4. 0 .. n \subseteq S
  BY <1>2, <1>3, Induction
<1>5. n \in 0 .. n /\ n # 0 /\ ~ (n < b)
  OBVIOUS
<1> QED
  BY <1>1, <1>4, <1>5 DEF S

(***************************************************************************)
(* What the merge makes of the messages and of the tokens.                  *)
(***************************************************************************)
\* The messages a branch holds in the end: those it was given and n more, or only its own.
Holds(ms, from, b, keeps, n) ==
  /\ ms \in Seq(Nat)
  /\ b \in keeps => Extends(ms, from, b, n)
  /\ b \notin keeps => \A j \in 1 .. Len(ms) : ms[j] = b

Fresh(from) == \A i \in 1 .. Len(from) : from[i] \notin Branch
AllHold(all, from, keeps, appended) ==
  DOMAIN all = Branch /\ \A b \in Branch : Holds(all[b], from, b, keeps, appended[b])

LEMMA MessagesKept ==
  ASSUME NEW from \in Seq(Nat), Fresh(from),
         NEW all, NEW keeps, NEW appended \in [Branch -> Nat],
         AllHold(all, from, keeps, appended),
         NEW ms \in MergedMessages(from, all), NEW b \in Branch, b \in keeps
  PROVE  Count(ms, b) = Count(from, b) + appended[b]
<1> DEFINE prefixed == {i \in DOMAIN all : IsPrefix(from, all[i])}
           replaces == DOMAIN all \ prefixed
           Suffix(s) == SubSeq(s, Len(from) + 1, Len(s))
           segs == [i \in DOMAIN all |-> Suffix(all[i])]
<1> USE DEF AllHold
<1>1. Branches \in Nat \ {0} /\ Branch = 1 .. Branches /\ Len(from) \in Nat
  BY ParallelAssumption DEF Branch
<1>2. Count(from, b) = 0
  <2>1. \A j \in 1 .. Len(from) : from[j] # b
    BY DEF Fresh
  <2> QED
    BY <2>1, CountPure
<1>3. \A i \in Branch : all[i] \in Seq(Nat) /\ Len(all[i]) \in Nat
  BY DEF Holds
<1>4. \A i \in Branch : i \in prefixed => Len(from) <= Len(all[i])
  BY DEF IsPrefix
<1>5. Extends(all[b], from, b, appended[b]) /\ appended[b] \in Nat
  BY DEF Holds
<1>6. CASE replaces = {}
  <2>1. ms = from \o FlattenSeq(segs)
    BY <1>6 DEF MergedMessages
  <2>2. ASSUME NEW i \in Branch
        PROVE  /\ segs[i] \in Seq(Nat) /\ Len(segs[i]) = Len(all[i]) - Len(from)
               /\ \A j \in 1 .. Len(segs[i]) : segs[i][j] = i
    <3> DEFINE s == all[i]
               m == Len(from)
    <3>1. s \in Seq(Nat) /\ Len(s) \in Nat /\ m \in Nat /\ m <= Len(s) /\ segs[i] = Suffix(s)
      BY <1>1, <1>3, <1>4, <1>6
    <3>2. \A j \in 1 .. Len(s) : s[j] \in Nat /\ (j > m => s[j] = i)
      <4>1. Holds(s, from, i, keeps, appended[i])
        OBVIOUS
      <4>2. \A j \in 1 .. Len(s) : s[j] \in Nat
        BY <3>1
      <4>3. CASE i \in keeps
        BY <3>1, <4>1, <4>2, <4>3 DEF Holds, Extends
      <4>4. CASE i \notin keeps
        BY <4>1, <4>2, <4>4 DEF Holds
      <4> QED
        BY <4>3, <4>4
    <3> HIDE DEF s, m
    <3>3. m + 1 \in Int /\ Len(s) \in Int /\ \A j \in m + 1 .. Len(s) : s[j] \in Nat
      BY <3>1, <3>2
    <3>4. /\ SubSeq(s, m + 1, Len(s)) \in Seq(Nat)
          /\ Len(SubSeq(s, m + 1, Len(s))) = IF m + 1 <= Len(s) THEN Len(s) - (m + 1) + 1 ELSE 0
          /\ \A j \in 1 .. Len(s) - (m + 1) + 1 :
                SubSeq(s, m + 1, Len(s))[j] = s[m + 1 + j - 1]
      BY <3>3, SubSeqProperties
    <3>5. segs[i] = SubSeq(s, m + 1, Len(s))
      BY <3>1 DEF m
    <3>6. Len(segs[i]) = Len(s) - m
      <4>1. \A x, y \in Nat : y <= x => x - y = IF y + 1 <= x THEN x - (y + 1) + 1 ELSE 0
        OBVIOUS
      <4>2. Len(s) - m = IF m + 1 <= Len(s) THEN Len(s) - (m + 1) + 1 ELSE 0
        BY <3>1, <4>1
      <4> QED
        BY <3>4, <3>5, <4>2
    <3>7. \A j \in 1 .. Len(s) - m : segs[i][j] = i
      <4> SUFFICES ASSUME NEW j \in 1 .. Len(s) - m PROVE segs[i][j] = i
        OBVIOUS
      <4>1. j \in 1 .. Len(s) - (m + 1) + 1 /\ m + 1 + j - 1 = m + j
            /\ m + j \in 1 .. Len(s) /\ m + j > m
        BY <3>1
      <4> QED
        BY <3>2, <3>4, <3>5, <4>1
    <3> QED
      BY <3>4, <3>5, <3>6, <3>7 DEF s, m
  <2> HIDE DEF segs
  <2>3. DOMAIN segs = 1 .. Branches
    BY <1>1 DEF segs
  <2>4. segs \in [1 .. Branches -> Seq(Nat)]
    BY <1>1, <2>2, <2>3 DEF segs
  <2>5. Count(from \o FlattenSeq(segs), b) = Len(segs[b])
    <3>1. b \in 1 .. Branches /\ Pure(segs, Branches)
      BY <1>1, <2>2 DEF Pure
    <3> QED
      BY <1>1, <1>2, <2>4, <3>1, CountFlattened
  <2>6. Len(segs[b]) = appended[b]
    BY <1>1, <1>3, <1>5, <2>2 DEF Extends
  <2> QED
    BY <1>2, <1>5, <2>1, <2>5, <2>6
<1>7. CASE replaces # {}
  <2>1. /\ Cardinality(replaces) = 1 /\ \A i \in prefixed : all[i] = from
        /\ ms \in {all[i] : i \in replaces}
    BY <1>7 DEF MergedMessages
  <2>2. PICK c \in replaces : ms = all[c]
    BY <2>1
  <2>3. c \in Branch /\ ~ IsPrefix(from, all[c]) /\ all[c] \in Seq(Nat)
    BY <1>3
  <2>4. \A i \in keeps \cap Branch : IsPrefix(from, all[i])
    <3> SUFFICES ASSUME NEW i \in Branch, i \in keeps PROVE IsPrefix(from, all[i])
      OBVIOUS
    <3>1. Extends(all[i], from, i, appended[i]) /\ appended[i] \in Nat
      BY DEF Holds
    <3> DEFINE s == all[i]
               m == Len(from)
    <3>2. m \in Nat /\ s \in Seq(Nat) /\ Len(s) \in Nat /\ Len(s) = m + appended[i]
      BY <1>1, <1>3, <3>1 DEF Extends
    <3>3. m <= Len(s) /\ \A j \in 1 .. m : j \in 1 .. Len(s) /\ j <= m
      BY <3>1, <3>2
    <3>4. \A j \in 1 .. m : s[j] = from[j] /\ s[j] \in Nat /\ from[j] \in Nat
      BY <3>1, <3>2, <3>3 DEF Extends
    <3>5. /\ SubSeq(s, 1, m) \in Seq(Nat) /\ Len(SubSeq(s, 1, m)) = m
          /\ \A j \in 1 .. m : SubSeq(s, 1, m)[j] = from[j]
      <4> HIDE DEF s, m
      <4>1. /\ SubSeq(s, 1, m) \in Seq(Nat)
            /\ Len(SubSeq(s, 1, m)) = IF 1 <= m THEN m - 1 + 1 ELSE 0
            /\ \A j \in 1 .. m - 1 + 1 : SubSeq(s, 1, m)[j] = s[1 + j - 1]
        BY <3>2, <3>4, SubSeqProperties
      <4>2. \A j \in 1 .. m : j \in 1 .. m - 1 + 1 /\ 1 + j - 1 = j
        BY <3>2
      <4>3. (IF 1 <= m THEN m - 1 + 1 ELSE 0) = m
        BY <3>2
      <4> QED
        BY <3>4, <4>1, <4>2, <4>3
    <3>6. SubSeq(s, 1, m) = from /\ SubSeq(from, 1, m) = from
      <4> HIDE DEF s
      <4> QED
        BY <3>5, SeqEqual, SubSeqFull
    <3> QED
      BY <3>3, <3>6 DEF IsPrefix
  <2>5. c \notin keeps /\ c # b
    BY <2>3, <2>4
  <2>6. \A j \in 1 .. Len(ms) : ms[j] # b
    BY <2>2, <2>3, <2>5 DEF Holds
  <2>7. Count(ms, b) = 0
    BY <2>2, <2>3, <2>6, CountPure
  <2>8. all[b] = from
    BY <2>1, <2>4
  <2>9. appended[b] = 0
    BY <1>1, <1>5, <2>8 DEF Extends
  <2> QED
    BY <1>2, <2>7, <2>9
<1> QED
  BY <1>6, <1>7

LEMMA TokensCounted ==
  ASSUME NEW n \in Nat \ {0}, NEW from \in Nat, NEW total \in [1 .. n -> Nat], NEW values,
         values = [i \in 1 .. n |-> from + total[i]],
         NEW t \in MergedCounter(from, values, SumOf(from, values))
  PROVE  t = from + Added(total)
<1> DEFINE changed == {i \in DOMAIN values : values[i] # from}
<1>1. DOMAIN values = 1 .. n /\ \A i \in 1 .. n : values[i] = from + total[i] /\ total[i] \in Nat
  OBVIOUS
<1>2. changed \in SUBSET (1 .. n) /\ \A i \in 1 .. n : i \in changed <=> total[i] # 0
  BY <1>1
<1>3. total \in [1 .. n -> Int]
  BY <1>1
<1>4. [i \in DOMAIN values |-> values[i] - from] = total
  <2>1. \A i \in 1 .. n : values[i] - from = total[i]
    BY <1>1
  <2>2. total = [i \in 1 .. n |-> total[i]]
    OBVIOUS
  <2> QED
    BY <1>1, <2>1, <2>2
<1>5. SumOf(from, values) = from + Added(total)
  BY <1>4 DEF SumOf
<1>6. CASE changed = {}
  <2>1. 1 \in 1 .. n /\ \A i \in 1 .. n : total[i] = 0
    <3> HIDE DEF changed
    <3> QED
      BY <1>2, <1>6
  <2>2. Added(total) = 0
    BY <1>3, <2>1, SumOfOne
  <2>3. t = from
    BY <1>6 DEF MergedCounter
  <2> QED
    BY <2>2, <2>3
<1>7. CASE changed # {} /\ Cardinality(changed) = 1
  <2>1. t \in {values[i] : i \in changed}
    BY <1>7 DEF MergedCounter
  <2>2. IsFiniteSet(changed)
    <3>1. IsFiniteSet(1 .. n)
      BY FS_Interval
    <3> QED
      BY <1>2, <3>1, FS_Subset
  <2> HIDE DEF changed
  <2>3. PICK w : changed = {w}
    BY <1>7, <2>2, FS_Singleton
  <2>4. w \in 1 .. n /\ \A i \in 1 .. n : i # w => total[i] = 0
    BY <1>2, <2>3
  <2>5. Added(total) = total[w]
    BY <1>3, <2>4, SumOfOne
  <2> QED
    BY <1>1, <2>1, <2>3, <2>4, <2>5
<1>8. CASE changed # {} /\ Cardinality(changed) # 1
  <2>1. t = SumOf(from, values)
    BY <1>8 DEF MergedCounter
  <2> QED
    BY <1>5, <2>1
<1> QED
  BY <1>6, <1>7, <1>8

LEMMA AgentMerged ==
  ASSUME NEW from, NEW all, NEW s \in AgentStateMerge(from, all)
  PROVE  \E ms \in MergedMessages(from.messages, [i \in DOMAIN all |-> all[i].messages]),
            t \in MergedCounter(from.output_tokens, [i \in DOMAIN all |-> all[i].output_tokens],
                              SumOf(from.output_tokens,
                                    [i \in DOMAIN all |-> all[i].output_tokens])),
            e \in MergedTerminal(from, all) :
            s.messages = ms /\ s.output_tokens = t /\ Terminal(s) = <<e[1], e[2]>>
<1> DEFINE M == MergedMessages(from.messages, [i \in DOMAIN all |-> all[i].messages])
           N == MergedCounter(from.iterations, [i \in DOMAIN all |-> all[i].iterations],
                              MaxOf(from.iterations, [i \in DOMAIN all |-> all[i].iterations]))
           T == MergedCounter(from.output_tokens, [i \in DOMAIN all |-> all[i].output_tokens],
                              SumOf(from.output_tokens,
                                    [i \in DOMAIN all |-> all[i].output_tokens]))
           E == MergedTerminal(from, all)
           merged == {[messages |-> ms, iterations |-> n, output_tokens |-> t,
                       stop_reason |-> e[1], last_response |-> e[2]] :
                         ms \in M, n \in N, t \in T, e \in E}
<1>1. AgentStateMerge(from, all) = merged
  BY DEF AgentStateMerge
<1> HIDE DEF M, N, T, E
<1>2. PICK ms \in M, n \in N, t \in T, e \in E :
           s = [messages |-> ms, iterations |-> n, output_tokens |-> t,
                stop_reason |-> e[1], last_response |-> e[2]]
  BY <1>1
<1>3. s.messages = ms /\ s.output_tokens = t /\ Terminal(s) = <<e[1], e[2]>>
  BY <1>2 DEF Terminal
<1> QED
  BY <1>3 DEF M, T, E

\* What the node kept for each branch, in these terms.
LEMMA AgentKept ==
  ASSUME Kept, strategy = "AgentStateMerge", outcome.kind = "Ok", NEW b \in Branch
  PROVE  /\ Holds(states[b].messages, base.messages, b, {c \in Branch : ~ Rewrites(c)},
                  Cardinality(Appended(b)))
         /\ Cardinality(Appended(b)) \in Nat /\ Total(b) \in Nat
         /\ base.output_tokens + Total(b) <= UsizeMax =>
               states[b].output_tokens = base.output_tokens + Total(b)
<1> DEFINE batch == calls[b]
           n == Len(batch)
           d == [i \in DOMAIN batch |-> Tokens(batch[i])]
<1>1. base \in AgentRecord
  <2>1. base = AgentBase /\ UsizeMax \in Nat
    BY ParallelAssumption DEF Kept
  <2>2. 0 .. UsizeMax \subseteq Nat
    BY <2>1
  <2> QED
    BY <2>1, <2>2, ParallelAssumption DEF AgentRecord
<1>2. batch \in Seq(AgentMutation(b)) /\ states[b] = FoldLeft(ApplyAgent, base, batch)
  BY DEF Kept, Mutation, apply_batch
<1>3. DOMAIN batch = 1 .. n /\ n \in Nat
  BY <1>2
<1>4. Appended(b) = Appends(batch, n) /\ (Rewrites(b) <=> ~ Keeps(batch, n))
  BY <1>3 DEF Appended, Appends, Rewrites, Keeps
<1>5. Total(b) = Added(d)
  BY DEF Total, Tokens
<1> HIDE DEF batch, n, d
<1>6. /\ states[b] \in AgentRecord
      /\ Keeps(batch, n) => Extends(states[b].messages, base.messages, b,
                                    Cardinality(Appends(batch, n)))
      /\ ~ Keeps(batch, n) => \A j \in 1 .. Len(states[b].messages) : states[b].messages[j] = b
  BY <1>1, <1>2, AgentMessages DEF n
<1>7. states[b].messages \in Seq(Nat)
  BY <1>6 DEF AgentRecord
<1>8. Holds(states[b].messages, base.messages, b, {c \in Branch : ~ Rewrites(c)},
            Cardinality(Appended(b)))
  BY <1>4, <1>6, <1>7 DEF Holds
<1>9. Cardinality(Appended(b)) \in Nat
  BY <1>3, <1>4, AppendsCounted
<1>10. /\ Added(d) \in Nat
       /\ base.output_tokens + Added(d) <= UsizeMax =>
             states[b].output_tokens = base.output_tokens + Added(d)
  BY <1>1, <1>2, AgentTokens DEF d
<1> QED
  BY <1>5, <1>8, <1>9, <1>10

\* AgentStateMerge keeps every message appended to the history the branches were given,
\* counts every token once and ends as one branch ended, for any number of branches, any
\* calls and any parent (typed_state_merge.rs).
THEOREM AgentMergesKeepAll == Spec => []AgentMergeKeepsAll
<1>1. ASSUME Kept, strategy = "AgentStateMerge", outcome.kind = "Ok"
      PROVE  /\ \A b \in Branch : ~Rewrites(b) =>
                   Count(parent.messages, b)
                      = Count(base.messages, b) + Cardinality(Appended(b))
             /\ (\A b \in Branch : base.output_tokens + Total(b) <= UsizeMax) =>
                   parent.output_tokens = base.output_tokens + Added([b \in Branch |-> Total(b)])
             /\ Terminal(parent) \in {Terminal(states[b]) : b \in Branch}
  <2> DEFINE keeps == {c \in Branch : ~ Rewrites(c)}
             appended == [b \in Branch |-> Cardinality(Appended(b))]
             total == [b \in Branch |-> Total(b)]
             messages == [b \in Branch |-> states[b].messages]
             values == [b \in Branch |-> states[b].output_tokens]
  <2>1. parent \in AgentStateMerge(base, states) /\ DOMAIN states = Branch
    BY <1>1 DEF Kept, Merge
  <2>2. /\ parent.messages \in MergedMessages(base.messages, messages)
        /\ parent.output_tokens
              \in MergedCounter(base.output_tokens, values, SumOf(base.output_tokens, values))
        /\ \E e \in MergedTerminal(base, states) : Terminal(parent) = <<e[1], e[2]>>
    <3>1. messages = [i \in DOMAIN states |-> states[i].messages]
          /\ values = [i \in DOMAIN states |-> states[i].output_tokens]
      BY <2>1
    <3> HIDE DEF messages, values
    <3> QED
      BY <2>1, <3>1, AgentMerged
  <2>3. base = AgentBase /\ Branches \in Nat \ {0} /\ Branch = 1 .. Branches
    BY <1>1, ParallelAssumption DEF Kept, Branch
  <2>4. base.messages \in Seq(Nat) /\ base.output_tokens \in Nat
        /\ Fresh(base.messages)
    BY <2>3, ParallelAssumption DEF Fresh
  <2>5. appended \in [Branch -> Nat] /\ total \in [1 .. Branches -> Nat]
    BY <1>1, <2>3, AgentKept
  <2>6. AllHold(messages, base.messages, keeps, appended)
    BY <1>1, AgentKept DEF AllHold
  <2>7. ASSUME NEW b \in Branch, ~ Rewrites(b)
        PROVE  Count(parent.messages, b)
                  = Count(base.messages, b) + Cardinality(Appended(b))
    <3>1. b \in keeps
      BY <2>7
    <3> HIDE DEF keeps, appended, messages
    <3>2. /\ parent.messages \in MergedMessages(base.messages, messages)
          /\ base.messages \in Seq(Nat) /\ Fresh(base.messages)
          /\ appended \in [Branch -> Nat]
      BY <2>2, <2>4, <2>5
    <3>3. Count(parent.messages, b) = Count(base.messages, b) + appended[b]
      BY <2>6, <3>1, <3>2, MessagesKept
    <3> QED
      BY <3>3 DEF appended
  <2>8. ASSUME \A b \in Branch : base.output_tokens + Total(b) <= UsizeMax
        PROVE  parent.output_tokens = base.output_tokens + Added([b \in Branch |-> Total(b)])
    <3>1. \A b \in Branch : states[b].output_tokens = base.output_tokens + total[b]
      BY <1>1, <2>8, AgentKept
    <3>2. values = [i \in 1 .. Branches |-> base.output_tokens + total[i]]
      BY <2>3, <3>1
    <3> HIDE DEF values, total
    <3>3. parent.output_tokens = base.output_tokens + Added(total)
      BY <2>2, <2>3, <2>4, <2>5, <3>2, TokensCounted
    <3> QED
      BY <3>3 DEF total
  <2>9. Terminal(parent) \in {Terminal(states[b]) : b \in Branch}
    <3>1. PICK e \in MergedTerminal(base, states) : Terminal(parent) = <<e[1], e[2]>>
      BY <2>2
    <3> DEFINE changed == {i \in DOMAIN states : Terminal(states[i]) # Terminal(base)}
    <3>2. CASE changed = {}
      <4>1. e = Terminal(base) /\ 1 \in Branch
        BY <2>3, <3>1, <3>2 DEF MergedTerminal
      <4>2. Terminal(states[1]) = Terminal(base)
        BY <2>1, <3>2, <4>1
      <4>3. Terminal(parent) = Terminal(states[1])
        BY <3>1, <4>1, <4>2 DEF Terminal
      <4> QED
        BY <4>1, <4>3
    <3>3. CASE changed # {}
      <4>1. PICK b \in changed : e = Terminal(states[b])
        BY <3>1, <3>3 DEF MergedTerminal
      <4>2. b \in Branch /\ Terminal(parent) = Terminal(states[b])
        BY <2>1, <3>1, <4>1 DEF Terminal
      <4> QED
        BY <4>2
    <3> QED
      BY <3>2, <3>3
  <2> QED
    BY <2>7, <2>8, <2>9
<1>2. Kept => AgentMergeKeepsAll
  BY <1>1 DEF AgentMergeKeepsAll
<1> QED
  BY <1>2, MergeInvariance, PTL
=============================================================================
