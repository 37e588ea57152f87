-------------------------- MODULE CheckpointRunProofs --------------------------
(***************************************************************************)
(* Proofs about CheckpointRun, for every graph, retention policy, budget and  *)
(* number of mishaps.  The invariant ties the executor's memory to the trace:  *)
(* between two saves they agree, and from the commit of a node to its save     *)
(* the memory is exactly one node ahead of the newest checkpoint.             *)
(***************************************************************************)
EXTENDS CheckpointRun, FiniteSetTheorems, TLAPS

(* A nonempty trace has a newest checkpoint (the files are never infinitely many). *)
HasNewest == DOMAIN files # {} => \E m \in DOMAIN files : \A s \in DOMAIN files : s <= m

(* Where the executor stands relative to the trace. *)
Position ==
    /\ pc \in {"top", "execute", "saved", "prune"} => mem = Recorded
    /\ pc = "execute" => mem.next \in Node
    /\ pc \in {"boundary", "rename"} =>
          /\ Recorded.next \in Node
          /\ \E n \in Route[Recorded.next] : mem = Advanced(Recorded, n)
    /\ pc = "prune" => keep # 0

MemoryIsTotal == mem.steps = Len(mem.walk)

IInv ==
    /\ TypeOK /\ HasNewest /\ Position
    /\ StepsAreTotal /\ MemoryIsTotal /\ AnnouncedIsRecorded

-----------------------------------------------------------------------------
(* A bound that a set attains is its Greatest. *)
LEMMA GreatestIs ==
    ASSUME NEW S \in SUBSET Nat, NEW m \in S, \A s \in S : s <= m
    PROVE  Greatest(S) = m
<1>1. \A x \in S : (\A s \in S : s <= x) => x = m
    OBVIOUS
<1>2. (CHOOSE x \in S : \A s \in S : s <= x) = m
    BY <1>1
<1> QED
    BY <1>2 DEF Greatest

(* What the newest checkpoint is, and that it lies within the trace. *)
LEMMA RecordedIs ==
    ASSUME TypeOK, HasNewest
    PROVE  /\ DOMAIN files = {} => Recorded = Origin /\ Latest = 0
           /\ DOMAIN files # {} =>
                 /\ Latest \in DOMAIN files
                 /\ \A s \in DOMAIN files : s <= Latest
                 /\ Recorded = files[Latest]
           /\ Latest \in Nat
           /\ Recorded \in Checkpoint
<1>1. CASE DOMAIN files = {}
    <2>1. Origin \in Checkpoint
        BY GraphAssumption DEF Origin, Checkpoint, Target
    <2> QED
        BY <1>1, <2>1 DEF Recorded, Latest, Scanned, Greatest
<1>2. CASE DOMAIN files # {}
    <2>1. PICK m \in DOMAIN files : \A s \in DOMAIN files : s <= m
        BY <1>2 DEF HasNewest
    <2>2. DOMAIN files \in SUBSET Nat
        BY DEF TypeOK
    <2>3. Greatest(DOMAIN files) = m
        BY <2>1, <2>2, GreatestIs
    <2>4. files[m] \in Checkpoint
        BY <2>1 DEF TypeOK
    <2> QED
        BY <1>2, <2>1, <2>2, <2>3, <2>4 DEF Recorded, Latest, Scanned
<1> QED
    BY <1>1, <1>2

(* A saved checkpoint becomes the newest. *)
LEMMA PublishRecords ==
    ASSUME TypeOK, HasNewest, files' = With(NextSeq, mem)
    PROVE  /\ HasNewest' /\ Recorded' = mem
           /\ DOMAIN files' = DOMAIN files \cup {NextSeq}
           /\ NextSeq \in Nat \ {0}
<1> DEFINE q == NextSeq
<1>1. q \in Nat \ {0} /\ \A s \in DOMAIN files : s < q
    <2>1. Latest \in Nat /\ \A s \in DOMAIN files : s <= Latest
        BY RecordedIs
    <2>2. DOMAIN files \subseteq Nat
        BY DEF TypeOK
    <2> QED
        BY <2>1, <2>2 DEF NextSeq
<1>2. DOMAIN files' = DOMAIN files \cup {q} /\ files'[q] = mem
    BY DEF With
<1>3. \A s \in DOMAIN files' : s <= q
    <2>1. DOMAIN files \subseteq Nat
        BY DEF TypeOK
    <2> QED
        BY <1>1, <1>2, <2>1
<1>4. DOMAIN files' \in SUBSET Nat
    BY <1>1, <1>2 DEF TypeOK
<1>5. Greatest(DOMAIN files') = q
    <2>1. q \in DOMAIN files'
        BY <1>2
    <2> HIDE DEF q
    <2> QED
        BY <1>3, <1>4, <2>1, GreatestIs
<1> QED
    BY <1>1, <1>2, <1>3, <1>5 DEF Recorded, HasNewest

(* prune leaves the newest checkpoint in place. *)
LEMMA PruneRecords ==
    ASSUME TypeOK, HasNewest, keep \in Nat \ {0}, Surplus # {},
           NEW D, D \subseteq Surplus, files' = Without(D)
    PROVE  /\ HasNewest' /\ Recorded' = Recorded
           /\ DOMAIN files' \subseteq DOMAIN files
           /\ \A s \in DOMAIN files' : files'[s] = files[s]
<1>1. DOMAIN files # {}
    BY DEF Surplus
<1>2. /\ Latest \in DOMAIN files /\ \A s \in DOMAIN files : s <= Latest
      /\ Recorded = files[Latest]
    BY <1>1, RecordedIs
<1>3. DOMAIN files \subseteq Nat
    BY DEF TypeOK
<1>4. Latest \notin Surplus
    <2>1. {u \in DOMAIN files : u > Latest} = {}
        BY <1>2, <1>3
    <2>2. Cardinality({u \in DOMAIN files : u > Latest}) = 0
        BY <2>1, FS_EmptySet
    <2>3. ~(0 >= keep)
        OBVIOUS
    <2> QED
        BY <2>2, <2>3 DEF Surplus
<1>5. /\ DOMAIN files' = DOMAIN files \ D
      /\ \A s \in DOMAIN files' : files'[s] = files[s]
    BY DEF Without
<1>6. Latest \in DOMAIN files' /\ \A s \in DOMAIN files' : s <= Latest
    BY <1>2, <1>4, <1>5
<1>7. DOMAIN files' \in SUBSET Nat
    BY <1>3, <1>5
<1>8. Greatest(DOMAIN files') = Latest
    <2> DEFINE m == Latest
    <2>1. m \in DOMAIN files' /\ \A s \in DOMAIN files' : s <= m
        BY <1>6
    <2> HIDE DEF m
    <2>2. Greatest(DOMAIN files') = m
        BY <1>7, <2>1, GreatestIs
    <2> QED
        BY <2>2 DEF m
<1> QED
    BY <1>2, <1>5, <1>6, <1>8 DEF Recorded, HasNewest

-----------------------------------------------------------------------------
(* The invariant holds initially. *)
LEMMA InitHolds == Init => IInv
<1> SUFFICES ASSUME Init PROVE IInv
    OBVIOUS
<1>1. DOMAIN files = {}
    BY DEF Init
<1>2. Origin \in Checkpoint /\ Origin.steps = Len(Origin.walk)
    BY GraphAssumption DEF Origin, Checkpoint, Target
<1>3. TypeOK
    BY <1>1, <1>2, GraphAssumption DEF Init, TypeOK
<1> QED
    BY <1>1, <1>2, <1>3
    DEF Init, IInv, HasNewest, Position, StepsAreTotal, MemoryIsTotal, AnnouncedIsRecorded

(* A step that leaves the files alone leaves the trace as it is. *)
LEMMA SameFiles ==
    ASSUME UNCHANGED files
    PROVE  Recorded' = Recorded /\ (HasNewest => HasNewest')
           /\ (StepsAreTotal => StepsAreTotal')
BY DEF Recorded, HasNewest, StepsAreTotal

(* Every step preserves the invariant, and changes the trace as GraphWalk allows. *)
LEMMA StepHolds ==
    ASSUME IInv, [Next]_vars
    PROVE  IInv' /\ [Walk!Extend]_<<Recorded.walk, Recorded.next>>
<1> USE DEF policy, store, executor
<1> DEFINE Stays == Recorded' = Recorded
<1>0. /\ TypeOK /\ HasNewest /\ Position /\ StepsAreTotal /\ MemoryIsTotal
      /\ AnnouncedIsRecorded
    BY DEF IInv
<1>r. Recorded \in Checkpoint
    BY <1>0, RecordedIs
<1>h. Recorded.steps = Len(Recorded.walk)
    <2>1. CASE DOMAIN files = {}
        BY <2>1 DEF Recorded, Origin
    <2>2. CASE DOMAIN files # {}
        <3>1. Latest \in DOMAIN files /\ Recorded = files[Latest]
            BY <1>0, <2>2, RecordedIs
        <3> QED
            BY <1>0, <3>1 DEF StepsAreTotal
    <2> QED
        BY <2>1, <2>2
(* A step that leaves the files and the announcements alone and puts the memory
   where Position wants it. *)
<1>q. ASSUME UNCHANGED <<files, told>>, TypeOK', Position', MemoryIsTotal'
      PROVE  IInv' /\ Stays
    <2>1. Recorded' = Recorded /\ HasNewest' /\ StepsAreTotal'
        BY <1>0, <1>q, SameFiles
    <2>2. AnnouncedIsRecorded'
        BY <1>0, <1>q, <2>1 DEF AnnouncedIsRecorded
    <2> QED
        BY <1>q, <2>1, <2>2 DEF IInv
<1>s. Stays => [Walk!Extend]_<<Recorded.walk, Recorded.next>>
    BY DEF Walk!Extend
<1>1. CASE \E b \in Budget : Start(b)
    <2>1. PICK b \in Budget : Start(b)
        BY <1>1
    <2>2. DOMAIN files = {}
        <3>1. DOMAIN files # {} => Latest \in DOMAIN files
            BY <1>0, RecordedIs
        <3>2. Latest = 0 /\ 0 \notin DOMAIN files
            BY <1>0, <2>1 DEF Start, TypeOK
        <3> QED
            BY <3>1, <3>2
    <2>3. Origin \in Checkpoint /\ Origin.steps = Len(Origin.walk)
        BY GraphAssumption DEF Origin, Checkpoint, Target
    <2>4. mem' = Recorded' /\ pc' = "top"
        BY <2>1, <2>2 DEF Start, Run, Recorded
    <2>5. TypeOK'
        BY <1>0, <2>1, <2>3 DEF TypeOK, Start, Run
    <2>6. Position'
        BY <2>4 DEF Position
    <2>7. MemoryIsTotal' /\ UNCHANGED <<files, told>>
        BY <2>1, <2>3 DEF Start, Run, MemoryIsTotal
    <2> QED
        BY <2>5, <2>6, <2>7, <1>q, <1>s
<1>2. CASE \E b \in Budget : Restore(b)
    <2>1. PICK b \in Budget : Restore(b)
        BY <1>2
    <2>2. held = Latest /\ DOMAIN files # {}
        BY <2>1 DEF Restore, StillLatest, Readable
    <2>3. files[held] = Recorded
        BY <1>0, <2>2, RecordedIs
    <2>4. mem' = Recorded /\ pc' = "top" /\ UNCHANGED <<files, told>>
        BY <2>1, <2>3 DEF Restore, Run, Resumed
    <2>5. Recorded' = Recorded
        BY <2>4, SameFiles
    <2>6. TypeOK'
        BY <1>0, <1>r, <2>1, <2>4 DEF TypeOK, Restore, Run
    <2>7. Position'
        BY <2>4, <2>5 DEF Position
    <2>8. MemoryIsTotal'
        BY <1>h, <2>4 DEF MemoryIsTotal
    <2> QED
        BY <2>4, <2>6, <2>7, <2>8, <1>q, <1>s
<1>3. CASE Load
    <2>1. UNCHANGED <<policy, store, executor, told, mishaps>> /\ held' = Latest
        BY <1>3 DEF Load
    <2>2. Recorded' = Recorded
        BY <2>1, SameFiles
    <2>3. TypeOK'
        BY <1>0, <2>1, RecordedIs DEF TypeOK
    <2>4. Position' /\ MemoryIsTotal'
        BY <1>0, <2>1, <2>2 DEF Position, MemoryIsTotal
    <2> QED
        BY <2>1, <2>3, <2>4, <1>q, <1>s
<1>4. CASE Top
    <2>1. /\ UNCHANGED <<policy, store, held, told, mishaps, mem, budget>>
          /\ pc = "top" /\ pc' \in {"idle", "execute"}
          /\ pc' = "execute" => mem.next \in Node
        BY <1>4 DEF Top, Goto
    <2>2. Recorded' = Recorded
        BY <2>1, SameFiles
    <2>3. TypeOK'
        BY <1>0, <2>1 DEF TypeOK
    <2>4. Position' /\ MemoryIsTotal'
        BY <1>0, <2>1, <2>2 DEF Position, MemoryIsTotal
    <2> QED
        BY <2>1, <2>3, <2>4, <1>q, <1>s
<1>5. CASE Finish
    <2>1. PICK n \in Route[mem.next] : mem' = Advanced(mem, n)
        BY <1>5 DEF Finish
    <2>2. /\ UNCHANGED <<policy, store, held, budget, told, mishaps>>
          /\ pc = "execute" /\ pc' = "boundary"
        BY <1>5 DEF Finish
    <2>3. Recorded' = Recorded /\ mem = Recorded
        BY <1>0, <2>2, SameFiles DEF Position
    <2>4. mem.next \in Node
        BY <1>0, <2>2 DEF Position
    <2>5. n \in Target
        BY <2>1, <2>4, GraphAssumption DEF Target
    <2>6. Advanced(mem, n) \in Checkpoint
        <3>1. mem \in Checkpoint
            BY <1>0 DEF TypeOK
        <3>2. Append(mem.walk, mem.next) \in Seq(Node)
            BY <2>4, <3>1 DEF Checkpoint
        <3> QED
            BY <2>5, <3>1, <3>2 DEF Advanced, Checkpoint
    <2>7. TypeOK'
        BY <1>0, <2>1, <2>2, <2>6 DEF TypeOK
    <2>8. Position'
        BY <2>1, <2>2, <2>3, <2>4 DEF Position
    <2>9. MemoryIsTotal'
        <3>1. mem \in Checkpoint
            BY <1>0 DEF TypeOK
        <3>2. Len(Append(mem.walk, mem.next)) = Len(mem.walk) + 1
            BY <2>4, <3>1 DEF Checkpoint
        <3> QED
            BY <1>0, <2>1, <3>2 DEF MemoryIsTotal, Advanced
    <2> QED
        BY <2>2, <2>7, <2>8, <2>9, <1>q, <1>s
(* The executor goes on with the memory it has, or stops. *)
<1>g. ASSUME UNCHANGED <<policy, files, damaged, held, mem, budget, told>>,
             mishaps' \in 0 .. MaxMishaps, tmp' \subseteq Nat \ {0},
             \/ pc' = "idle"
             \/ pc' = "rename" /\ pc = "boundary"
             \/ pc' = "top" /\ pc = "prune"
      PROVE  IInv' /\ Stays
    <2>1. Recorded' = Recorded
        BY <1>g, SameFiles
    <2>2. TypeOK'
        BY <1>0, <1>g DEF TypeOK
    <2>3. Position' /\ MemoryIsTotal'
        BY <1>0, <1>g, <2>1 DEF Position, MemoryIsTotal
    <2> QED
        BY <1>g, <2>2, <2>3, <1>q
<1>m. mishaps \in 0 .. MaxMishaps /\ (Mishap => mishaps' \in 0 .. MaxMishaps)
    BY <1>0, GraphAssumption DEF TypeOK, Mishap
<1>t. tmp \subseteq Nat \ {0}
    BY <1>0 DEF TypeOK
<1>6. CASE NodeFails
    BY <1>6, <1>g, <1>m, <1>t, <1>s DEF NodeFails, Goto
<1>7. CASE WriteTmp
    <2>1. NextSeq \in Nat \ {0}
        BY <1>0, RecordedIs DEF NextSeq
    <2>2. tmp' \subseteq Nat \ {0}
        BY <1>7, <1>t, <2>1 DEF WriteTmp
    <2> QED
        BY <1>7, <2>2, <1>g, <1>m, <1>s DEF WriteTmp, Goto
<1>8. CASE Publish
    <2>1. /\ files' = With(NextSeq, mem) /\ tmp' = tmp \ {NextSeq} /\ pc' = "saved"
          /\ UNCHANGED <<policy, damaged, held, told, mishaps, mem, budget>>
          /\ pc \in {"boundary", "rename"}
        BY <1>8 DEF Publish, Goto
    <2>2. /\ HasNewest' /\ Recorded' = mem /\ DOMAIN files' = DOMAIN files \cup {NextSeq}
          /\ NextSeq \in Nat \ {0}
        BY <1>0, <2>1, PublishRecords
    <2>3. PICK n \in Route[Recorded.next] : mem = Advanced(Recorded, n)
        BY <1>0, <2>1 DEF Position
    <2>4. Recorded.next \in Node
        BY <1>0, <2>1 DEF Position
    <2>5. /\ \A s \in DOMAIN files' : files'[s] = mem \/ (s \in DOMAIN files
                                                        /\ files'[s] = files[s])
          /\ files' = [s \in DOMAIN files' |-> files'[s]]
        BY <2>1 DEF With
    <2>6. TypeOK'
        <3>1. mem \in Checkpoint
            BY <1>0 DEF TypeOK
        <3>2. files' \in [DOMAIN files' -> Checkpoint]
            BY <1>0, <2>5, <3>1 DEF TypeOK
        <3> QED
            BY <1>0, <2>1, <2>2, <3>2 DEF TypeOK
    <2>7. Position'
        BY <2>1, <2>2 DEF Position
    <2>8. StepsAreTotal' /\ MemoryIsTotal'
        BY <1>0, <2>1, <2>5 DEF StepsAreTotal, MemoryIsTotal
    <2>9. AnnouncedIsRecorded'
        <3>1. Recorded'.steps = Recorded.steps + 1
            BY <2>2, <2>3 DEF Advanced
        <3>2. Recorded.steps \in Nat /\ told \subseteq Nat
            BY <1>0, <1>r DEF Checkpoint, TypeOK
        <3>3. told' = told /\ \A k \in told : k <= Recorded.steps
            BY <1>0, <2>1 DEF AnnouncedIsRecorded
        <3>4. \A k \in told : k <= Recorded'.steps
            BY <3>1, <3>2, <3>3
        <3> QED
            BY <3>3, <3>4 DEF AnnouncedIsRecorded
    <2>10. Walk!Extend
        BY <2>2, <2>3, <2>4 DEF Walk!Extend, Advanced
    <2> QED
        BY <2>2, <2>6, <2>7, <2>8, <2>9, <2>10 DEF IInv
<1>9. CASE SaveFails
    BY <1>9, <1>g, <1>m, <1>t, <1>s DEF SaveFails, AfterFailedSave, Goto
<1>10. CASE Announce
    <2>1. /\ UNCHANGED <<policy, store, held, mishaps, mem, budget>> /\ pc = "saved"
          /\ told' \in {told, told \cup {mem.steps}}
          /\ pc' \in {"idle", "prune"} /\ (pc' = "prune" => keep # 0)
        BY <1>10 DEF Announce, Announcing, Goto
    <2>2. Recorded' = Recorded /\ HasNewest' /\ StepsAreTotal'
        BY <1>0, <2>1, SameFiles
    <2>3. mem = Recorded
        BY <1>0, <2>1 DEF Position
    <2>4. Recorded.steps \in Nat
        BY <1>r DEF Checkpoint
    <2>5. told' \subseteq Nat
        BY <1>0, <2>1, <2>3, <2>4 DEF TypeOK
    <2>6. TypeOK'
        BY <1>0, <2>1, <2>5 DEF TypeOK
    <2>7. Position' /\ MemoryIsTotal'
        BY <1>0, <2>1, <2>2 DEF Position, MemoryIsTotal
    <2>8. AnnouncedIsRecorded'
        BY <1>0, <2>1, <2>2, <2>3, <2>4 DEF AnnouncedIsRecorded
    <2> QED
        BY <2>2, <2>6, <2>7, <2>8, <1>s DEF IInv
<1>11. CASE Prune
    <2>1. /\ UNCHANGED <<policy, tmp, damaged, held, executor, told, mishaps>>
          /\ pc = "prune" /\ keep # KeepAll
        BY <1>11 DEF Prune
    <2>2. keep \in Nat \ {0}
        BY <1>0, <2>1, GraphAssumption DEF Position, TypeOK
    <2>3. PICK s \in Surplus : files' = Without(IF backend = "file" THEN {s} ELSE Surplus)
        BY <1>11 DEF Prune
    <2> DEFINE D == IF backend = "file" THEN {s} ELSE Surplus
    <2>4. D \subseteq Surplus /\ files' = Without(D) /\ Surplus # {}
        BY <2>3
    <2>5. /\ HasNewest' /\ Recorded' = Recorded /\ DOMAIN files' \subseteq DOMAIN files
          /\ \A u \in DOMAIN files' : files'[u] = files[u]
        <3> HIDE DEF D
        <3> QED
            BY <1>0, <2>2, <2>4, PruneRecords
    <2>6. TypeOK'
        <3>1. files' \in [DOMAIN files' -> Checkpoint]
            <4>1. files' = [u \in DOMAIN files' |-> files'[u]]
                BY <2>4 DEF Without
            <4> QED
                BY <1>0, <2>5, <4>1 DEF TypeOK
        <3> QED
            BY <1>0, <2>1, <2>5, <3>1 DEF TypeOK
    <2>7. Position' /\ MemoryIsTotal'
        BY <1>0, <2>1, <2>5 DEF Position, MemoryIsTotal
    <2>8. StepsAreTotal' /\ AnnouncedIsRecorded'
        BY <1>0, <2>1, <2>5 DEF StepsAreTotal, AnnouncedIsRecorded
    <2> QED
        BY <2>5, <2>6, <2>7, <2>8, <1>s DEF IInv
<1>12. CASE Proceed
    BY <1>12, <1>g, <1>m, <1>t, <1>s DEF Proceed, Goto
<1>13. CASE Crash
    BY <1>13, <1>g, <1>m, <1>t, <1>s DEF Crash, Goto
<1>14. CASE Damage
    <2>1. /\ UNCHANGED <<policy, files, tmp, held, executor, told>>
          /\ damaged' = damaged \cup {Latest} /\ Scanned # {} /\ Mishap
        BY <1>14 DEF Damage
    <2>2. Latest \in Nat \ {0}
        <3>1. Latest \in DOMAIN files
            BY <1>0, <2>1, RecordedIs DEF Scanned
        <3> QED
            BY <1>0, <3>1 DEF TypeOK
    <2>3. TypeOK'
        BY <1>0, <1>m, <2>1, <2>2 DEF TypeOK
    <2>4. Recorded' = Recorded
        BY <2>1, SameFiles
    <2>5. Position' /\ MemoryIsTotal'
        BY <1>0, <2>1, <2>4 DEF Position, MemoryIsTotal
    <2> QED
        BY <2>1, <2>3, <2>5, <1>q, <1>s
<1>15. CASE UNCHANGED vars
    <2>1. TypeOK' /\ UNCHANGED <<files, told>>
        BY <1>0, <1>15 DEF vars, TypeOK
    <2>2. Recorded' = Recorded
        BY <2>1, SameFiles
    <2>3. Position' /\ MemoryIsTotal'
        BY <1>0, <1>15, <2>2 DEF vars, Position, MemoryIsTotal
    <2> QED
        BY <2>1, <2>3, <1>q, <1>s
<1> QED
    BY <1>1, <1>2, <1>3, <1>4, <1>5, <1>6, <1>7, <1>8, <1>9, <1>10, <1>11, <1>12, <1>13,
       <1>14, <1>15 DEF Next, Executor

-----------------------------------------------------------------------------
(* The inductive invariant: between a commit and its save the executor is one node
   ahead of the trace, otherwise it stands where the trace ends. *)
THEOREM Invariance == Spec => []IInv
<1>1. IInv /\ [Next]_vars => IInv'
    BY StepHolds
<1> QED
    BY InitHolds, <1>1, PTL DEF Spec

(* Type correctness. *)
THEOREM TypeCorrect == Spec => []TypeOK
<1>1. IInv => TypeOK
    BY DEF IInv
<1> QED
    BY Invariance, <1>1, PTL

(* The trace of every run, whatever its graph, budget and retention, and however often
   it crashes, fails to save, is pruned and is restored, is one walk of the graph. *)
THEOREM TraceIsOneWalk == Spec => ContinuesWalk
<1>1. Init => Walk!Init
    BY DEF Init, Walk!Init, Recorded, Origin
<1>2. IInv /\ [Next]_vars => [Walk!Extend]_<<Recorded.walk, Recorded.next>>
    BY StepHolds
<1> QED
    BY Invariance, <1>1, <1>2, PTL DEF Spec, ContinuesWalk, Walk!Spec

(* No node is executed before the boundary of the node before it is in the trace. *)
THEOREM BoundariesAreSaved == Spec => []NoUnsavedBoundary
<1>1. IInv => NoUnsavedBoundary
    BY DEF IInv, Position, NoUnsavedBoundary
<1> QED
    BY Invariance, <1>1, PTL

(* steps_used is the number of nodes the trace records. *)
THEOREM BudgetIsTotal == Spec => []StepsAreTotal
<1>1. IInv => StepsAreTotal
    BY DEF IInv
<1> QED
    BY Invariance, <1>1, PTL

(* What a consumer was told is saved stays saved. *)
THEOREM AnnouncementsHold == Spec => []AnnouncedIsRecorded
<1>1. IInv => AnnouncedIsRecorded
    BY DEF IInv
<1> QED
    BY Invariance, <1>1, PTL

(* The trace is not behind what was done, counted or said on the strength of it. *)
THEOREM TraceIsNotBehind == Spec => []TraceIsTrue
<1> QED
    BY BoundariesAreSaved, BudgetIsTotal, AnnouncementsHold, PTL DEF TraceIsTrue
=============================================================================
