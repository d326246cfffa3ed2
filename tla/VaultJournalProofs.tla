------------------------ MODULE VaultJournalProofs ------------------------
(***************************************************************************)
(* The vault's journal keeps its promises, for any files, mutations,       *)
(* crashes and failures.                                                   *)
(*                                                                         *)
(* Three invariants build on each other: Typed for every instance; then    *)
(* Described, that the state file describes what SQLite holds, which edits *)
(* from outside and failing rollbacks leave true; and Undisturbed, that    *)
(* files, SQLite, state file and mirror agree and every step is one of     *)
(* AtomicVault, which neither does.                                        *)
(***************************************************************************)
EXTENDS VaultJournal, WellFoundedInduction, TLAPS

-----------------------------------------------------------------------------
(* Types *)

\* A start comes after a crash, so there is room for the mutation it makes.
RoomForStart ==
  /\ ops <= MaxOps + crashes
  /\ pc \in {"down", "recovering", "starting"} => ops < MaxOps + crashes
  /\ pc \in RollbackSteps /\ goal.recovery => ops < MaxOps + crashes

Typed == TypeOK /\ RoomForStart

LEMMA SnapshotIsTyped ==
  ASSUME FilesOK
  PROVE  Snapshot \in Snapshots
  BY DEF FilesOK, Snapshot, Snapshots

LEMMA TextsOfOps ==
  ASSUME Typed
  PROVE  0 \in Texts /\ \A n \in 0..(ops + 1) : n \in Texts
  BY BoundAssumption DEF Typed, TypeOK, CountersOK, Texts

\* What is left of a mutation's files to write.
Todos == UNION {[S -> Texts] : S \in SUBSET File}

LEMMA TodosAre ==
  ASSUME NEW todo
  PROVE  todo \in Todos
           <=> /\ todo = [f \in DOMAIN todo |-> todo[f]]
               /\ DOMAIN todo \subseteq File
               /\ \A f \in DOMAIN todo : todo[f] \in Texts
PROOF
<1>1. ASSUME todo \in Todos
      PROVE  /\ todo = [f \in DOMAIN todo |-> todo[f]]
             /\ DOMAIN todo \subseteq File
             /\ \A f \in DOMAIN todo : todo[f] \in Texts
  BY <1>1 DEF Todos
<1>2. ASSUME /\ todo = [f \in DOMAIN todo |-> todo[f]]
             /\ DOMAIN todo \subseteq File
             /\ \A f \in DOMAIN todo : todo[f] \in Texts
      PROVE  todo \in Todos
  <2>1. todo \in [DOMAIN todo -> Texts]
    BY <1>2
  <2> QED
    BY <1>2, <2>1 DEF Todos
<1> QED
  BY <1>1, <1>2

\* Nothing is under way, and no file is left to write.
LEMMA AtRest ==
  ASSUME 0 \in Texts, NEW n \in Nat
  PROVE  /\ Empty \in [File -> Texts] /\ NoSnapshot \in Snapshots
         /\ NoChange \in Todos
         /\ NoOp \in [id : 0..n, todo : Todos, before : Snapshots, docs : [File -> Texts]]
         /\ NoGoal \in [id : 0..n, snapshot : Snapshots, todo : SUBSET File,
                       rebuild : BOOLEAN, recovery : BOOLEAN]
PROOF
<1>1. Empty \in [File -> Texts]
  BY DEF Empty
<1>2. NoSnapshot \in Snapshots
  BY <1>1 DEF NoSnapshot, Snapshots
<1>3. NoChange \in Todos
  BY TodosAre DEF NoChange
<1> QED
  BY <1>1, <1>2, <1>3 DEF NoOp, NoGoal

LEMMA InitTyped == Init => Typed
PROOF
<1> SUFFICES ASSUME Init  PROVE Typed
  OBVIOUS
<1>1. 0 \in Texts
  BY BoundAssumption DEF Texts
<1>2. OpOK /\ GoalOK
  BY <1>1, AtRest DEF Init, OpOK, GoalOK, MutationSteps, Todos
<1>3. FilesOK /\ JournalOK
  BY <1>1, AtRest DEF Init, FilesOK, JournalOK, NoChange
<1>4. CountersOK /\ RoomForStart
  BY BoundAssumption DEF Init, CountersOK, RoomForStart, RollbackSteps
<1> QED
  BY <1>2, <1>3, <1>4 DEF Typed, TypeOK

\* A mutation's preparation keeps the types when its texts are typed and there is room.
LEMMA PrepareKeepsTyped ==
  ASSUME Typed, NEW todo \in Todos, ops < MaxOps + crashes, Prepare(todo)
  PROVE  Typed'
PROOF
<1> DEFINE target == [f \in File |-> IF f \in DOMAIN todo THEN todo[f] ELSE vault[f]]
<1> DEFINE record == [stage |-> "prepared", before |-> Snapshot, after |-> Nothing,
                      manifest |-> Nothing, target |-> target]
<1>1. Snapshot \in Snapshots /\ Empty \in [File -> Texts] /\ target \in [File -> Texts]
  BY SnapshotIsTyped, TextsOfOps, TodosAre DEF Typed, TypeOK, FilesOK, Empty
<1>2. record \in Records
  BY <1>1 DEF Records
<1>3. /\ DOMAIN journal' = DOMAIN journal \cup {ops'}
      /\ \A id \in DOMAIN journal : journal'[id] = journal[id]
      /\ ops' \notin DOMAIN journal => journal'[ops'] = record
  BY DEF Prepare
<1>4. JournalOK'
  <2> HIDE DEF record
  <2> QED  BY <1>2, <1>3, BoundAssumption DEF Typed, TypeOK, JournalOK, CountersOK, Prepare
<1>5. FilesOK'
  BY DEF Typed, TypeOK, FilesOK, Prepare
<1>6. OpOK'
  BY <1>1, <1>3, BoundAssumption DEF Typed, TypeOK, OpOK, CountersOK, Prepare, Todos
<1>7. GoalOK' /\ CountersOK' /\ RoomForStart'
  BY BoundAssumption
  DEF Typed, TypeOK, GoalOK, CountersOK, RoomForStart, Prepare, MutationSteps, RollbackSteps
<1> QED
  BY <1>4, <1>5, <1>6, <1>7 DEF Typed, TypeOK

\* While its effects are undone a record is in the journal.
Recorded ==
  /\ pc \in RollbackSteps => goal.id \in DOMAIN journal
  /\ goal.recovery => goal.rebuild

\* A step of a mutation that replaces the active record keeps the journal typed.
LEMMA PersistKeepsJournal ==
  ASSUME JournalOK, NEW record \in Records, Persist(record), UNCHANGED ops
  PROVE  JournalOK'
  BY DEF JournalOK, Persist

\* So does the end of a record.
LEMMA EndKeepsJournal ==
  ASSUME JournalOK, NEW id, End(id), UNCHANGED ops
  PROVE  JournalOK'
  BY DEF JournalOK, End

\* What the process is at when it is at rest is typed.
LEMMA RestIsTyped ==
  ASSUME Typed
  PROVE  /\ NoOp \in [id : 0..ops, todo : UNION {[S -> Texts] : S \in SUBSET File},
                      before : Snapshots, docs : [File -> Texts]]
         /\ NoGoal \in [id : 0..ops, snapshot : Snapshots, todo : SUBSET File,
                       rebuild : BOOLEAN, recovery : BOOLEAN]
PROOF
<1>1. 0 \in Texts /\ ops \in Nat
  BY TextsOfOps, BoundAssumption DEF Typed, TypeOK, CountersOK
<1> QED
  BY <1>1, AtRest DEF Todos

LEMMA RollBackKeepsTyped ==
  ASSUME Typed, RollBack, pc \in MutationSteps, UNCHANGED <<ops, crashes, edits>>,
         failures' \in 0..MaxFailures
  PROVE  Typed'
PROOF
<1> USE DEF Typed, TypeOK
<1>1. GoalOK'
  <2> DEFINE to == [id |-> op.id, snapshot |-> op.before, todo |-> Listed,
                    rebuild |-> pc \in ProjectionChanged, recovery |-> FALSE]
  <2>1. to \in [id : 0..ops, snapshot : Snapshots, todo : SUBSET File,
               rebuild : BOOLEAN, recovery : BOOLEAN]
    BY DEF OpOK, Listed
  <2> QED
    BY <2>1 DEF RollBack, GoalOK
<1>2. OpOK'
  BY RestIsTyped DEF RollBack, OpOK, MutationSteps
<1>3. RoomForStart'
  BY DEF RollBack, RoomForStart, RollbackSteps
<1> QED
  BY <1>1, <1>2, <1>3
  DEF RollBack, disk, FilesOK, JournalOK, CountersOK, RollbackSteps

\* The steps of a mutation that is recorded keep the types.
LEMMA MutateKeepsTyped ==
  ASSUME Typed, Mutate
  PROVE  Typed'
PROOF
<1> USE DEF Typed, TypeOK
<1>1. ASSUME NEW f \in File, WriteFile(f)
      PROVE  Typed'
  <2>1. FilesOK'
    <3>1. op.todo[f] \in Texts
      BY <1>1, TodosAre DEF WriteFile, OpOK, Todos
    <3> QED
      BY <1>1, <3>1 DEF WriteFile, Step, FilesOK
  <2>2. OpOK'
    <3> DEFINE rest == [g \in DOMAIN op.todo \ {f} |-> op.todo[g]]
    <3>1. op.todo \in Todos
      BY DEF OpOK, Todos
    <3>2. rest \in Todos
      BY <3>1, TodosAre
    <3>3. [op EXCEPT !.todo = rest] \in
            [id : 0..ops, todo : Todos, before : Snapshots, docs : [File -> Texts]]
      <4> HIDE DEF rest
      <4> QED  BY <3>2 DEF OpOK, Todos
    <3> QED
      BY <1>1, <3>3 DEF WriteFile, Step, OpOK, counters, Todos, MutationSteps
  <2> QED
    BY <1>1, <2>1, <2>2
    DEF WriteFile, Step, counters, JournalOK, GoalOK, CountersOK, RoomForStart, RollbackSteps
<1>2. ASSUME WriteAfter \/ PersistFiles \/ PersistProjection \/ PersistState \/ RefreshAfter
             \/ PersistRefreshed
      PROVE  Typed'
  <2>1. Active \in Records /\ Snapshot \in Snapshots
    BY <1>2, SnapshotIsTyped
    DEF OpOK, JournalOK, Active, WriteAfter, PersistFiles, PersistProjection, PersistState,
        RefreshAfter, PersistRefreshed, Step, MutationSteps
  <2>2. JournalOK'
    <3> DEFINE staged(stage) == [Active EXCEPT !.stage = stage]
    <3>1. ASSUME NEW after \in {Snapshot}
          PROVE  [Active EXCEPT !.after = after] \in Records
      BY <2>1 DEF Records
    <3>2. /\ [Active EXCEPT !.stage = "files_committed", !.manifest = Active.after] \in Records
          /\ [Active EXCEPT !.stage = "projection_committed"] \in Records
          /\ [Active EXCEPT !.stage = "state_committed"] \in Records
          /\ [Active EXCEPT !.manifest = Active.after] \in Records
      BY <2>1 DEF Records
    <3> QED
      BY <1>2, <3>1, <3>2, PersistKeepsJournal
      DEF WriteAfter, PersistFiles, PersistProjection, PersistState, RefreshAfter,
          PersistRefreshed, Step, counters
  <2>3. FilesOK' /\ GoalOK' /\ CountersOK' /\ RoomForStart'
    BY <1>2
    DEF WriteAfter, PersistFiles, PersistProjection, PersistState, RefreshAfter,
        PersistRefreshed, Step, counters, FilesOK, GoalOK, CountersOK, RoomForStart,
        MutationSteps, RollbackSteps
  <2>4. OpOK'
    <3>1. [op EXCEPT !.docs = vault] \in
            [id : 0..ops, todo : Todos, before : Snapshots, docs : [File -> Texts]]
      BY DEF OpOK, FilesOK, Todos
    <3> QED
      BY <1>2, <3>1
      DEF WriteAfter, PersistFiles, PersistProjection, PersistState, RefreshAfter,
          PersistRefreshed, Persist, Step, counters, OpOK, Todos, MutationSteps
  <2> QED
    BY <2>2, <2>3, <2>4
<1>3. ASSUME CommitProjection \/ WriteState \/ AlignMirror
      PROVE  Typed'
  <2>1. FilesOK'
    BY <1>3, ProfileAssumption, TextsOfOps
    DEF CommitProjection, WriteState, AlignMirror, Step, Remaining, FilesOK, OpOK
  <2> QED
    BY <1>3, <2>1
    DEF CommitProjection, WriteState, AlignMirror, Step, counters, JournalOK, OpOK, GoalOK,
        CountersOK, RoomForStart, MutationSteps, RollbackSteps
<1>4. CASE Complete
  <2>1. JournalOK'
    BY <1>4, EndKeepsJournal DEF Complete, Step, counters
  <2> QED
    BY <1>4, <2>1
    DEF Complete, Step, counters, FilesOK, OpOK, GoalOK, CountersOK, RoomForStart,
        MutationSteps, RollbackSteps
<1>5. CASE CleanUp
  BY <1>5, RestIsTyped
  DEF CleanUp, Step, disk, counters, FilesOK, JournalOK, OpOK,
      GoalOK, CountersOK, RoomForStart, MutationSteps, RollbackSteps
<1>6. CASE Conflict
  BY <1>6, RollBackKeepsTyped DEF Conflict, CountersOK, counters, MutationSteps
<1> QED
  BY <1>1, <1>2, <1>3, <1>4, <1>5, <1>6 DEF Mutate

\* So do those that undo one.
LEMMA UndoKeepsTyped ==
  ASSUME Typed, Undo
  PROVE  Typed'
PROOF
<1> USE DEF Typed, TypeOK
<1>1. ASSUME NEW f \in File, Clear(f) \/ Refill(f)
      PROVE  Typed'
  <2>1. FilesOK'
    BY <1>1, TextsOfOps DEF Clear, Refill, Restore, FilesOK, GoalOK, Snapshots
  <2>2. GoalOK' /\ goal'.recovery = goal.recovery
    <3>1. [goal EXCEPT !.todo = goal.todo \ {f}] \in
            [id : 0..ops, snapshot : Snapshots, todo : SUBSET File, rebuild : BOOLEAN,
             recovery : BOOLEAN]
      BY DEF GoalOK
    <3> QED
      BY <1>1, <3>1 DEF Clear, Refill, Restore, GoalOK, counters
  <2> QED
    BY <1>1, <2>1, <2>2
    DEF Clear, Refill, Restore, counters, JournalOK, OpOK, CountersOK, RoomForStart,
        MutationSteps, RollbackSteps
<1>2. CASE Cleared
  <2>1. [goal EXCEPT !.todo = {f \in File : goal.snapshot.vault[f] # 0}] \in
          [id : 0..ops, snapshot : Snapshots, todo : SUBSET File, rebuild : BOOLEAN,
           recovery : BOOLEAN]
    BY DEF GoalOK
  <2> QED
    BY <1>2, <2>1
    DEF Cleared, Restore, disk, counters, FilesOK, JournalOK, OpOK, GoalOK, CountersOK,
        RoomForStart, MutationSteps, RollbackSteps
<1>3. ASSUME RestoreMirror \/ RestoreState \/ RebuildProjection \/ RebuildState \/ Realign
      PROVE  Typed'
  <2>1. FilesOK'
    BY <1>3, ProfileAssumption, TextsOfOps
    DEF RestoreMirror, RestoreState, RebuildProjection, RebuildState, Realign, Restore,
        Remaining, FilesOK, GoalOK, Snapshots
  <2> QED
    BY <1>3, <2>1
    DEF RestoreMirror, RestoreState, RebuildProjection, RebuildState, Realign, Restore,
        counters, JournalOK, OpOK, GoalOK, CountersOK, RoomForStart, MutationSteps, RollbackSteps
<1>4. CASE Close
  <2>1. JournalOK'
    BY <1>4, EndKeepsJournal DEF Close, Restore, counters
  <2> QED
    BY <1>4, <2>1, RestIsTyped
    DEF Close, Restore, counters, FilesOK, OpOK, GoalOK, MutationSteps,
        CountersOK, RoomForStart, MutationSteps, RollbackSteps
<1> QED
  BY <1>1, <1>2, <1>3, <1>4 DEF Undo

LEMMA LeastExists ==
  ASSUME NEW S, S \subseteq Nat, S # {}
  PROVE  \E n \in S : \A m \in S : n <= m
PROOF
<1>1. PICK n \in S : \A m \in S : ~(<<m, n>> \in OpToRel(<, Nat))
  BY NatLessThanWellFounded, WFMin, Zenon
<1>2. \A m \in S : <<m, n>> \in OpToRel(<, Nat) <=> m < n
  BY DEF OpToRel
<1>3. \A m \in S : ~(m < n)
  BY <1>1, <1>2, Zenon
<1> QED
  BY <1>3

\* The oldest record is one of the journal's.
LEMMA OldestIsPending ==
  ASSUME JournalOK, ops \in Nat, DOMAIN journal # {}
  PROVE  Oldest \in DOMAIN journal
PROOF
<1>1. \E n \in DOMAIN journal : \A j \in DOMAIN journal : n <= j
  BY LeastExists DEF JournalOK
<1> QED
  BY <1>1 DEF Oldest

LEMMA StartupKeepsTyped ==
  ASSUME Typed, Startup
  PROVE  Typed'
PROOF
<1> USE DEF Typed, TypeOK
<1>1. CASE Start
  BY <1>1
  DEF Start, disk, counters, FilesOK, JournalOK, OpOK, GoalOK, CountersOK, RoomForStart,
      MutationSteps, RollbackSteps
<1>2. CASE Recover
  <2>1. Oldest \in DOMAIN journal
    BY <1>2, OldestIsPending, BoundAssumption DEF Recover, CountersOK
  <2>2. journal[Oldest] \in Records /\ Oldest \in 0..ops
    BY <2>1, BoundAssumption DEF JournalOK, CountersOK
  <2>3. GoalOK'
    <3>1. CASE UNCHANGED goal
      BY <1>2, <3>1 DEF GoalOK, Recover, counters
    <3>2. CASE ~UNCHANGED goal
      <4> DEFINE record == journal[Oldest]
                 snapshot == IF Outcome(record) = "before" THEN record.before ELSE record.after
      <4>1. /\ goal' = [id |-> Oldest, snapshot |-> snapshot, todo |-> Listed,
                        rebuild |-> TRUE, recovery |-> TRUE]
            /\ ops' = ops
        BY <1>2, <3>2 DEF Recover, counters
      <4>2. snapshot \in Snapshots
        <5>1. Outcome(record) = "after" => record.after = record.manifest
          BY <1>2, <3>2 DEF Recover
        <5> QED
          BY <2>2, <5>1 DEF Outcome, Records
      <4> QED
        <5> HIDE DEF snapshot
        <5> QED  BY <2>2, <4>1, <4>2 DEF GoalOK, Listed
    <3> QED
      BY <3>1, <3>2
  <2> QED
    BY <1>2, <2>3
    DEF Recover, disk, counters, FilesOK, JournalOK, OpOK, CountersOK, RoomForStart,
        MutationSteps, RollbackSteps
<1>3. CASE FinishStart
  BY <1>3, ProfileAssumption
  DEF FinishStart, counters, FilesOK, JournalOK, OpOK, GoalOK, CountersOK, RoomForStart,
      MutationSteps, RollbackSteps
<1>4. CASE RebuildAtStart
  <2>1. NoChange \in Todos
    BY TextsOfOps, TodosAre DEF NoChange
  <2> QED
    BY <1>4, <2>1, PrepareKeepsTyped DEF RebuildAtStart, RoomForStart
<1> QED
  BY <1>1, <1>2, <1>3, <1>4 DEF Startup

LEMMA NextKeepsTyped ==
  ASSUME Typed, [Next]_vars
  PROVE  Typed'
PROOF
<1> USE DEF Typed, TypeOK
<1>1. ASSUME NEW todo \in Changes, Begin(todo)
      PROVE  Typed'
  <2>1. todo \in Todos
    <3>1. ops + 1 \in Texts /\ 0 \in Texts
      BY TextsOfOps, BoundAssumption DEF CountersOK
    <3> QED
      BY <3>1 DEF Changes, Todos
  <2>2. ops < MaxOps + crashes
    BY <1>1, BoundAssumption DEF Begin, CountersOK
  <2> QED
    BY <1>1, <2>1, <2>2, PrepareKeepsTyped DEF Begin
<1>2. CASE Fail
  BY <1>2, RollBackKeepsTyped, BoundAssumption DEF Fail, CountersOK, counters
<1>3. CASE RollbackFailed
  BY <1>3, RestIsTyped, BoundAssumption
  DEF RollbackFailed, disk, FilesOK, JournalOK, OpOK, GoalOK, CountersOK, RoomForStart,
      MutationSteps, RollbackSteps
<1>4. CASE Crash
  BY <1>4, RestIsTyped, BoundAssumption
  DEF Crash, disk, FilesOK, JournalOK, OpOK, GoalOK, CountersOK, RoomForStart,
      MutationSteps, RollbackSteps
<1>5. ASSUME NEW f \in File, Edit(f)
      PROVE  Typed'
  <2>1. -(edits') \in Texts
    BY <1>5, BoundAssumption DEF Edit, CountersOK, Texts
  <2>2. FilesOK'
    BY <1>5, <2>1 DEF Edit, FilesOK
  <2> QED
    BY <1>5, <2>2, BoundAssumption
    DEF Edit, JournalOK, OpOK, GoalOK, CountersOK, RoomForStart
<1>6. CASE UNCHANGED vars
  BY <1>6
  DEF vars, disk, counters, FilesOK, JournalOK, OpOK, GoalOK, CountersOK, RoomForStart
<1>7. CASE Mutate
  BY <1>7, MutateKeepsTyped
<1>8. CASE Undo
  BY <1>8, UndoKeepsTyped
<1>9. CASE Startup
  BY <1>9, StartupKeepsTyped
<1> QED
  BY <1>1, <1>2, <1>3, <1>4, <1>5, <1>6, <1>7, <1>8, <1>9 DEF Next

ProjectionIsOps ==
  {"projected", "stating", "stated", "aligning", "refreshing", "refreshed", "completing"}
StateIsOps == {"stated", "aligning", "refreshing", "refreshed", "completing"}
Unprojected == {"writing", "filing", "projecting"}

\* The state file describes the projection once nothing is pending, because a
\* mutation writes both from the same documents, and because a rollback that
\* does not rebuild the projection restores what described it before.
Described ==
  /\ DOMAIN journal = {} => state = projection
  /\ pc \in ProjectionIsOps => projection = op.docs
  /\ pc \in StateIsOps => state = op.docs
  /\ pc \in Unprojected /\ DOMAIN journal = {op.id} => op.before.state = projection
  /\ pc \in {"clearing", "refilling", "restating"} /\ ~goal.rebuild
       /\ DOMAIN journal = {goal.id} => goal.snapshot.state = projection
  /\ pc \in {"realigning", "closing"} /\ DOMAIN journal = {goal.id}
       => state = projection

FailuresAreInTime == FailsIn \cap {"completing", "cleaning"} = {}

Consistent == Typed /\ Recorded /\ Described

LEMMA InitConsistent == Init => Consistent
  BY InitTyped
  DEF Init, Consistent, Recorded, Described, NoGoal, RollbackSteps, ProjectionIsOps, StateIsOps,
      Unprojected

LEMMA PrepareKeepsDescribed ==
  ASSUME Consistent, pc \in {"idle", "starting"}, NEW todo, Prepare(todo)
  PROVE  Recorded' /\ Described'
PROOF
<1>1. /\ DOMAIN journal' = DOMAIN journal \cup {ops'} /\ ops' \notin DOMAIN journal
      /\ op'.id = ops' /\ op'.before = Snapshot /\ pc' = "writing"
  BY BoundAssumption DEF Prepare, Consistent, Typed, TypeOK, JournalOK, CountersOK
<1>2. DOMAIN journal' = {op'.id} => DOMAIN journal = {}
  BY <1>1
<1>3. op'.before.state = state
  BY <1>1 DEF Snapshot
<1> QED
  BY <1>1, <1>2, <1>3
  DEF Prepare, Consistent, Recorded, Described, RollbackSteps, ProjectionIsOps, StateIsOps,
      Unprojected

\* A rollback rebuilds the projection if the mutation has changed it, and only
\* then.
LEMMA RollBackKeepsDescribed ==
  ASSUME Consistent, RollBack, pc \in MutationSteps \ {"completing", "cleaning"}
  PROVE  Recorded' /\ Described'
PROOF
<1>1. /\ goal'.id = op.id /\ goal'.snapshot = op.before
      /\ goal'.rebuild = (pc \in ProjectionChanged) /\ goal'.recovery = FALSE
  BY DEF RollBack
<1>2. op.id \in DOMAIN journal
  BY DEF Consistent, Typed, TypeOK, OpOK
<1>3. Recorded'
  BY <1>1, <1>2 DEF RollBack, Recorded, disk
<1> QED
  BY <1>1, <1>2, <1>3
  DEF RollBack, disk, Consistent, Described, MutationSteps, ProjectionChanged,
      ProjectionIsOps, StateIsOps, Unprojected

LEMMA MutateKeepsDescribed ==
  ASSUME Consistent, Mutate
  PROVE  Recorded' /\ Described'
PROOF
<1> USE DEF Consistent, Recorded, Described, RollbackSteps, ProjectionIsOps, StateIsOps,
        Unprojected
<1>1. ASSUME NEW f \in File, WriteFile(f)
      PROVE  Recorded' /\ Described'
  <2>1. op'.id = op.id /\ op'.before = op.before
    BY <1>1 DEF WriteFile, Typed, TypeOK, OpOK
  <2> QED
    BY <1>1, <2>1 DEF WriteFile, Step
<1>2. CASE WriteAfter
  <2>1. op'.id = op.id /\ op'.before = op.before
    BY <1>2 DEF WriteAfter, Typed, TypeOK, OpOK
  <2> QED
    BY <1>2, <2>1 DEF WriteAfter, Step, Persist
<1>3. CASE PersistFiles \/ PersistProjection \/ PersistState \/ RefreshAfter \/ PersistRefreshed
  BY <1>3
  DEF PersistFiles, PersistProjection, PersistState, RefreshAfter, PersistRefreshed, Step,
      Persist
<1>4. CASE CommitProjection \/ WriteState \/ AlignMirror
  <2>1. op.id \in DOMAIN journal
    BY <1>4
    DEF Typed, TypeOK, OpOK, MutationSteps, CommitProjection, WriteState, AlignMirror, Step
  <2> QED
    BY <1>4, <2>1 DEF CommitProjection, WriteState, AlignMirror, Step
<1>5. CASE Complete
  BY <1>5 DEF Complete, Step, End
<1>6. CASE CleanUp
  BY <1>6 DEF CleanUp, Step, disk
<1>7. CASE Conflict
  BY <1>7, RollBackKeepsDescribed DEF Conflict, MutationSteps
<1> QED
  BY <1>1, <1>2, <1>3, <1>4, <1>5, <1>6, <1>7 DEF Mutate

LEMMA UndoKeepsDescribed ==
  ASSUME Consistent, Undo
  PROVE  Recorded' /\ Described'
PROOF
<1> USE DEF Consistent, Recorded, Described, RollbackSteps, ProjectionIsOps, StateIsOps,
        Unprojected
<1>1. ASSUME NEW f \in File, Clear(f) \/ Refill(f)
      PROVE  Recorded' /\ Described'
  <2>1. /\ goal'.id = goal.id /\ goal'.snapshot = goal.snapshot
        /\ goal'.rebuild = goal.rebuild /\ goal'.recovery = goal.recovery
    BY <1>1 DEF Clear, Refill, Typed, TypeOK, GoalOK
  <2> QED
    BY <1>1, <2>1 DEF Clear, Refill, Restore
<1>2. CASE Cleared
  <2>1. /\ goal'.id = goal.id /\ goal'.snapshot = goal.snapshot
        /\ goal'.rebuild = goal.rebuild /\ goal'.recovery = goal.recovery
    BY <1>2 DEF Cleared, Typed, TypeOK, GoalOK
  <2> QED
    BY <1>2, <2>1 DEF Cleared, Restore, disk
<1>3. ASSUME RestoreMirror \/ RestoreState \/ RebuildProjection \/ RebuildState \/ Realign
      PROVE  Recorded' /\ Described'
  BY <1>3
  DEF RestoreMirror, RestoreState, RebuildProjection, RebuildState, Realign, Restore
<1>4. CASE Close
  <2>1. DOMAIN journal' = DOMAIN journal \ {goal.id} /\ goal.id \in DOMAIN journal
    BY <1>4 DEF Close, End, Restore
  <2>2. pc' \in {"idle", "recovering"} /\ ~goal'.recovery
    BY <1>4 DEF Close, Restore, NoGoal
  <2> QED
    BY <1>4, <2>1, <2>2 DEF Close, Restore
<1> QED
  BY <1>1, <1>2, <1>3, <1>4 DEF Undo

LEMMA StartupKeepsDescribed ==
  ASSUME Consistent, Startup
  PROVE  Recorded' /\ Described'
PROOF
<1> USE DEF Consistent, Recorded, Described, RollbackSteps, ProjectionIsOps, StateIsOps,
        Unprojected
<1>1. CASE Start \/ FinishStart
  BY <1>1 DEF Start, FinishStart, disk
<1>2. CASE Recover
  <2>1. Oldest \in DOMAIN journal
    BY <1>2, OldestIsPending, BoundAssumption DEF Recover, Typed, TypeOK, CountersOK
  <2>2. /\ pc' = "clearing" => goal'.id = Oldest /\ goal'.rebuild /\ goal'.recovery
        /\ pc' = "refused" => UNCHANGED goal
        /\ pc' \in {"clearing", "refused"}
    BY <1>2 DEF Recover
  <2> QED
    BY <1>2, <2>1, <2>2 DEF Recover, disk
<1>3. CASE RebuildAtStart
  BY <1>3, PrepareKeepsDescribed DEF RebuildAtStart
<1> QED
  BY <1>1, <1>2, <1>3 DEF Startup

LEMMA NextKeepsConsistent ==
  ASSUME FailuresAreInTime, Consistent, [Next]_vars
  PROVE  Consistent'
PROOF
<1> SUFFICES Recorded' /\ Described'
  BY NextKeepsTyped DEF Consistent
<1>1. ASSUME NEW todo \in Changes, Begin(todo)
      PROVE  Recorded' /\ Described'
  BY <1>1, PrepareKeepsDescribed DEF Begin
<1>2. CASE Fail
  BY <1>2, RollBackKeepsDescribed DEF Fail, FailuresAreInTime
<1>3. CASE RollbackFailed \/ Crash
  BY <1>3
  DEF RollbackFailed, Crash, NoGoal, disk, Consistent, Recorded, Described, RollbackSteps,
      ProjectionIsOps, StateIsOps, Unprojected
<1>4. ASSUME NEW f \in File, Edit(f)
      PROVE  Recorded' /\ Described'
  BY <1>4 DEF Edit, Consistent, Recorded, Described
<1>5. CASE UNCHANGED vars
  BY <1>5 DEF vars, disk, Consistent, Recorded, Described
<1> QED
  BY <1>1, <1>2, <1>3, <1>4, <1>5, MutateKeepsDescribed, UndoKeepsDescribed,
     StartupKeepsDescribed DEF Next

\* Every variable stays in its range, whatever fails and whoever edits.
THEOREM TypeCorrect == Spec => []TypeOK
PROOF
<1>1. Spec => []Typed
  BY InitTyped, NextKeepsTyped, PTL DEF Spec
<1>2. Typed => TypeOK
  BY DEF Typed
<1> QED
  BY <1>1, <1>2, PTL

\* Whenever nothing is pending, the projection's state file describes what
\* SQLite holds, so that the next sync finds every difference there is: as long
\* as a failed write is one before `complete`, whatever is edited from outside
\* and whichever rollbacks fail (atomicMutation, syncIfChanged).
THEOREM StateFileIsRight == FailuresAreInTime => (Spec => []StateDescribesProjection)
PROOF
<1> SUFFICES ASSUME FailuresAreInTime  PROVE Spec => []StateDescribesProjection
  OBVIOUS
<1>1. Consistent /\ [Next]_vars => Consistent'
  BY NextKeepsConsistent
<1>2. Consistent => StateDescribesProjection
  BY DEF Consistent, Described, StateDescribesProjection
<1> QED
  BY InitConsistent, <1>1, <1>2, PTL DEF Spec

-----------------------------------------------------------------------------
(* Agreement *)

\* Nothing is edited from outside, and no rollback fails.
Undisturbed == FailuresAreInTime /\ ~RollbackFails /\ MaxEdits = 0

OneRecord ==
  /\ pc \in {"idle", "cleaning", "starting"} => DOMAIN journal = {}
  /\ pc \in MutationSteps \ {"cleaning"} => DOMAIN journal = {op.id}
  /\ pc \in RollbackSteps => DOMAIN journal = {goal.id}
  /\ \A i, j \in DOMAIN journal : i = j
  /\ \A i \in DOMAIN journal : i >= done

Agreed ==
  DOMAIN journal = {} =>
    projection = vault /\ state = vault /\ mirror = vault[Profile]

\* What a record says: the vault agreed when the mutation began, and what it
\* made of the vault is what it set out to make.
RecordsFit ==
  \A i \in DOMAIN journal :
    /\ journal[i].before.state = journal[i].before.vault
    /\ journal[i].before.vault \in [File -> Nat]
    /\ journal[i].target \in [File -> Nat]
    /\ journal[i].after # Nothing => journal[i].after.vault = journal[i].target

Mutating ==
  /\ pc \in MutationSteps \ {"cleaning"} => op.before = Active.before
  /\ pc = "writing" =>
       /\ \A f \in DOMAIN op.todo : op.todo[f] = Active.target[f]
       /\ \A f \in File \ DOMAIN op.todo : vault[f] = Active.target[f]
  /\ pc \in MutationSteps \ {"writing", "cleaning"} =>
       vault = Active.target /\ op.docs = vault
  /\ pc \in Unprojected => projection = op.before.vault
  /\ pc \in ProjectionIsOps => projection = vault
  /\ pc \in StateIsOps => state = vault
  /\ pc \in {"refreshing", "refreshed", "completing"} => mirror = vault[Profile]

Restoring ==
  /\ pc \in RollbackSteps /\ ~goal.recovery => goal.snapshot = journal[goal.id].before
  /\ pc \in RollbackSteps => 
       goal.snapshot.vault \in {journal[goal.id].before.vault, journal[goal.id].target}
  /\ pc \in RollbackSteps /\ ~goal.rebuild =>
       ~goal.recovery /\ projection = goal.snapshot.vault
  /\ pc = "clearing" => \A f \in File \ goal.todo : vault[f] = 0
  /\ pc = "refilling" => \A f \in File \ goal.todo : vault[f] = goal.snapshot.vault[f]
  /\ pc \in RollbackSteps \ {"clearing", "refilling"} => vault = goal.snapshot.vault
  /\ pc \in {"describing", "realigning", "closing"} => projection = vault
  /\ pc \in {"realigning", "closing"} => state = vault
  /\ pc = "closing" => mirror = vault[Profile]

Numbered == vault \in [File -> Nat]

Atomically ==
  /\ Typed /\ OneRecord /\ Agreed /\ RecordsFit /\ Mutating /\ Restoring /\ Numbered

LEMMA InitAtomically == Init => Atomically
PROOF
<1> SUFFICES ASSUME Init  PROVE Atomically
  OBVIOUS
<1>1. DOMAIN journal = {}
  BY DEF Init, NoChange
<1>2. Agreed /\ Numbered
  BY ProfileAssumption DEF Init, Agreed, Numbered, Empty
<1>3. OneRecord /\ RecordsFit /\ Mutating /\ Restoring
  BY <1>1
  DEF Init, OneRecord, RecordsFit, Mutating, Restoring, MutationSteps, RollbackSteps,
      Unprojected, ProjectionIsOps, StateIsOps
<1> QED
  BY <1>2, <1>3, InitTyped DEF Atomically

\* A mutation begins when nothing is pending and everything agrees.
LEMMA PrepareKeepsAtomically ==
  ASSUME Atomically, pc \in {"idle", "starting"}, NEW todo \in Changes \cup {NoChange},
         Prepare(todo)
  PROVE  OneRecord' /\ Agreed' /\ RecordsFit' /\ Mutating' /\ Restoring' /\ Numbered'
PROOF
<1> DEFINE target == [f \in File |-> IF f \in DOMAIN todo THEN todo[f] ELSE vault[f]]
<1> DEFINE record == [stage |-> "prepared", before |-> Snapshot, after |-> Nothing,
                      manifest |-> Nothing, target |-> target]
<1>1. DOMAIN journal = {} /\ ops \in Nat /\ ops' = ops + 1 /\ done <= ops
  BY BoundAssumption
  DEF Atomically, OneRecord, Typed, TypeOK, CountersOK, Prepare
<1>2. DOMAIN journal' = {ops'} /\ journal'[ops'] = record
  BY <1>1 DEF Prepare
<1>3. \A f \in DOMAIN todo : f \in File /\ todo[f] \in Nat
  BY <1>1 DEF Changes, NoChange
<1>4. target \in [File -> Nat]
  BY <1>3 DEF Atomically, Numbered
<1>5. /\ Snapshot.vault = vault /\ Snapshot.state = state /\ Snapshot.mirror = mirror
      /\ vault = state /\ vault = projection /\ vault \in [File -> Nat]
  BY <1>1 DEF Snapshot, Atomically, Agreed, Numbered
<1>6. /\ pc' = "writing" /\ op'.id = ops' /\ op'.todo = todo /\ op'.before = Snapshot
      /\ vault' = vault /\ projection' = projection /\ done' = done
  BY DEF Prepare
<1>7. OneRecord' /\ Agreed' /\ Numbered' /\ Restoring'
  BY <1>1, <1>2, <1>5, <1>6
  DEF OneRecord, Agreed, Numbered, Restoring, MutationSteps, RollbackSteps,
      Atomically, Typed, TypeOK, CountersOK
<1>8. RecordsFit'
  BY <1>2, <1>4, <1>5 DEF RecordsFit
<1>9. Mutating'
  <2> SUFFICES /\ op'.before = Active'.before
               /\ \A f \in DOMAIN op'.todo : op'.todo[f] = Active'.target[f]
               /\ \A f \in File \ DOMAIN op'.todo : vault'[f] = Active'.target[f]
               /\ projection' = op'.before.vault
    BY <1>6 DEF Mutating, MutationSteps, Unprojected, ProjectionIsOps, StateIsOps
  <2> QED
    BY <1>2, <1>3, <1>5, <1>6 DEF Active
<1> QED
  BY <1>7, <1>8, <1>9

\* What a rollback restores is what the projection, unless it is rebuilt, still holds.
LEMMA RollBackKeepsAtomically ==
  ASSUME Atomically, RollBack, pc \in MutationSteps \ {"completing", "cleaning"}
  PROVE  OneRecord' /\ Agreed' /\ RecordsFit' /\ Mutating' /\ Restoring' /\ Numbered'
PROOF
<1>1. /\ goal'.id = op.id /\ goal'.snapshot = op.before /\ goal'.todo = Listed
      /\ goal'.rebuild = (pc \in ProjectionChanged) /\ goal'.recovery = FALSE
      /\ pc' = "clearing" /\ UNCHANGED <<disk, done>>
  BY DEF RollBack
<1>2. DOMAIN journal = {op.id} /\ op.before = journal[op.id].before
  BY DEF Atomically, OneRecord, Mutating, Active
<1>3. pc \notin ProjectionChanged => projection = op.before.vault
  BY DEF Atomically, Mutating, ProjectionChanged, MutationSteps, Unprojected
<1>4. \A f \in File \ Listed : vault[f] = 0
  BY DEF Listed
<1>5. Restoring'
  BY <1>1, <1>2, <1>3, <1>4 DEF Restoring, RollbackSteps, disk
<1>6. OneRecord' /\ Agreed' /\ RecordsFit' /\ Numbered'
  BY <1>1, <1>2
  DEF disk, Atomically, OneRecord, Agreed, RecordsFit, Numbered, MutationSteps, RollbackSteps
<1>7. Mutating'
  BY <1>1 DEF Mutating, MutationSteps, Unprojected, ProjectionIsOps, StateIsOps
<1> QED
  BY <1>5, <1>6, <1>7

\* A step that writes into the active record keeps what it began with and what it
\* set out to make.
LEMMA PersistedRecord ==
  ASSUME Atomically, pc \in MutationSteps \ {"cleaning"},
         WriteAfter \/ PersistFiles \/ PersistProjection \/ PersistState \/ RefreshAfter
           \/ PersistRefreshed
  PROVE  /\ DOMAIN journal' = DOMAIN journal /\ UNCHANGED <<vault, projection, state, mirror, done>>
         /\ \A i \in DOMAIN journal :
              /\ journal'[i].before = journal[i].before
              /\ journal'[i].target = journal[i].target
              /\ journal'[i].after \in {journal[i].after, Snapshot}
PROOF
<1>1. DOMAIN journal = {op.id} /\ Active = journal[op.id] /\ Active \in Records
  BY DEF Atomically, OneRecord, Typed, TypeOK, JournalOK, Active
<1>2. ASSUME NEW s
      PROVE  /\ [Active EXCEPT !.after = s].before = Active.before
             /\ [Active EXCEPT !.after = s].target = Active.target
             /\ [Active EXCEPT !.after = s].after = s
             /\ [Active EXCEPT !.stage = s].before = Active.before
             /\ [Active EXCEPT !.stage = s].target = Active.target
             /\ [Active EXCEPT !.stage = s].after = Active.after
             /\ [Active EXCEPT !.manifest = s].before = Active.before
             /\ [Active EXCEPT !.manifest = s].target = Active.target
             /\ [Active EXCEPT !.manifest = s].after = Active.after
  BY <1>1 DEF Records
<1>3. LET r == [Active EXCEPT !.stage = "files_committed", !.manifest = Active.after]
      IN  r.before = Active.before /\ r.target = Active.target /\ r.after = Active.after
  BY <1>1 DEF Records
<1>4. PICK r : /\ journal' = [journal EXCEPT ![op.id] = r]
               /\ r.before = Active.before /\ r.target = Active.target
               /\ r.after \in {Active.after, Snapshot}
  <2>1. CASE WriteAfter \/ RefreshAfter
    BY <1>2, <2>1 DEF WriteAfter, RefreshAfter, Persist
  <2>2. CASE PersistFiles
    <3> DEFINE r == [Active EXCEPT !.stage = "files_committed", !.manifest = Active.after]
    <3>1. journal' = [journal EXCEPT ![op.id] = r]
      BY <2>2 DEF PersistFiles, Persist
    <3>2. r.before = Active.before /\ r.target = Active.target /\ r.after = Active.after
      BY <1>3
    <3> HIDE DEF r
    <3> QED
      BY <3>1, <3>2
  <2>3. CASE PersistProjection \/ PersistState
    <3>1. ASSUME NEW s \in {"projection_committed", "state_committed"},
                 journal' = [journal EXCEPT ![op.id] = [Active EXCEPT !.stage = s]]
          PROVE  \E r : /\ journal' = [journal EXCEPT ![op.id] = r]
                        /\ r.before = Active.before /\ r.target = Active.target
                        /\ r.after \in {Active.after, Snapshot}
      BY <1>2, <3>1
    <3> QED
      BY <2>3, <3>1 DEF PersistProjection, PersistState, Persist
  <2>4. CASE PersistRefreshed
    BY <1>2, <2>4 DEF PersistRefreshed, Persist
  <2> QED
    BY <2>1, <2>2, <2>3, <2>4
<1>5. UNCHANGED <<vault, projection, state, mirror, done>>
  BY DEF WriteAfter, PersistFiles, PersistProjection, PersistState, RefreshAfter,
         PersistRefreshed
<1> QED
  BY <1>1, <1>4, <1>5

LEMMA MutateKeepsAtomically ==
  ASSUME Atomically, Mutate
  PROVE  OneRecord' /\ Agreed' /\ RecordsFit' /\ Mutating' /\ Restoring' /\ Numbered'
PROOF
<1> DEFINE Goal == OneRecord' /\ Agreed' /\ RecordsFit' /\ Mutating' /\ Restoring' /\ Numbered'
<1>1. ASSUME NEW f \in File, WriteFile(f)
      PROVE  Goal
  <2>1. /\ op'.id = op.id /\ op'.before = op.before
        /\ op'.todo = [g \in DOMAIN op.todo \ {f} |-> op.todo[g]]
    BY <1>1 DEF WriteFile, Atomically, Typed, TypeOK, OpOK
  <2>2. /\ pc = "writing" /\ pc' = "writing" /\ f \in DOMAIN op.todo
        /\ vault' = [vault EXCEPT ![f] = op.todo[f]]
        /\ UNCHANGED <<projection, state, mirror, journal, goal, done>>
    BY <1>1 DEF WriteFile, Step
  <2>3. DOMAIN journal = {op.id} /\ op.todo[f] = journal[op.id].target[f]
    BY <2>2 DEF Atomically, OneRecord, MutationSteps, Mutating, Active
  <2>4. Numbered'
    BY <2>2, <2>3 DEF Atomically, Numbered, RecordsFit
  <2>5. Mutating'
    BY <2>1, <2>2, <2>3
    DEF Atomically, Mutating, Active, MutationSteps, Unprojected, ProjectionIsOps, StateIsOps,
        Numbered
  <2>6. OneRecord' /\ Agreed' /\ RecordsFit' /\ Restoring'
    BY <2>1, <2>2, <2>3
    DEF Atomically, OneRecord, Agreed, RecordsFit, Restoring, MutationSteps, RollbackSteps
  <2> QED
    BY <2>4, <2>5, <2>6
<1>2. ASSUME WriteAfter \/ PersistFiles \/ PersistProjection \/ PersistState \/ RefreshAfter
               \/ PersistRefreshed
      PROVE  Goal
  <2>1. /\ pc \in {"writing", "filing", "projected", "stated", "refreshing", "refreshed"}
        /\ goal' = goal
        /\ pc' = IF pc = "writing" THEN "filing" ELSE IF pc = "filing" THEN "projecting"
                 ELSE IF pc = "projected" THEN "stating" ELSE IF pc = "stated" THEN "aligning"
                 ELSE IF pc = "refreshing" THEN "refreshed" ELSE "completing"
    BY <1>2
    DEF WriteAfter, PersistFiles, PersistProjection, PersistState, RefreshAfter,
        PersistRefreshed, Step
  <2>2. /\ op'.id = op.id /\ op'.before = op.before
        /\ op'.docs = IF pc = "writing" THEN vault ELSE op.docs
        /\ pc = "writing" => DOMAIN op.todo = {}
    BY <1>2
    DEF WriteAfter, PersistFiles, PersistProjection, PersistState, RefreshAfter,
        PersistRefreshed, Step, Atomically, Typed, TypeOK, OpOK
  <2>3. /\ DOMAIN journal' = DOMAIN journal
        /\ UNCHANGED <<vault, projection, state, mirror, done>>
        /\ \A i \in DOMAIN journal :
              /\ journal'[i].before = journal[i].before
              /\ journal'[i].target = journal[i].target
              /\ journal'[i].after \in {journal[i].after, Snapshot}
    BY <1>2, <2>1, PersistedRecord DEF MutationSteps
  <2>4. DOMAIN journal = {op.id} /\ Active = journal[op.id] /\ Active' = journal'[op.id]
    BY <2>1, <2>2 DEF Atomically, OneRecord, MutationSteps, Active
  <2>5. vault = journal[op.id].target
    <3>1. CASE pc = "writing"
      <4>1. \A f \in File : vault[f] = journal[op.id].target[f]
        BY <2>2, <2>4, <3>1 DEF Atomically, Mutating
      <4> QED
        BY <2>4, <4>1 DEF Atomically, Numbered, RecordsFit
    <3>2. CASE pc # "writing"
      BY <2>1, <2>4, <3>2 DEF Atomically, Mutating, MutationSteps
    <3> QED
      BY <3>1, <3>2
  <2>6. RecordsFit'
    BY <2>3, <2>4, <2>5 DEF Atomically, RecordsFit, Snapshot
  <2>7. Mutating'
    BY <2>1, <2>2, <2>3, <2>4, <2>5
    DEF Atomically, Mutating, MutationSteps, Unprojected, ProjectionIsOps, StateIsOps
  <2>8. OneRecord' /\ Agreed' /\ Restoring' /\ Numbered'
    BY <2>1, <2>2, <2>3, <2>4
    DEF Atomically, OneRecord, Agreed, Restoring, Numbered, MutationSteps, RollbackSteps
  <2> QED
    BY <2>6, <2>7, <2>8
<1>3. ASSUME CommitProjection \/ WriteState \/ AlignMirror
      PROVE  Goal
  <2>1. DOMAIN journal = {op.id}
    BY <1>3
    DEF CommitProjection, WriteState, AlignMirror, Step, Atomically, OneRecord, MutationSteps
  <2>2. OneRecord' /\ Agreed' /\ RecordsFit' /\ Restoring' /\ Numbered'
    BY <1>3, <2>1
    DEF CommitProjection, WriteState, AlignMirror, Step, Atomically, OneRecord, Agreed,
        RecordsFit, Restoring, Numbered, MutationSteps, RollbackSteps
  <2>3. Mutating'
    BY <1>3
    DEF CommitProjection, WriteState, AlignMirror, Step, Atomically, Mutating, Active,
        MutationSteps, Unprojected, ProjectionIsOps, StateIsOps
  <2> QED
    BY <2>2, <2>3
<1>4. CASE Complete
  <2>1. DOMAIN journal' = {} /\ pc' = "cleaning"
    BY <1>4 DEF Complete, End, Step, Atomically, OneRecord, MutationSteps
  <2>2. Agreed' /\ Numbered'
    BY <1>4
    DEF Complete, Step, Atomically, Mutating, Agreed, Numbered, ProjectionIsOps, StateIsOps
  <2>3. OneRecord' /\ RecordsFit' /\ Mutating' /\ Restoring'
    BY <2>1
    DEF OneRecord, RecordsFit, Mutating, Restoring, MutationSteps, RollbackSteps, Unprojected,
        ProjectionIsOps, StateIsOps
  <2> QED
    BY <2>2, <2>3
<1>5. CASE CleanUp
  BY <1>5
  DEF CleanUp, Step, disk, Atomically, OneRecord, Agreed, RecordsFit, Mutating, Restoring,
      Numbered, MutationSteps, RollbackSteps, Unprojected, ProjectionIsOps, StateIsOps
<1>6. CASE Conflict
  BY <1>6, RollBackKeepsAtomically DEF Conflict, MutationSteps
<1> QED
  BY <1>1, <1>2, <1>3, <1>4, <1>5, <1>6 DEF Mutate

LEMMA UndoKeepsAtomically ==
  ASSUME Atomically, Undo
  PROVE  OneRecord' /\ Agreed' /\ RecordsFit' /\ Mutating' /\ Restoring' /\ Numbered'
PROOF
<1> DEFINE Goal == OneRecord' /\ Agreed' /\ RecordsFit' /\ Mutating' /\ Restoring' /\ Numbered'
<1>1. pc \in RollbackSteps /\ DOMAIN journal = {goal.id}
  BY DEF Undo, Clear, Refill, Cleared, RestoreMirror, RestoreState, RebuildProjection,
         RebuildState, Realign, Close, Restore, Atomically, OneRecord, RollbackSteps
<1>2. goal.snapshot.vault \in [File -> Nat]
  BY <1>1 DEF Atomically, Restoring, RecordsFit
<1>3. ASSUME journal' = journal, pc' \in RollbackSteps, goal'.id = goal.id, done' = done
      PROVE  OneRecord' /\ Agreed' /\ RecordsFit' /\ Mutating'
  BY <1>1, <1>3
  DEF Atomically, OneRecord, Agreed, RecordsFit, Mutating, RollbackSteps, MutationSteps,
      Unprojected, ProjectionIsOps, StateIsOps
<1>4. ASSUME NEW f \in File, Clear(f) \/ Refill(f)
      PROVE  Goal
  <2>1. /\ goal'.id = goal.id /\ goal'.snapshot = goal.snapshot
        /\ goal'.rebuild = goal.rebuild /\ goal'.recovery = goal.recovery
        /\ goal'.todo = goal.todo \ {f}
    BY <1>4 DEF Clear, Refill, Atomically, Typed, TypeOK, GoalOK
  <2>2. /\ pc' = pc /\ pc \in {"clearing", "refilling"}
        /\ UNCHANGED <<projection, state, mirror, journal, done>>
        /\ vault' = [vault EXCEPT ![f] = IF pc = "clearing" THEN 0 ELSE goal.snapshot.vault[f]]
    BY <1>4 DEF Clear, Refill, Restore
  <2>3. Numbered'
    BY <1>2, <2>2 DEF Atomically, Numbered
  <2>4. Restoring'
    BY <1>1, <1>2, <2>1, <2>2 DEF Atomically, Restoring, Numbered, RollbackSteps
  <2> QED
    BY <1>3, <2>1, <2>2, <2>3, <2>4 DEF RollbackSteps
<1>5. CASE Cleared
  <2>1. /\ goal'.id = goal.id /\ goal'.snapshot = goal.snapshot
        /\ goal'.rebuild = goal.rebuild /\ goal'.recovery = goal.recovery
        /\ goal'.todo = {f \in File : goal.snapshot.vault[f] # 0}
    BY <1>5 DEF Cleared, Atomically, Typed, TypeOK, GoalOK
  <2>2. /\ pc = "clearing" /\ pc' = "refilling" /\ goal.todo = {}
        /\ UNCHANGED <<vault, projection, state, mirror, journal, done>>
    BY <1>5 DEF Cleared, Restore, disk
  <2>3. Restoring'
    BY <1>1, <1>2, <2>1, <2>2 DEF Atomically, Restoring, RollbackSteps
  <2> QED
    BY <1>3, <2>1, <2>2, <2>3 DEF RollbackSteps, Atomically, Numbered
<1>6. CASE RestoreMirror
  <2>1. vault = goal.snapshot.vault
    <3>1. \A f \in File : vault[f] = goal.snapshot.vault[f]
      BY <1>6 DEF RestoreMirror, Restore, Atomically, Restoring
    <3> QED
      BY <1>2, <3>1 DEF Atomically, Numbered
  <2>2. Restoring'
    BY <1>1, <1>6, <2>1 DEF RestoreMirror, Restore, Atomically, Restoring, RollbackSteps
  <2> QED
    BY <1>3, <1>6, <2>2 DEF RestoreMirror, Restore, RollbackSteps, Atomically, Numbered
<1>7. CASE RestoreState
  <2>1. /\ pc = "restating" /\ pc' = IF goal.rebuild THEN "rebuilding" ELSE "realigning"
        /\ state' = goal.snapshot.state
        /\ UNCHANGED <<vault, projection, mirror, journal, goal, done>>
    BY <1>7 DEF RestoreState, Restore
  <2>2. ~goal.rebuild => goal.snapshot.state = goal.snapshot.vault
    BY <1>1 DEF Atomically, Restoring, RecordsFit
  <2>3. Restoring'
    BY <1>1, <2>1, <2>2 DEF Atomically, Restoring, RollbackSteps
  <2> QED
    BY <1>3, <2>1, <2>3 DEF RollbackSteps, Atomically, Numbered
<1>8. CASE RebuildProjection \/ RebuildState \/ Realign
  <2>1. Restoring'
    BY <1>1, <1>8
    DEF RebuildProjection, RebuildState, Realign, Restore, Atomically, Restoring, RollbackSteps
  <2> QED
    BY <1>3, <1>8, <2>1
    DEF RebuildProjection, RebuildState, Realign, Restore, RollbackSteps, Atomically, Numbered
<1>9. CASE Close
  <2>1. /\ DOMAIN journal' = {} /\ pc' \in {"idle", "recovering"}
        /\ UNCHANGED <<vault, projection, state, mirror, done>> /\ pc = "closing"
    BY <1>1, <1>9 DEF Close, End, Restore
  <2> QED
    BY <2>1
    DEF Atomically, OneRecord, Agreed, RecordsFit, Mutating, Restoring, Numbered,
        RollbackSteps, MutationSteps, Unprojected, ProjectionIsOps, StateIsOps
<1> QED
  BY <1>4, <1>5, <1>6, <1>7, <1>8, <1>9 DEF Undo

\* There is one record at most, which is the oldest.
LEMMA OnlyIsLeast ==
  ASSUME NEW S, S \subseteq Nat, NEW i \in S, \A j \in S : i = j
  PROVE  (CHOOSE n \in S : \A m \in S : n <= m) = i
PROOF
<1>1. \E n \in S : \A m \in S : n <= m
  OBVIOUS
<1>2. (CHOOSE n \in S : \A m \in S : n <= m) \in S
  BY <1>1
<1> QED
  BY <1>2

LEMMA OldestIsTheRecord ==
  /\ Typed /\ OneRecord => \A i \in DOMAIN journal : Oldest = i
  /\ (Typed /\ OneRecord)' => \A i \in DOMAIN journal' : Oldest' = i
  BY OnlyIsLeast DEF Typed, TypeOK, JournalOK, OneRecord, Oldest

LEMMA StartupKeepsAtomically ==
  ASSUME Atomically, Startup
  PROVE  OneRecord' /\ Agreed' /\ RecordsFit' /\ Mutating' /\ Restoring' /\ Numbered'
PROOF
<1>1. CASE Start \/ FinishStart
  BY <1>1
  DEF Start, FinishStart, disk, Atomically, OneRecord, Agreed, RecordsFit, Mutating, Restoring,
      Numbered, RollbackSteps, MutationSteps, Unprojected, ProjectionIsOps, StateIsOps
<1>2. CASE Recover
  <2>1. PICK i : DOMAIN journal = {i} /\ Oldest = i
    <3>1. PICK i : i \in DOMAIN journal
      BY <1>2 DEF Recover
    <3> QED
      BY <3>1, OldestIsTheRecord DEF Atomically, OneRecord
  <2>2. pc' \in {"refused", "clearing"} /\ UNCHANGED <<disk, op, done>>
    BY <1>2 DEF Recover
  <2>3. ASSUME pc' = "clearing"
        PROVE  /\ goal'.id = i /\ goal'.todo = Listed /\ goal'.rebuild /\ goal'.recovery
               /\ goal'.snapshot.vault \in {journal[i].before.vault, journal[i].target}
    <3> DEFINE record == journal[i]
               snapshot == IF Outcome(record) = "before" THEN record.before ELSE record.after
    <3>1. /\ goal' = [id |-> i, snapshot |-> snapshot, todo |-> Listed, rebuild |-> TRUE,
                      recovery |-> TRUE]
          /\ Outcome(record) = "after" => record.after = record.manifest
      BY <1>2, <2>1, <2>3 DEF Recover
    <3>2. snapshot.vault \in {record.before.vault, record.target}
      BY <2>1, <3>1 DEF Outcome, Atomically, RecordsFit
    <3> QED
      <4> HIDE DEF snapshot, record
      <4> QED  BY <3>1, <3>2 DEF record
  <2>4. Restoring'
    BY <2>1, <2>2, <2>3 DEF Restoring, RollbackSteps, Listed, disk
  <2> QED
    BY <2>1, <2>2, <2>3, <2>4
    DEF disk, Atomically, OneRecord, Agreed, RecordsFit, Mutating, Numbered, RollbackSteps,
        MutationSteps, Unprojected, ProjectionIsOps, StateIsOps
<1>3. CASE RebuildAtStart
  BY <1>3, PrepareKeepsAtomically DEF RebuildAtStart
<1> QED
  BY <1>1, <1>2, <1>3 DEF Startup

LEMMA NextKeepsAtomically ==
  ASSUME Undisturbed, Atomically, [Next]_vars
  PROVE  Atomically'
PROOF
<1> SUFFICES OneRecord' /\ Agreed' /\ RecordsFit' /\ Mutating' /\ Restoring' /\ Numbered'
  BY NextKeepsTyped DEF Atomically
<1>1. ASSUME NEW todo \in Changes, Begin(todo)
      PROVE  OneRecord' /\ Agreed' /\ RecordsFit' /\ Mutating' /\ Restoring' /\ Numbered'
  BY <1>1, PrepareKeepsAtomically DEF Begin
<1>2. CASE Fail
  BY <1>2, RollBackKeepsAtomically DEF Fail, Undisturbed, FailuresAreInTime
<1>3. ~RollbackFailed
  BY DEF RollbackFailed, Undisturbed
<1>4. CASE Crash
  BY <1>4
  DEF Crash, disk, Atomically, OneRecord, Agreed, RecordsFit, Mutating, Restoring, Numbered,
      RollbackSteps, MutationSteps, Unprojected, ProjectionIsOps, StateIsOps
<1>5. ~\E f \in File : Edit(f)
  BY DEF Edit, Undisturbed, Atomically, Typed, TypeOK, CountersOK
<1>6. CASE UNCHANGED vars
  BY <1>6
  DEF vars, disk, Atomically, OneRecord, Agreed, RecordsFit, Mutating, Restoring, Numbered,
      Active
<1> QED
  BY <1>1, <1>2, <1>3, <1>4, <1>5, <1>6, MutateKeepsAtomically, UndoKeepsAtomically,
     StartupKeepsAtomically DEF Next

-----------------------------------------------------------------------------
(* Every step is one of the atomic vault *)

\* A step that keeps the record, or keeps the vault when there is none, is not seen.
LEMMA Unseen ==
  ASSUME Atomically, Atomically', DOMAIN journal' = DOMAIN journal,
         DOMAIN journal = {} => vault' = vault,
         \A i \in DOMAIN journal : /\ journal'[i].before = journal[i].before
                                   /\ journal'[i].target = journal[i].target
  PROVE  UNCHANGED <<Contents, Pending>>
PROOF
<1>1. CASE DOMAIN journal = {}
  BY <1>1 DEF Contents, Pending
<1>2. ASSUME NEW i \in DOMAIN journal
      PROVE  Oldest = i /\ Oldest' = i
  BY OldestIsTheRecord DEF Atomically
<1> QED
  BY <1>1, <1>2 DEF Contents, Pending

\* The preparation of a mutation begins it.
LEMMA PrepareBegins ==
  ASSUME Atomically, Atomically', pc \in {"idle", "starting"}, NEW todo, Prepare(todo)
  PROVE  Atomic!Begin
PROOF
<1>1. DOMAIN journal = {}
  BY DEF Atomically, OneRecord
<1>2. ops' \in DOMAIN journal' /\ journal'[ops'].before = Snapshot
  BY <1>1 DEF Prepare
<1>3. Oldest' = ops'
  BY <1>2, OldestIsTheRecord DEF Atomically
<1>4. journal'[ops'].target \in [File -> Nat]
  BY <1>2 DEF Atomically, RecordsFit
<1> QED
  BY <1>1, <1>2, <1>3, <1>4 DEF Atomic!Begin, Contents, Pending, Snapshot

\* The end of a record commits what it set out to make, or aborts it.
LEMMA EndDecides ==
  ASSUME Atomically, NEW i, DOMAIN journal = {i}, DOMAIN journal' = {},
         vault' \in {journal[i].before.vault, journal[i].target}
  PROVE  Atomic!Commit \/ Atomic!Abort
PROOF
<1>1. Oldest = i
  BY OldestIsTheRecord DEF Atomically
<1>2. journal[i].target # Nothing
  BY NothingAssumption DEF Atomically, RecordsFit
<1> QED
  BY <1>1, <1>2 DEF Atomic!Commit, Atomic!Abort, Contents, Pending

LEMMA StepsAreAtomic ==
  ASSUME Undisturbed, Atomically, Atomically', [Next]_vars
  PROVE  [Atomic!Next]_<<Contents, Pending>>
PROOF
<1>1. ASSUME NEW todo, Begin(todo) \/ (RebuildAtStart /\ todo = NoChange)
      PROVE  Atomic!Next
  BY <1>1, PrepareBegins DEF Begin, RebuildAtStart, Atomic!Next
<1>2. ASSUME Complete \/ Close
      PROVE  Atomic!Next
  <2>1. CASE Complete
    <3>1. DOMAIN journal = {op.id} /\ DOMAIN journal' = {} /\ vault' = journal[op.id].target
      BY <2>1
      DEF Complete, End, Step, Atomically, OneRecord, Mutating, Active, MutationSteps
    <3> QED
      BY <3>1, EndDecides DEF Atomic!Next
  <2>2. CASE Close
    <3>1. /\ DOMAIN journal = {goal.id} /\ DOMAIN journal' = {}
          /\ vault' \in {journal[goal.id].before.vault, journal[goal.id].target}
      BY <2>2
      DEF Close, End, Restore, Atomically, OneRecord, Restoring, RollbackSteps
    <3> QED
      BY <3>1, EndDecides DEF Atomic!Next
  <2> QED
    BY <1>2, <2>1, <2>2
<1>3. ASSUME NEW f \in File, WriteFile(f) \/ Clear(f) \/ Refill(f)
      PROVE  UNCHANGED <<Contents, Pending>>
  <2>1. journal' = journal /\ DOMAIN journal # {}
    BY <1>3
    DEF WriteFile, Clear, Refill, Step, Restore, Atomically, OneRecord, MutationSteps,
        RollbackSteps
  <2> QED
    BY <2>1, Unseen
<1>4. ASSUME WriteAfter \/ PersistFiles \/ PersistProjection \/ PersistState \/ RefreshAfter
               \/ PersistRefreshed
      PROVE  UNCHANGED <<Contents, Pending>>
  <2>1. pc \in MutationSteps \ {"cleaning"}
    BY <1>4
    DEF WriteAfter, PersistFiles, PersistProjection, PersistState, RefreshAfter,
        PersistRefreshed, Step, MutationSteps
  <2> QED
    BY <1>4, <2>1, PersistedRecord, Unseen
<1>5. ASSUME \/ CommitProjection \/ WriteState \/ AlignMirror \/ CleanUp \/ Conflict
             \/ Cleared \/ RestoreMirror \/ RestoreState \/ RebuildProjection \/ RebuildState
             \/ Realign \/ Start \/ Recover \/ FinishStart \/ Fail \/ Crash
             \/ UNCHANGED vars
      PROVE  UNCHANGED <<Contents, Pending>>
  <2>1. journal' = journal /\ vault' = vault
    BY <1>5
    DEF CommitProjection, WriteState, AlignMirror, CleanUp, Conflict, RollBack, Cleared,
        RestoreMirror, RestoreState, RebuildProjection, RebuildState, Realign, Start, Recover,
        FinishStart, Fail, Crash, vars, disk
  <2> QED
    BY <2>1, Unseen
<1>6. ~RollbackFailed /\ ~\E f \in File : Edit(f)
  BY DEF RollbackFailed, Edit, Undisturbed, Atomically, Typed, TypeOK, CountersOK
<1> QED
  BY <1>1, <1>2, <1>3, <1>4, <1>5, <1>6 DEF Next, Mutate, Undo, Startup

-----------------------------------------------------------------------------
(* The theorems of an undisturbed vault *)

LEMMA AtomicallyHolds == Undisturbed => (Spec => []Atomically)
PROOF
<1> SUFFICES ASSUME Undisturbed  PROVE Spec => []Atomically
  OBVIOUS
<1>1. Atomically /\ [Next]_vars => Atomically'
  BY NextKeepsAtomically
<1> QED
  BY InitAtomically, <1>1, PTL DEF Spec

\* Between mutations files, SQLite, state file and mirror agree: for any files
\* and mutations, wherever a write before `complete` fails and wherever the
\* process ends, in its recovery too (atomicMutation, recoverPending).
THEOREM EverythingAgrees == Undisturbed => (Spec => []AllAgree)
PROOF
<1>1. Atomically => AllAgree
  BY DEF Atomically, OneRecord, Agreed, AllAgree
<1> QED
  BY AtomicallyHolds, <1>1, PTL

\* No record is left that a recovery would replay over the effects of an
\* operation that was completed after it, unless a rollback has failed.
THEOREM NothingIsReplayed == Undisturbed => (Spec => []CompletedIsTerminal)
PROOF
<1>1. Atomically => CompletedIsTerminal
  BY DEF Atomically, OneRecord, CompletedIsTerminal
<1> QED
  BY AtomicallyHolds, <1>1, PTL

\* The vault implements the atomic one: each mutation takes effect as a whole or
\* not at all, across failed writes, crashes and crashes of the recovery.
THEOREM AtomicVaultImplemented == Undisturbed => (Spec => ImplementsAtomicVault)
PROOF
<1> SUFFICES ASSUME Undisturbed  PROVE Spec => ImplementsAtomicVault
  OBVIOUS
<1>1. Init => Atomic!Init
  BY DEF Init, Atomic!Init, Contents, Pending, Empty, NoChange
<1>2. Atomically /\ Atomically' /\ [Next]_vars => [Atomic!Next]_<<Contents, Pending>>
  BY StepsAreAtomic
<1> QED
  BY AtomicallyHolds, <1>1, <1>2, PTL DEF Spec, ImplementsAtomicVault, Atomic!Spec

=============================================================================
