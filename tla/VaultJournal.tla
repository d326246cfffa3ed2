---------------------------- MODULE VaultJournal ----------------------------
(***************************************************************************)
(* Crash-safe mutations of the Memory Vault: src/memory-vault/journal.ts,  *)
(* atomicMutation, the hooks of the projection and the recovery at startup *)
(* of src/memory-vault/service.ts, and the projection's rebuild.           *)
(*                                                                         *)
(* A mutation changes Markdown files one by one, then the SQLite           *)
(* projection, the projection's state file and the mirror of the profile;  *)
(* the journal says how far it is.  Every durable write is an action (the  *)
(* write to a temporary file, the fence and the rename are one), so a      *)
(* crash, an I/O error or an edit in an external editor falls between any  *)
(* two.  The code is synchronous: one mutation at a time, of one process   *)
(* (the lease that keeps a second one out is not modelled).  A file's text *)
(* is the number of the mutation that wrote it, 0 when there is no file,   *)
(* negative when it was written from outside.                              *)
(***************************************************************************)
EXTENDS Integers

CONSTANTS
  File,
  Profile,       \* the file that has a mirror
  Nothing,
  EditsAt,       \* where the process stands when files are edited from outside
  FailsIn,       \* the steps of a mutation whose durable write may fail
  RollbackFails, \* the writes of a rollback may fail too
  MaxOps,        \* bound: mutations
  MaxCrashes,    \* bound: crashes
  MaxFailures,   \* bound: failed writes
  MaxEdits       \* bound: external edits

ASSUME ProfileAssumption == Profile \in File
ASSUME NothingAssumption == Nothing \notin [File -> Int]
ASSUME BoundAssumption ==
  /\ {MaxOps, MaxCrashes, MaxFailures, MaxEdits} \subseteq Nat
  /\ RollbackFails \in BOOLEAN

VARIABLES
  vault,       \* the Markdown files
  projection,  \* the documents in SQLite
  state,       \* documentHashes of the projection's state file
  mirror,      \* the profile's compatibility mirror
  journal,     \* by their ids, the records neither completed nor rolled back
  pc,          \* where the process stands
  op,          \* the active operation
  goal,        \* the snapshot that is being restored
  done,        \* history: the last operation that was completed
  edited,      \* history: external texts the projection has not taken in, or 0
  ops, crashes, failures, edits  \* counters, for the bounds and for fresh texts

disk == <<vault, projection, state, mirror, journal>>
counters == <<ops, crashes, failures, edits>>
vars == <<disk, pc, op, goal, done, edited, counters>>

Empty == [f \in File |-> 0]
NoChange == [f \in {} |-> 0]
NoSnapshot == [vault |-> Empty, state |-> Empty, mirror |-> 0]
NoOp == [id |-> 0, todo |-> NoChange, before |-> NoSnapshot, docs |-> Empty]
NoGoal == [id |-> 0, snapshot |-> NoSnapshot, todo |-> {}, rebuild |-> FALSE,
           recovery |-> FALSE]

\* captureSnapshot
Snapshot == [vault |-> vault, state |-> state, mirror |-> mirror]

Init ==
  /\ vault = Empty /\ projection = Empty /\ state = Empty /\ mirror = 0
  /\ journal = NoChange
  /\ pc = "idle" /\ op = NoOp /\ goal = NoGoal
  /\ done = 0 /\ edited = Empty
  /\ ops = 0 /\ crashes = 0 /\ failures = 0 /\ edits = 0

-----------------------------------------------------------------------------
(* A mutation *)

Active == journal[op.id]
Persist(record) == journal' = [journal EXCEPT ![op.id] = record]

\* The record of the operation becomes `completed` or `rolled_back`.
End(id) == journal' = [i \in DOMAIN journal \ {id} |-> journal[i]]

\* A step of the mutation: one durable write, at `from`, after which it is at `to`.
Step(from, to) ==
  /\ pc = from
  /\ pc' = to
  /\ UNCHANGED <<goal, edited, counters>>

\* prepare: the before snapshot and then the record become durable.
Prepare(todo) ==
  /\ ops' = ops + 1
  /\ journal' = [id \in DOMAIN journal \cup {ops'} |->
       IF id \in DOMAIN journal THEN journal[id]
       ELSE [stage |-> "prepared", before |-> Snapshot,
             after |-> Nothing, manifest |-> Nothing,
             target |-> [f \in File |-> IF f \in DOMAIN todo THEN todo[f] ELSE vault[f]]]]
  /\ op' = [id |-> ops', todo |-> todo, before |-> Snapshot, docs |-> Empty]
  /\ pc' = "writing"
  /\ UNCHANGED <<vault, projection, state, mirror, goal, done, edited, crashes,
                 failures, edits>>

\* A mutation that writes and removes some files, or, if it has none, a sync
\* after the vault was found changed.
Begin(todo) ==
  /\ pc = "idle"
  /\ ops < MaxOps
  /\ DOMAIN todo = {} => vault # state
  /\ Prepare(todo)

\* assertCas with what casForWrite expects; removing a file expects nothing.
Matches(f) ==
  \/ op.todo[f] = 0
  \/ vault[f] = (IF state[f] # 0 THEN state[f] ELSE op.before.vault[f])
  \/ state[f] = 0 /\ op.before.vault[f] = 0

WriteFile(f) ==
  /\ Step("writing", "writing")
  /\ f \in DOMAIN op.todo
  /\ Matches(f)
  /\ vault' = [vault EXCEPT ![f] = op.todo[f]]
  /\ op' = [op EXCEPT !.todo = [g \in DOMAIN op.todo \ {f} |-> op.todo[g]]]
  /\ UNCHANGED <<projection, state, mirror, journal, done>>

\* rebuildDocuments reads the files; the hook before the projection's commit
\* writes the after snapshot.
WriteAfter ==
  /\ Step("writing", "filing")
  /\ DOMAIN op.todo = {}
  /\ op' = [op EXCEPT !.docs = vault]
  /\ Persist([Active EXCEPT !.after = Snapshot])
  /\ UNCHANGED <<vault, projection, state, mirror, done>>

PersistFiles ==
  /\ Step("filing", "projecting")
  /\ Persist([Active EXCEPT !.stage = "files_committed", !.manifest = Active.after])
  /\ UNCHANGED <<vault, projection, state, mirror, op, done>>

\* The external texts that are not among the documents the projection takes in.
Remaining(docs) == [f \in File |-> IF edited[f] = docs[f] THEN 0 ELSE edited[f]]

CommitProjection ==
  /\ pc = "projecting"
  /\ pc' = "projected"
  /\ projection' = op.docs
  /\ edited' = Remaining(op.docs)
  /\ UNCHANGED <<goal, counters>>
  /\ UNCHANGED <<vault, state, mirror, journal, op, done>>

PersistProjection ==
  /\ Step("projected", "stating")
  /\ Persist([Active EXCEPT !.stage = "projection_committed"])
  /\ UNCHANGED <<vault, projection, state, mirror, op, done>>

WriteState ==
  /\ Step("stating", "stated")
  /\ state' = op.docs
  /\ UNCHANGED <<vault, projection, mirror, journal, op, done>>

PersistState ==
  /\ Step("stated", "aligning")
  /\ Persist([Active EXCEPT !.stage = "state_committed"])
  /\ UNCHANGED <<vault, projection, state, mirror, op, done>>

AlignMirror ==
  /\ Step("aligning", "refreshing")
  /\ mirror' = vault[Profile]
  /\ UNCHANGED <<vault, projection, state, journal, op, done>>

\* refreshAfter replaces the after snapshot ...
RefreshAfter ==
  /\ Step("refreshing", "refreshed")
  /\ Persist([Active EXCEPT !.after = Snapshot])
  /\ UNCHANGED <<vault, projection, state, mirror, op, done>>

\* ... and then the manifest in the record.
PersistRefreshed ==
  /\ Step("refreshed", "completing")
  /\ Persist([Active EXCEPT !.manifest = Active.after])
  /\ UNCHANGED <<vault, projection, state, mirror, op, done>>

Complete ==
  /\ Step("completing", "cleaning")
  /\ End(op.id)
  /\ done' = op.id
  /\ UNCHANGED <<vault, projection, state, mirror, op>>

\* removeSnapshots and trim; the mutation returns.
CleanUp ==
  /\ Step("cleaning", "idle")
  /\ op' = NoOp
  /\ UNCHANGED <<disk, done>>

-----------------------------------------------------------------------------
(* A failed mutation is rolled back; an interrupted one is recovered *)

\* Mutant of ProjectionChanged: only when the state file was written, too.
ProjectionChangedLate == {"stated", "aligning", "refreshing", "refreshed"}

\* The stages, as the failed mutation has them in memory, at which the
\* projection is rebuilt.
ProjectionChanged ==
  {"projected", "stating", "stated", "aligning", "refreshing", "refreshed"}

MutationSteps ==
  {"writing", "filing", "projecting", "projected", "stating", "stated", "aligning",
   "refreshing", "refreshed", "completing", "cleaning"}

\* Mutant of Listed: the files are overwritten, not removed.
ListedNone == {}

\* The files restoreRawEntries finds and removes.
Listed == {f \in File : vault[f] # 0}

RollBack ==
  /\ pc' = "clearing"
  /\ goal' = [id |-> op.id, snapshot |-> op.before, todo |-> Listed,
              rebuild |-> pc \in ProjectionChanged, recovery |-> FALSE]
  /\ op' = NoOp
  /\ UNCHANGED <<disk, done, edited>>

\* A durable write throws.
Fail ==
  /\ pc \in FailsIn \cap MutationSteps
  /\ failures < MaxFailures
  /\ failures' = failures + 1
  /\ RollBack
  /\ UNCHANGED <<ops, crashes, edits>>

\* A file was changed from outside since it was synced.
Conflict ==
  /\ pc = "writing"
  /\ \E f \in DOMAIN op.todo : ~Matches(f)
  /\ RollBack
  /\ UNCHANGED counters

Restore(from, to) ==
  /\ pc = from
  /\ pc' = to
  /\ UNCHANGED <<op, done, counters>>

\* restoreRawEntries removes the files one by one ...
Clear(f) ==
  /\ Restore("clearing", "clearing")
  /\ f \in goal.todo
  /\ vault' = [vault EXCEPT ![f] = 0]
  /\ goal' = [goal EXCEPT !.todo = @ \ {f}]
  /\ UNCHANGED <<edited, projection, state, mirror, journal>>

Cleared ==
  /\ Restore("clearing", "refilling")
  /\ goal.todo = {}
  /\ goal' = [goal EXCEPT !.todo = {f \in File : goal.snapshot.vault[f] # 0}]
  /\ UNCHANGED <<edited, disk>>

\* ... and writes those of the snapshot again.
Refill(f) ==
  /\ Restore("refilling", "refilling")
  /\ f \in goal.todo
  /\ vault' = [vault EXCEPT ![f] = goal.snapshot.vault[f]]
  /\ goal' = [goal EXCEPT !.todo = @ \ {f}]
  /\ UNCHANGED <<edited, projection, state, mirror, journal>>

RestoreMirror ==
  /\ Restore("refilling", "restating")
  /\ goal.todo = {}
  /\ mirror' = goal.snapshot.mirror
  /\ UNCHANGED <<edited, vault, projection, state, journal, goal>>

RestoreState ==
  /\ Restore("restating", IF goal.rebuild THEN "rebuilding" ELSE "realigning")
  /\ state' = goal.snapshot.state
  /\ UNCHANGED <<edited, vault, projection, mirror, journal, goal>>

RebuildProjection ==
  /\ Restore("rebuilding", "describing")
  /\ projection' = vault
  /\ edited' = Remaining(vault)
  /\ UNCHANGED <<vault, state, mirror, journal, goal>>

RebuildState ==
  /\ Restore("describing", "realigning")
  /\ state' = projection
  /\ UNCHANGED <<edited, vault, projection, mirror, journal, goal>>

Realign ==
  /\ Restore("realigning", "closing")
  /\ mirror' = vault[Profile]
  /\ UNCHANGED <<edited, vault, projection, state, journal, goal>>

\* Mutant of Close: the end of the operation is not persisted.
CloseUnpersisted ==
  /\ Restore("closing", IF goal.recovery THEN "recovering" ELSE "idle")
  /\ goal' = NoGoal
  /\ UNCHANGED <<edited, vault, projection, state, mirror, journal>>

\* rolledBack, or the end of one record's recovery.
Close ==
  /\ Restore("closing", IF goal.recovery THEN "recovering" ELSE "idle")
  /\ End(goal.id)
  /\ goal' = NoGoal
  /\ UNCHANGED <<edited, vault, projection, state, mirror>>

RollbackSteps == {"clearing", "refilling", "restating", "rebuilding", "describing",
                  "realigning", "closing"}

\* The rollback throws: the record stays as it is.
RollbackFailed ==
  /\ RollbackFails /\ failures < MaxFailures
  /\ pc \in RollbackSteps /\ ~goal.recovery
  /\ failures' = failures + 1
  /\ pc' = "idle"
  /\ goal' = NoGoal
  /\ UNCHANGED <<disk, op, done, edited, ops, crashes, edits>>

-----------------------------------------------------------------------------
(* Crashes, the start of the process, and the user's editor *)

Crash ==
  /\ pc # "down"
  /\ crashes < MaxCrashes
  /\ crashes' = crashes + 1
  /\ pc' = "down"
  /\ op' = NoOp /\ goal' = NoGoal
  /\ UNCHANGED <<disk, done, edited, ops, failures, edits>>

Start ==
  /\ pc = "down"
  /\ pc' = "recovering"
  /\ UNCHANGED <<disk, op, goal, done, edited, counters>>

Outcome(record) ==
  IF record.stage = "prepared" \/ record.manifest = Nothing THEN "before" ELSE "after"

\* The order of `createdAt`: operations are numbered as they are prepared.
Oldest == CHOOSE i \in DOMAIN journal : \A j \in DOMAIN journal : i <= j

\* recoverPending takes the oldest unfinished record; a snapshot that does not
\* match its manifest ends the start with an error.
Recover ==
  /\ pc = "recovering" /\ DOMAIN journal # {}
  /\ LET record == journal[Oldest]
         snapshot == IF Outcome(record) = "before" THEN record.before ELSE record.after
     IN IF Outcome(record) = "after" /\ record.after # record.manifest
          THEN /\ pc' = "refused"
               /\ UNCHANGED goal
          ELSE /\ pc' = "clearing"
               /\ goal' = [id |-> Oldest, snapshot |-> snapshot, todo |-> Listed,
                           rebuild |-> TRUE, recovery |-> TRUE]
  /\ UNCHANGED <<disk, op, done, edited, counters>>

\* Nothing is left to recover: the mirror is aligned and ensureMigrated rebuilds
\* the projection, which is a mutation without writes.
FinishStart ==
  /\ pc = "recovering" /\ DOMAIN journal = {}
  /\ mirror' = vault[Profile]
  /\ pc' = "starting"
  /\ UNCHANGED <<vault, projection, state, journal, op, goal, done, edited, counters>>

RebuildAtStart ==
  /\ pc = "starting"
  /\ Prepare(NoChange)

\* A file is saved in an editor outside of the program.
Edit(f) ==
  /\ pc \in EditsAt
  /\ edits < MaxEdits
  /\ edits' = edits + 1
  /\ vault' = [vault EXCEPT ![f] = -edits']
  /\ edited' = [edited EXCEPT ![f] = -edits']
  /\ UNCHANGED <<projection, state, mirror, journal, pc, op, goal, done, ops, crashes,
                 failures>>

-----------------------------------------------------------------------------
\* The files of a mutation: each gets a new text or is removed.
Changes == UNION {[S -> {0, ops + 1}] : S \in SUBSET File}

Mutate ==
  \/ \E f \in File : WriteFile(f)
  \/ WriteAfter \/ PersistFiles
  \/ CommitProjection \/ PersistProjection
  \/ WriteState \/ PersistState
  \/ AlignMirror \/ RefreshAfter \/ PersistRefreshed
  \/ Complete \/ CleanUp
  \/ Conflict

Undo ==
  \/ \E f \in File : Clear(f) \/ Refill(f)
  \/ Cleared
  \/ RestoreMirror \/ RestoreState
  \/ RebuildProjection \/ RebuildState
  \/ Realign \/ Close

Startup == Start \/ Recover \/ FinishStart \/ RebuildAtStart

Next ==
  \/ \E todo \in Changes : Begin(todo)
  \/ Mutate \/ Undo \/ Startup
  \/ Fail \/ RollbackFailed \/ Crash
  \/ \E f \in File : Edit(f)

Spec == Init /\ [][Next]_vars

\* The process is started again, and the code runs on.
FairSpec == Spec /\ WF_vars(Mutate \/ Undo \/ Startup)

-----------------------------------------------------------------------------
(* Properties *)

Texts == -MaxEdits..(MaxOps + MaxCrashes + 1)
Snapshots == [vault : [File -> Texts], state : [File -> Texts], mirror : Texts]
Records == [stage : {"prepared", "files_committed", "projection_committed",
                     "state_committed"},
            before : Snapshots, after : Snapshots \cup {Nothing},
            manifest : Snapshots \cup {Nothing}, target : [File -> Texts]]

FilesOK ==
  /\ vault \in [File -> Texts] /\ projection \in [File -> Texts]
  /\ state \in [File -> Texts] /\ mirror \in Texts /\ edited \in [File -> Texts]

JournalOK ==
  /\ DOMAIN journal \subseteq 1..ops
  /\ \A id \in DOMAIN journal : journal[id] \in Records

OpOK ==
  /\ op \in [id : 0..ops, todo : UNION {[S -> Texts] : S \in SUBSET File},
             before : Snapshots, docs : [File -> Texts]]
  /\ pc \in MutationSteps \ {"cleaning"} => op.id \in DOMAIN journal

GoalOK ==
  goal \in [id : 0..ops, snapshot : Snapshots, todo : SUBSET File, rebuild : BOOLEAN,
            recovery : BOOLEAN]

CountersOK ==
  /\ pc \in MutationSteps \cup RollbackSteps \cup
           {"idle", "down", "recovering", "starting", "refused"}
  /\ done \in 0..ops
  /\ ops \in 0..(MaxOps + MaxCrashes) /\ crashes \in 0..MaxCrashes
  /\ failures \in 0..MaxFailures /\ edits \in 0..MaxEdits

\* Every variable stays in its range.
TypeOK == FilesOK /\ JournalOK /\ OpOK /\ GoalOK /\ CountersOK

\* When every operation is completed, rolled back or recovered, the SQLite
\* projection holds exactly what its state file says, so that syncIfChanged,
\* which looks only at that file and the vault, finds every difference there is.
StateDescribesProjection == pc = "idle" /\ DOMAIN journal = {} => state = projection

\* Between mutations the projection, its state file and the mirror agree with
\* the Markdown files, as long as nobody edits those from outside: "Normal
\* exceptions restore the before state" (docs/memory-architecture-r5.md).
AllAgree ==
  pc = "idle" => projection = vault /\ state = vault /\ mirror = vault[Profile]

\* A mutation takes effect as a whole or not at all, across I/O errors, crashes
\* and crashes of the recovery: the vault implements the atomic one, in which a
\* record that is neither completed nor rolled back is a pending mutation.
Contents == IF DOMAIN journal = {} THEN vault ELSE journal[Oldest].before.vault
Pending == IF DOMAIN journal = {} THEN Nothing ELSE journal[Oldest].target
Atomic == INSTANCE AtomicVault WITH contents <- Contents, pending <- Pending
ImplementsAtomicVault == Atomic!Spec

\* "completed and rolled_back are already terminal"
\* (docs/memory-architecture-r5.md): no record is left that a recovery would
\* replay over the effects of an operation that was completed after it.
CompletedIsTerminal == \A id \in DOMAIN journal : id >= done

\* "files_committed, projection_committed, or state_committed converges to the
\* verified after snapshot" (docs/memory-architecture-r5.md): the start never
\* ends with an error.
RecoverySucceeds == pc # "refused"

\* "accepts a valid external version or reports a conflict, never
\* last-write-wins" (docs/memory-architecture-r5.md): an external text that was
\* not taken in yet is still in the vault.
ExternalEditsSurvive ==
  pc = "idle" => \A f \in File : edited[f] # 0 => vault[f] = edited[f]

\* However often it crashes on the way, a start comes to an end.
StartEnds == pc = "down" ~> pc \in {"idle", "refused"}
=============================================================================
