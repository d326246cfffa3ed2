# TLA+ specifications of YourChar

YourChar is a self-hosted application for AI characters: a Node process that keeps conversations,
memories and schedules in a state directory (SQLite, Markdown files, session files), talks to model
providers, and serves a browser interface and a headless HTTP interface. This directory holds formal
models of the parts of `src/` whose correctness depends on order: what happens when callbacks
interleave, a client gives up, a write fails or the process ends in the middle.

Contents: [the system](#1-the-system) · [the modules](#2-the-modules) · [the runs](#3-the-runs) ·
[fairness](#4-fairness) · [what is proved](#5-what-is-proved) · [where code and documents
disagree](#6-where-code-and-documents-disagree) · [what is not modelled](#7-what-is-not-modelled) ·
[plan](#8-plan)

To check a run: `tlc -config MCVaultJournal.cfg MCVaultJournal.tla`. To check the proofs:
`tlapm PrivateInboxProofs.tla`, likewise `HeadlessIdempotencyProofs`, `VaultJournalProofs`,
`ImOutboxProofs`, `ImChannelProofs`, `ReminderDeliveryProofs`, `WorkflowCoordinatorProofs` and
`CoordinatorProofs`. `PROJECT.json` lists the runs, the source lines each definition stands for, the
theorems, and for each checked property a mutation of the model that violates it.

## 1. The system

All paths are below `src/src/`. One process, one thread: callbacks run to completion, and everything
between two `await`s is atomic with respect to the rest of the program, though not with respect to a
crash, another process or a user's editor.

### Parts that keep order-dependent state

| Part | State | Operations | What is hard |
|---|---|---|---|
| Private inbox (`inbox/`) | rows queued/processing/final, `paused`, `held`, one timer, one run and one active burst per session | enqueue, edit, retract, stop, resume, flush, claim, finish, recover | early returns that must not lose a wake-up; abort during a turn; edits of answered messages; crash with an open burst |
| Message turn (`domain/kernel.ts`, `pi/session-runtime.ts`) | the branch of the session file, the session's execution queue | prepare, prompt, record, revise | recording a burst in two steps; branch in memory and row in SQLite are not one transaction |
| Headless idempotency (`http/`) | a Map of pending and completed entries, an account of bytes | look up, wait, execute, complete, release, evict | a client that hangs up while its handler runs on; waiting on a promise of another request |
| Memory Vault (`memory-vault/`) | Markdown files, SQLite projection, state file, mirrors, journal | atomic mutation, sync, rollback, recovery | about ten durable writes per mutation and a crash, an error or an external edit between any two |
| Vault writer lease (`memory-vault/writer-lock.ts`) | a row with owner, expiry and fence token | acquire, renew, assert, release | a suspended writer that wakes between check and rename |
| Schedule (`schedule/`, `notifications/`) | items, occurrences, outbox rows per channel | create, change, snooze, acknowledge, cancel, deliver, retry | delivery awaits a sink; recurrence is continued by delivery |
| Instant messaging (`im/`) | bindings with generations, inbound events, outbox with leases | claim, acknowledge, authorise, invalidate | repeated events, expired leases, rebinding with rows in flight |
| Workflows (`workflows/`) | nodes with dependencies, children, deadlines | reserve, launch, attach, settle, cancel, decide | crash between starting a child and attaching it; capacity; re-entrant pump |
| Leased jobs (`memory-coordinator/`, `post-turn/`, `user-insight/`) | job rows with owner, claim token, lease | create, claim, renew, apply, finish, retry, recover | model calls longer than the lease; several results per job |
| Subagent and shell jobs (`modules/subagent-jobs.ts`, `execution/shell-jobs.ts`) | jobs with generations and revisions, claims, quotas | start, follow up, interrupt, finish, recover | late results of an attempt that was recovered |
| World and conversations (`world/`) | activities, places, conversations with leases | tick, decide, take a turn | decisions on a state that changed during a model call |
| Runtime events (`runtime-events/`) | append-only log and cursors | append, read, prune | a reader behind the pruned end |

### Parts that do not

Context planning (`context/`) and prompts read what the others store. Role play, profiles, organization,
meeting presets, groups, diaries, usage (`rp/`, `profile/`, ...) are rows with validation. `git/`, `lsp/`,
`mcp/`, `tavily/`, `web-reader/`, `vision/`, `mineru/`, `model/` are clients of or adapters to something
external. `acp/` and `sdk/` are clients of the headless interface, `http/ui*.ts` is served as text.

### How they interact

- A message arrives at the kernel, which stores it in the inbox and lets the coordinator **schedule** a
  burst. The coordinator calls back into the kernel with the claimed burst; the kernel waits for the
  session's place in the **execution queue**, prepares, and prompts the external Pi SDK, which appends to
  the session file. The end of the turn becomes the status of the rows.
- An edit of an answered message **holds** the inbox, waits for the run to settle and for the execution
  queue, moves the branch, queues the row again and releases the hold.
- When a turn ends, jobs are created for the memory and post-turn coordinators, which call a model and
  write to the **Memory Vault** or to relationship and world state.
- The vault writes files first and then rebuilds the **SQLite projection** that the context planner
  reads; every vault read first looks whether the files were edited from outside.
- The scheduler fans an occurrence out to outbox rows; the messaging sink turns one of them into an
  **IM outbox** row and polls it.
- Mutations of the headless interface may carry an **idempotency key** and then pass through the replay
  cache before they reach the kernel.

### What makes each modelled part correct

The inbox must serve every message, once, in order, in one burst at a time, whatever the user does
meanwhile. The batching must wait for a user who is composing, but not for ever. The replay cache must
give whoever waits an answer, that of the same request, and not a stale one. The vault must apply a mutation as a
whole or not at all, and its derived copies must agree with the files whenever nobody is at work. A
messenger's event must be worked on once, and its reply must be sent part by part, each part once where a
receipt exists, and come to rest. What stops a reminder must stop it in every outbox, and must not write
off what was delivered. A workflow must respect dependencies and its budget, must not leave commands
behind, and must come to an end whatever comes between two steps of its pump. A job after a turn must be
given to the model as often as asked, its result must be stored once, and a turn that is revised must
leave nothing behind.

## 2. The modules

| Module | Models | Role |
|---|---|---|
| `MessageLifecycle` | what the inbox promises | abstract specification: messages wait, are taken in batches, get one answer |
| `PrivateInbox` | `inbox/coordinator.ts`, `inbox/repository.ts`, the kernel's inbox operations, the burst's turn, `app/session-queue.ts` | detailed specification; implements `MessageLifecycle` |
| `PrivateInboxProofs` | | theorems about `PrivateInbox` |
| `InboxBatching` | `schedule` and the maps it reads, with time | when the timer of `PrivateInbox` fires |
| `HeadlessIdempotency` | `http/headless-idempotency.ts` and its calls in `http/router.ts` | |
| `HeadlessIdempotencyProofs` | | theorems about `HeadlessIdempotency` |
| `AtomicVault` | what a vault mutation promises | abstract specification: all or nothing, one at a time |
| `VaultJournal` | `memory-vault/journal.ts`, `service.ts`, `projection.ts`, `store.ts`, `durability.ts` | detailed specification; implements `AtomicVault` |
| `VaultJournalProofs` | | theorems about `VaultJournal`, its refinement among them |
| `ImOutbox` | the outbox of `im/repository.ts`, the flush of `im/local-gateway.ts` with `im/local-spool.ts`, bindings | the sending half of a channel; extended by `ImChannel` and `ReminderDelivery` |
| `ImOutboxProofs` | | what each operation of `ImOutbox` preserves; used by the next two modules of proofs |
| `ImChannel` | the inbound half: spool, worker, `im/service.ts`, `im_inbound_events` | composes both halves |
| `ImChannelProofs` | | theorems about `ImChannel` |
| `ReminderDelivery` | `schedule/service.ts`, `schedule/scheduler.ts`, `schedule/repository.ts`, `notifications/` | composes the scheduler's outbox with the messenger's |
| `ReminderDeliveryProofs` | | theorems about `ReminderDelivery` |
| `SessionWorkflow` | the transactions of `workflows/session-workflows.ts`, as functions of the rows | extended by the next |
| `WorkflowCoordinator` | `workflows/coordinator.ts`, and the port to `execution/shell-jobs.ts` and the subagents of `pi/session-runtime.ts`, `modules/subagent-jobs.ts` | the pump and the children it drives |
| `WorkflowCoordinatorProofs` | | theorems about `WorkflowCoordinator` |
| `LeasedJobs` | the job rows, claims, leases and loops of `memory-coordinator/` (`post-turn/` has the same) | protocol only |
| `MemoryJobs` | what `memory-coordinator/coordinator.ts` and `lifecycle.ts` do with a job; the kernel's check before a revision | composes the protocol with its effects |
| `CheckpointFlush` | `drain`, and the kernel's wait before a compaction | composes `MemoryJobs` with who waits for it |
| `CoordinatorProofs` | | theorems about the two coordinators that run on timers, `InboxBatching` and `MemoryJobs` |
| `MC...` | | instances for TLC |

### PrivateInbox

State: the rows (`status`, `version`, `created`, `burst`, `paused`) are SQLite and survive a crash;
`saved` is the user entries on the branch the session file ends in, `transcript` those on the branch in
use; everything else (`timer`, `phase`, `active`, `aborted`, `held`, `editor`, `stops`, `lock`, `flusher`)
is memory and is reset by `Crash`. Texts are counted, not spelled out: `<<m, v>>` is the v-th text of
message m, and `<<0, 0>>` that of any turn around the inbox. `Claimable` is the prefix of the queue that
`claimBurst` selects, up to the first message that is one too many or too long; `InOrder` is the order in
which it is recorded.

`phase` is the progress of `running.get(session)`: `starting` is the microtask between `flush` and
`processOne`, `waiting` waits for the execution queue, `preparing`, `prepared` and `prompting` are the
turn up to, at and after its checks of the abort signal, `returning` and `finishing` carry the outcome
back, `settled` is the `finally` of the run. `editor` is the revision: `settling` awaits the run, `locking`
the execution queue, `committing` has moved the branch and not yet the row, `releasing` is its `finally`.
Each action is the code between two awaits, so an edit, a stop, a second flush or a crash falls wherever
the program can be suspended. The session's transcript and the prompt belong to the external Pi SDK; its
actions are modelled as the kernel relies on them.

Sessions share nothing, so one is modelled. Delays are abstracted: an armed timer may fire at any time.

### InboxBatching

The same coordinator with time instead of turns: `first`, `last` and `typing` are the three maps
`schedule` reads, `timer` is the instant the armed timer is due, and `now` advances to it at most. `Tick`
is the only action that takes time. `size` counts the characters of each message: either cap makes a burst full
(`CapReached`), and a burst is the oldest messages up to the first that is one too many or too long (`IsBurst`), so
that it may leave others behind. `EnqueueAgain` is a message sent twice, whose row is there already but which schedules
all the same. `renewedAt` is a history variable: when a message or an edit last opened a new window for others that
waited. Edits that hold the session and explicit flushes are left to `PrivateInbox`.

### HeadlessIdempotency

One record per request (`stage`, `connected`, whom it `awaits`, whose `answer` it got) and the cache
(`entry`, `cachedBytes` and the Map's `order`, kept as the pairs of keys of which the one comes before the other).
`LookUp` is the loop body of `prepare` after an await, `SendJson`
and `SendEmpty` the two ways an answer completes an entry, `Disconnect` the `close` event. Reading the
body, the checks of headers and the refusal of keys on streaming routes happen in `Arrive`. An answer
with status 204 completes its entry at `finish`, hence only while its client is connected; if the client
had left before the request executed, its entry stays pending for good. `WaitersAreServed` therefore has the
premise that no entry is stranded in this way (`EntryStranded`).

### VaultJournal

The variables are what is on disk (`vault`, `projection`, `state`, `mirror`, `journal`) and where the
process stands (`pc`, the active operation `op`, the snapshot being restored `goal`). One durable write is
one action: the temporary file, the fence and the rename of `durableAtomicWrite` leave either the old or
the new text. A file's text is the number of the mutation that wrote it, a negative number when an editor
wrote it, 0 when there is none. `journal` holds, by operation id, the records that are neither `completed` nor `rolled_back`, each with its
two snapshot files and the manifest of the second, which are separate on disk and separate here. `Active` is
the record of the operation under way; a start undoes the `Oldest` first.

`writing` → `filing` → `projecting` → `projected` → `stating` → `stated` → `aligning` → `refreshing` →
`refreshed` → `completing` → `cleaning` is a mutation that succeeds; `Fail` and `Conflict` leave it for
`clearing` (the files found are removed one by one) → `refilling` → `restating` → (`rebuilding` →
`describing` →) `realigning` → `closing`, which `Recover` also enters at startup. `ProjectionChanged` says at which of those points the rollback rebuilds
SQLite: the points where the stage *in memory*, which is set before it is persisted, says so. After a
recovery the kernel's `ensureMigrated` rebuilds once more, as a mutation of its own.

The refinement maps the contents to the vault when no record is pending, and otherwise to the first
record's before snapshot: while a mutation is half done, the promise is about the record, not the files.

### ImOutbox and ImChannel

`outbox` is the table `im_outbox`: a row's status, its claims, and the generation of the binding it was made
for; `receipts` is what the spool has recorded of parts sent; `taken` is what the platform took, which nobody
in the program can see; `flight` is the flush: its batch, the row it is at, and how far (`AuthorizeOutbox`,
`PlatformTakes`, `SendSucceeds` or `SendFails` are separated by awaits). `gate` is how far a disconnection is:
the gateway blocks the provider (`BeginDisconnect`), the connector revokes its credential (`Revoke`) or the
disconnection fails (`FailDisconnect`: the binding stands and the provider stays blocked), the spool forgets the
provider once what was in flight has ended (`ClearProvider`), and the service deletes the binding with its rows
(`EndDisconnect`). The block is in memory: a crash lifts it, but a credential that was revoked is gone
(`severed`). `StartBinding` lifts the block before there is a binding, and the service learns of the new one later
(`Rebind`), which abandons the rows of the one before while a flush may hold one.

`ImChannel` adds the spool's entry and the row of each inbound event; `worker` is the loop that hands one entry to the
service. `Enqueue` is the connector's callback, which looks at no binding: what comes may belong to the connection
there is, to a former one (a download that outlived its disconnection) or to one that was confirmed and that the
service has still to learn of. `PickEntry` is where the worker looks at the block, before it awaits the
attachments; `ReceiveInboundEvent` comes after that and looks at the binding only, since a disconnection
or a new binding may lie in between. A connection the service does not know is no permanent error
(`IM_BINDING_NOT_FOUND` is not among `permanentInboundErrors`): the entry stays and is tried again, for ever if the
connection was replaced. An event that was claimed under another binding is a conflict, and buried.
`ReceiveInboundEvent` ends at the await on the model, `CompleteInboundEvent` writes the event's end and
the reply's row in one transaction, `CompleteEntry` removes the spool's entry; a crash falls between any two. A
disconnection waits for the event that is being answered when it begins (`awaited`), and for no other.
What a row or an entry waits for before its next attempt may end at any moment, so delays are not counted.

### ReminderDelivery

One item with its revision, status and occurrences; `row` is `notification_outbox` by occurrence and channel;
`batch` and `sending` are a tick that is under way and the desktop notifications it awaits. An occurrence
is known by its due time. The messenger's rows are those of `ImOutbox`: its sink fills one and polls it.
`Update`, `Close`, `Snooze`, `Acknowledge`, `RetryNotification` and `SetEnabled` are the user's operations, each with
everything it stops in both outboxes. The in-app sink delivers at once, so an occurrence never becomes
failed; the prepared texts of a reminder (`reminder-preparation.ts`) are left out; when a row that was put
off is offered again is open. Some things the model shows and no document denies: a row may be given up
while its last claim by the messenger is under way and is then delivered all the same, and a manual retry of
a delivered reminder leaves its occurrence `processing` if the channel fails again.

### SessionWorkflow and WorkflowCoordinator

The rows are functions over nodes; each operation of `session-workflows.ts` (`Reserved`, `Applied`, `SettledNodes`,
`CancelRequested`, `Decided`, ...) is a function from rows to rows, because the coordinator calls several in one
turn of the event loop. The coordinator's `pump` is a record per workflow: queued, running with `again`, at
which node it is, or at rest. It awaits between two nodes, where anything may happen; between the start of a child
and the writing of its id (`hand`) only a crash can. `child` is what the port knows of each node's child.
Commands and subagents differ as in the code: a command that a restart interrupted awaits a decision, a
subagent with a safe checkpoint is recovered. Others hold capacity too: background jobs, whose end the coordinator
is told, and foreground delegations, whose end it is not. One launch that is put off ends the
round, so a full pool of subagents also holds back a ready command of the same workflow until it is freed.
Left out: children that are gone (`child_missing`), interrupts that throw, the limit of 100 in
`listRecoverable`, revisions (every caller passes the one it has just read), a port that throws after it has
inserted its row, and two live owners of one subagent.

### LeasedJobs, MemoryJobs and CheckpointFlush

`job` is the row of each turn: status, attempts (which is also the claim's token), whether this process
holds it and whether the lease has run out. `loops` are the coordinator's loops: a list read at the start,
and the job whose model call is awaited. A timer may start a second loop beside a first. `MemoryJobs` says what
becomes of a claimed job: it may fail before anything is done (`FailClaimed`: its turn's log is gone, of another
space or too long, or the fact is refused), an order is carried out at once, a conversation goes to the model, whose
candidates are stored one by one under the key `turn/index`; `ApplyInPart`, `CrashInApply` and `CrashInOrder` stop in the middle and note
the turn in the history variable `cut`. `Revise` is the user's edit or retraction, guarded by the kernel's check of the
job's row. A loop's jobs are interleaved with everything, also where the code goes from one job to the
next without an await; `CheckpointFlush`, whose finding depends on it, excludes that (`Prompt`).
Left out: jobs that are skipped when they are enqueued, the limit of ten per list, observations made of trusted
quotes, and superseding (each fact has a key of its own). Two things the model shows without a property:
an answer that comes in another order after an interruption stores a fact under a second index, and a
job whose process crashed is not scheduled again when its lease ends, only by the next enqueue, retry or drain.

## 3. The runs

Every property of a passing run has a mutant in `PROJECT.json`: a variant of one definition, as a plausible
bug would have it, under which TLC finds the property violated.

| Run | Bounds | What it shows |
|---|---|---|
| `inbox_edit` | 2 messages of 2 texts, 1 stop, 1 turn around the inbox | no lost wake-up; an edit excludes bursts and does not undo a later stop; texts are recorded in the order they were sent; `PrivateInbox` implements `MessageLifecycle` |
| `inbox_live` | 2 messages, edits, 1 crash | every `processing` row is in the active burst; no text recorded twice; what is completed is recorded; messages are served, bursts finish, edits release their hold |
| `batching` | 3 messages of 1 or 3 characters, caps of 3 messages and 4 characters, 3 ticks, 1 correction, 1 restart | the wait is bounded, also for what a burst leaves behind; typing defers |
| `idempotency` | 3 requests on a key, one of them different, 1 on another key; a cache of 1 entry; 2 clients that may hang up; answers too large, without a body, expired | whoever waits is served in the end; the replayed answer is that of the same request and fresh |
| `vault_journal` | 2 files, 2 mutations, 1 failed write, 2 crashes | the vault implements `AtomicVault`; all copies agree between mutations |
| `vault_edits` | the same with 1 external edit, 1 crash and rollbacks that may fail | the state file describes what SQLite holds, so a sync finds the edit; every start comes to an end |
| `im_channel` | 1 event, 3 arrivals, a reply of 2 parts, 3 bindings, 2 attempts without a profile, 2 crashes | an event is worked on once; a reply goes out part by part and in full; what has a receipt is not sent again; what the spool holds for the connection there is comes to rest; a reply is settled |
| `reminders` | 2 occurrences on the messenger, 2 bindings, 2 operations of the user, 1 crash | whatever stops a reminder stops its rows in both outboxes; what was delivered is kept; nothing counts as delivered before the platform took it |
| `reminders_desktop` | 2 occurrences on the desktop, quiet hours, 2 attempts, 1 crash | a row under way is one somebody is at work on; every row is settled |
| `workflows` | 3 nodes, a subagent among them, after one another or side by side; 1 slot; 1 job of others; 2 crashes | the budget; dependencies first; a workflow ends with its commands; a started workflow ends |
| `memory_jobs` | 2 turns, an order to forget and before or after it another kind of turn, 2 loops, 2 candidates, 2 attempts, 1 break | the model is asked as often as the user and the breaks account for; a turn's memories are of one answer; no key twice; a revised turn leaves nothing; a job that waits is taken up |
| `drain_waits` | 2 turns, 2 loops, no break | expected to fail, see section 6 |

Each takes from a second to two minutes (`batching` explores 1.9 million states, `reminders` and `inbox_edit` 1.3
million; with liveness, `memory_jobs` 275 thousand and `im_channel` 96 thousand). The list is kept to a dozen
runs; one further instance that passes is kept beside them:

- `MCWorkflowTwo` (two workflows that share capacity: the invariants of `workflows` and `NothingForgotten`, which
  `NothingIsForgotten` proves; 1.2 million states).

Why the bounds suffice. Two messages are the least with an order, a burst of several and a queue behind a
burst; a third, in `batching`, is one that a burst cut short leaves behind while another follows. One edit or crash meets every intermediate state of the
others, and two crashes in the vault include a crash of the recovery. Two equal requests on a key are an
execution and one who waits for it or retries it, the third differs, and the one on the second key
competes for the single entry. Two files make a mutation partial; one of them has a mirror. Two parts make a
reply partial; the second arrival of an event is a repetition and the third one of that after a
crash, and a second and a third binding make those before them stale. One event suffices for liveness, since the worker
holds one at a time and is fair to each; that two events do each other no harm the proofs show, and TLC on two events,
two bindings and a crash (the inductive invariant, 2.1 million states). Two occurrences are one that recurs or is
snoozed and the next. Three nodes are a dependency and a competitor for its slot, of both kinds of child; two
crashes include one of the recovery. Two loops are one that lists what the other claims; two candidates
make an answer partial. Every counter exists only to bound the search (`MaxVersion`, `MaxPause`, `MaxDirect`,
`MaxCrash`, `MaxCorrections`, `MaxRestarts`, `MaxTime`, `MaxOps`, `MaxCrashes`, `MaxFailures`, `MaxEdits`,
`MaxArrivals`, `MaxStarts`, `MaxGeneration`, `MaxRevision`, `MaxOperations`, `MaxOthers`, `MaxBreaks`) and stands in the guard of the action it counts;
`MaxClaims`, `MaxAttempts`, `MaxRetries` and `MaxReplays` are limits of the code, mostly with smaller values. The delays of
`InboxBatching` are small numbers (maximum 2, all others 1); the theorems hold for any.
`CHECK_DEADLOCK FALSE` stands where everything may be settled and nothing is left to do within the bounds.

Assumptions of the passing runs: in the inbox, texts are told apart (`Alike = {}`, see
`MCPrivateInboxAlike`); in the vault, a failed write is one before `complete` (`BeforeComplete`, see
`MCVaultComplete`); a rollback succeeds except in `vault_edits`, where what is claimed is claimed only while no
record is left behind (see `MCVaultReplayed`); agreement of all copies is stated without external edits, which a
sync has to find first. All of these are in section 6.

## 4. Fairness

`PrivateInbox!FairSpec`: weak fairness of `Progress`, the steps the program takes by itself (a due
timer, microtasks, the turn, the edit, the start after a crash). Node runs what is queued, the Pi SDK
returns or rejects, and the operator starts the program again. No fairness for users; that they do not
open edits for ever (`EditsCease`) is a premise of the property that needs it.

`HeadlessIdempotency!FairSpec`: weak fairness of looking up, of answering and of finishing a response: handlers
return. None for arrivals, hang-ups or the clock.

`VaultJournal!FairSpec`: weak fairness of the code's own steps taken together (`Mutate`, `Undo`, `Startup`):
the code is sequential, and runs on unless it crashes, fails or has ended. Crashes and failures are not fair
and are bounded, which is the assumption that the process does not crash for ever.

`ImChannel!Fairness`: the worker's steps are weakly fair (the model answers or fails); each entry that is due
again and again is picked some day, since the worker takes the due ones in turn, and is handed to the service some day,
since its attachments do not fail to be read for ever with an error that is not permanent (strong fairness of `PickEntry` and
`ReceiveInboundEvent` by event); the flush is tried again and
again by a timer, with all that may be claimed, and a platform that is asked for ever takes a part
some day (strong fairness of `PlatformTakes` and `SendSucceeds`): that a reply is settled is claimed under that assumption
only, since replies are retried without a limit.

`ReminderDelivery!Fairness`: deliveries, answers and the messenger's steps are weakly fair; the tick comes again and
again by its timer, and a row that may be offered is offered by some tick (strong fairness by row, because
retry delays and other rows may disable it in between). None for the user.

`WorkflowCoordinator!Fairness`: a pump that is queued runs and goes on, deadlines pass, attaching follows starting, and
every child ends: commands have a time limit, subagents a turn limit. None for calls, others' jobs or decisions;
the deadline ends a workflow nobody decides about.

`MemoryJobs!Fairness`: each loop goes on and the timer fires; the model answers or fails. None for the user, and none for
the start after a crash.

`InboxBatching` has no liveness property: its timers are bounded by an invariant (a due timer blocks time).

## 5. What is proved

All theorems hold for every value of the constants that satisfies the named assumptions of the modules
(`MessageIdAssumption`, `OutboxAssumption`, `WorkflowAssumption`, ...), which TLC evaluates in the runs: bounds are
natural numbers, limits are positive, sets of messages and nodes are finite where their sizes are compared.
Every invariant and every action property of the passing runs is a theorem; "model-checked only", at the end, names
what is left. Each inductive invariant was checked by TLC before its proof; the states are given below.
Each proof has one lemma per group of conjuncts, with one case per action, and a step that puts them together.

### The inbox (`PrivateInboxProofs`)

| Theorem | Statement |
|---|---|
| `TypeCorrect` | `Spec => []TypeOK` |
| `ProcessingIsActive` | `Spec => []OneActiveBurst` |
| `WakeupIsNeverLost` | `Spec => []NoLostWakeup` |
| `EditsExcludeBursts` | `Spec => []EditExcludesBurst` |
| `LaterStopsSurviveEdits` | `Spec => EditKeepsLaterStop` |
| `TextsAreRecordedOnce` | `Spec => []NoDuplicateInput` |
| `WaitingIsUnrecorded` | `Spec => []QueuedNotRecorded` (a step of the one before; no run checks it) |
| `SendOrderIsKept` | `Spec => []RecordedInSendOrder` |
| `CompletedIsRecorded` | `Spec => []CompletedRecorded`, if `Alike = {}` |
| `LifecycleImplemented` | `Spec => ImplementsLifecycle` |

Three inductive invariants build on each other. `Inductive` is about the coordinator. That
a `processing` row is in the active burst needs that burst ids are fresh (`BurstIdsIssued`) and that a
burst is active exactly during its phases (`ActiveDuringTurn`); that an edit excludes bursts needs that the
edit holds the session for as long as it lasts (`EditHolds`) and that whoever is inside the execution queue
is at its head (`HolderIsInside`); that no wake-up is lost needs that a process that is down has no
timer, run or edit (`DownIsQuiet`); that the answer of a burst is one of three statuses needs
`OutcomeDecided`. `LifecycleImplemented` maps each step to a step or stutter of
`MessageLifecycle` and needs `OneActiveBurst` to show that no second batch is taken and that the rows of
the burst are the whole batch.

`Logged` is about the conversation, as the file has it (`saved`) and as the session uses it (`transcript`). A
message that has still to be recorded (`Pending`) is not in the file, and was sent after everything that is; an
edit works on the latest message that was ever claimed, so what it queues again comes last too
(`EditedIsLatest`), even while more messages arrive. This holds although two texts may be equal: a revision that takes
another message's entry for its own shortens the branch, which removes an entry but repeats and reorders none.
`Kept` says that nothing that was answered is lost, and there the equal texts matter: it is
inductive only without them (`MCPrivateInboxAlike` is the counterexample, section 6), hence the hypothesis, under which
the passing runs stand as well. `InOrderSorts` shows that the order `InOrder` chooses exists and what it is,
`ClaimIsPrefix` that a burst leaves nothing behind that was sent before one of its messages. TLC: 1,290,546 states,
and `Logged` on 1,360,341 with two equal texts.

### The replay cache (`HeadlessIdempotencyProofs`)

| Theorem | Statement |
|---|---|
| `ReplaysAreOfTheSameRequest` | `Spec => []ReplayIsOfTheSameRequest` |
| `ReplaysAreFresh` | `Spec => NothingStaleReplayed` |
| `WaitersAwaitWhatWakesThem` | `Spec => []WaitersAwaitTheEntry` (no run checks it) |
| `BytesAreAccounted` | `Spec => []BytesAccounted` (no run checks it) |
| `TypeCorrect` | `Spec => []TypeOK` (no run checks it) |

The invariant of the first three says of each entry which request put it there and where that request is: the owner of a
pending entry is running or has ended without a body, the owner of an answer has executed. Without it a
late `complete` might replace another request's entry, which is what the comparison in `complete` and
`releasePending` excludes.

`Balanced` is the invariant of the account: the Map's order is a strict total order of exactly the cached keys,
`cachedBytes` is the sum over the answers, and both limits hold. Its steps need the sum as a function of sets:
that the weight of disjoint sets adds up, that it depends on the bytes of the elements only, that an answer
taken out takes its bytes along. The sum is a fold that chooses an element at a time, and the library's induction
on finite sets takes the fact to be shown as an operator, which the provers cannot instantiate; each fact is proved
instead by a smallest set that would refute it (`SmallestSet`, from the well-founded order of the sizes), and `WeightUnfolds` is
the one lemma that looks at the fold. The eviction is a condition on each answer by itself, on those before it in the Map's order;
that it leaves the cache within its limits holds because the order is total: what is dropped are
exactly the answers before the first one kept (`EvictedUpTo`), and that one was kept because without those before it
the cache fits (`EvictedEnough`). `TypeCorrect` follows from `Balanced` and the bounds of time and size. TLC checked
`Balanced`'s parts (`TypeOK`, `BytesAccounted`) on 37,420 states, and on 126,073 with three keys and a cache of two entries.

### The vault (`VaultJournalProofs`)

| Theorem | Statement |
|---|---|
| `TypeCorrect` | `Spec => []TypeOK` |
| `StateFileIsRight` | `Spec => []StateDescribesProjection`, if `FailuresAreInTime` |
| `EverythingAgrees` | `Spec => []AllAgree`, if `Undisturbed` |
| `NothingIsReplayed` | `Spec => []CompletedIsTerminal`, if `Undisturbed` (no passing run checks it) |
| `AtomicVaultImplemented` | `Spec => ImplementsAtomicVault`, if `Undisturbed` |

The hypotheses are the cases in which the code keeps its promise, and section 6 lists what happens in the others.
`FailuresAreInTime`: a write that fails is one before `complete` (otherwise `MCVaultComplete`). `Undisturbed`: that, and no
rollback fails (otherwise `MCVaultReplayed`), and nobody edits from outside (`AllAgree` does not speak of the time
until a sync). Crashes, in whatever number and at whatever step, a recovery's included, are in all three.

`Typed` adds to the types that a start always has room for the mutation it makes (`RoomForStart`). `Described`
says at which steps the state file describes SQLite: from its writing to the end of a mutation, and in a
rollback that does not rebuild SQLite from the first step on, since it restores what described it before. `Atomically`
is the argument of the refinement. There is at most one record, that of the operation under way, and none when all is at
rest (`OneRecord`); a record's snapshots are the vault before the mutation and what it set out to make
(`RecordsFit`); `Mutating` and `Restoring` say for each `pc` which of files, SQLite, state file and
mirror have been brought to the new or back to the old version. Each step is then one of `AtomicVault`, or a
stutter: the vault changes, in the abstract, in the step that drops the record and in that alone. TLC: 1,272,500 states, and
`Described` on 103,477 with edits and failing rollbacks.

### Messaging and reminders (`ImOutboxProofs`, `ImChannelProofs`, `ReminderDeliveryProofs`)

| Theorem | Statement |
|---|---|
| `ImChannelProofs!TypeCorrect` | `Spec => []TypeOK` |
| `EventsAreWorkedOnce` | `Spec => []WorkedOnce` |
| `DeliveryIsComplete` | `Spec => []DeliveredInFull` |
| `RowsAreCurrent` | `Spec => []UnsettledIsCurrent` (no run checks it) |
| `ReceiptsAreHeeded` | `Spec => ReceiptStopsSending` |
| `ReminderDeliveryProofs!TypeCorrect` | `Spec => []TypeOK` |
| `WaitingRowsAreWanted` | `Spec => []WaitingIsWanted` |
| `MessagesAreWanted` | `Spec => []UnsentIsWanted` |
| `DeliveriesAreRetained` | `Spec => []DeliveryIsRetained` |
| `DeliveriesWereTaken` | `Spec => []DeliveredWasTaken` |
| `ProcessingEnds` | `Spec => []ProcessingIsUnderWay` |

`ImOutboxProofs` shows of each operation of the outbox that it preserves `OutboxInv`, whatever else the step does:
receipts are written in the order of the parts and only for what the platform took
(`ReceiptsAreOfTaken`); a flush sends the first part without one (`SendsFirstUnsent`), and an answer on its way is of
a part that was taken (`AnswerIsOfTaken`). `DeliveredInFull` follows from these three: what
marks a row as delivered is a receipt, possibly of an earlier claim, and not what the flush remembers. Both modules that extend `ImOutbox`
cite these lemmas.

`ImChannelProofs` adds that the event the worker holds is `processing` (`HandledIsProcessing`) and that the model has not seen an
event that may still be started (`UnworkedMayStart`), which is where the one exception, a profile error before
the model was called, is accounted for. The worker's steps before the claim and
the steps of a disconnection touch no event (`EventsStutter`), so that nothing has to be said of the connection an entry is of. TLC: 95,882
states, and 2,117,071 with two events.

`ReminderDeliveryProofs` relates the schedule's rows to the messenger's. `RowsFit`: a row that waits has attempts
left, is of an occurrence that stands, and of an enabled channel. `SendingIsCurrent`: a notification under way is the
only one of its row, and of the item as it is unless it was stopped. `BatchIsPending`: what a tick picked is
still pending, or was stopped since, which is why the code may hand over a row it read before an await. TLC: 1,309,354 states with the
messenger, 1,555,427 with both channels and no crash, 10,121 with the desktop.

### Workflows (`WorkflowCoordinatorProofs`)

| Theorem | Statement |
|---|---|
| `TypeCorrect` | `Spec => []TypeOK` |
| `BudgetIsKept` | `Spec => []WithinBudget` |
| `DependenciesComeFirst` | `Spec => []DependenciesFirst` |
| `CommandsEndFirst` | `Spec => []EndsWithItsCommands` |
| `NothingIsForgotten` | `Spec => []NothingForgotten` (`MCWorkflowTwo` checks it) |

The invariant has a part for the rows (`Rows`: a workflow that has not started has touched no node, one that has
ended has none at work, the budget), for the children (`Children`: a node that runs has a child and the row says so; a
command runs only for a node that is at work and that is told, or about to be; dependencies were met before the
node was set going and stay so, replays and decisions included) and for the pumps (`Pumps`: what a pump has still
to handle nobody else has ended; the child set going and not yet written is of the node its pump is at; what a cancellation
waits for can end). The lemmas about the functions of `SessionWorkflow` (`Reserved`, `SettledNodes`, `Decided`, ...)
are stated once and cited by the cases of `Next`; the budget is arithmetic on the cardinality of finite sets of nodes. TLC: 166,105 states, and
1,225,237 with two workflows.

`NothingIsForgotten` is what `StartedEnds` needs beside fairness: a coordinator at rest, with no pump scheduled or under
way, owes nothing to anybody. Its invariant `Tended` says what each workflow is owed meanwhile. A node said to run has a
child that runs, or a pump that is at it or still comes to it (`NodeTended`); a cancellation is at its children or comes
round (`CancellationGoesOn`); a round that was overtaken is run again, and one that put a launch off is excused by it
(`RoundGoesOn`, `RestIsExcused`). The proof is by workflow: one that was woken is tended whatever changed (`Woken`), one
that a step does not touch stays so (`Untouched`), and each step wakes whom it disturbs (`Wakes`). The one thing a step may
take from a workflow that is not woken is the excuse of a launch put off for lack of room, and room is made only by an
end that wakes all (`PlaceFreed`, `FullStays`). For subagents this last part is false (`MCWorkflowDelegated`, section 6), so
the statement excuses them.

### Batching (`CoordinatorProofs`)

| Theorem | Statement |
|---|---|
| `DelaysAreTyped` | `BatchingSpec => []BatchingTypeOK` |
| `WaitsAreBounded` | `BatchingSpec => []WaitIsBounded` |
| `TypingDefers` | `BatchingSpec => TypingDefersClaim` |
| `FullBurstsAreDue` | `BatchingSpec => []FullBurstIsDue` (no run checks it) |

The invariant `Batched`: a timer is armed exactly when something waits and nothing forbids the claim (`ArmedWhenDue`); what is
remembered lies in the past (`PastTimes`); the window began before what waits was sent, or was opened anew for it
(`WindowIsOpen`); and the timer is due within the window or when the typing ends, not before that, and at once if the
burst is full (`TimerFits`). The attempt to prove an earlier bound, which counted from the sending alone, showed why it is
false: what a burst leaves behind has lost its window, and the next message, not the next schedule, opens it
again; a run with too few messages had not met that. `renewedAt` states what is true instead. The minimum and
maximum of the rows' times are shown to exist by well-founded induction on the natural numbers (`LeastInstant`,
`LargestInstant`). TLC: 1,913,807 states, and 2,486,835 with a longer typing window.

### Memory jobs (`CoordinatorProofs`)

| Theorem | Statement |
|---|---|
| `JobsAreTyped` | `Spec => []TypeOK` |
| `CallsAreAsked` | `Spec => []NoHiddenCalls` |
| `KeysAreUnique` | `Spec => []NoKeyTwice` |
| `AnswersDoNotMix` | `Spec => []OneAnswerPerTurn` |
| `RevisionLeavesNothing` | `Spec => []RevisedLeavesNothing` |
| `WaitingJobsAreScheduled` | `Spec => []WaitingIsScheduled` (no run checks it) |

Its invariant has three parts. `Calls` counts: a row's attempts exceed its retries and the breaks by at most
one, and by none while the row may be claimed (`Unaccounted`), because a claim that can be claimed again was
taken back by a break or a retry, and a process that is gone holds nothing (`NothingHeldWhenDown`). `Stores`
ties memories to rows: what is stored is of a completed job with a result or of one that was cut short
(`StoredIsResult`), so that a job that may still store has stored nothing before, and a turn that was revised has no
job that could still store (`RevisedIsOver`). `Typed` is the type invariant, with the turn a waiting loop is at.
Rows, loops and the store each have lemmas of their own; the step of an action puts three of them together.
`WaitingIsScheduled` is inductive beside them: whatever makes a row wait arms the timer, and the timer is given up only for
a loop, which arms it again when it ends and finds one waiting. It is the safety half of `PendingIsTaken`. TLC: 274,967 states, and
1,534,631 with a conversation before the order and two breaks.

### Model-checked only

- Liveness, in every module: the provers have no rule for fairness here. What its safety part says is proved where it
  has one (`NoLostWakeup`, `WaitersAwaitTheEntry`, `NothingForgotten`, `WaitingIsScheduled`).

## 6. Where code and documents disagree

`drain_waits` (`DrainWaits`; `memory-coordinator/coordinator.ts:188`, `docs/memory-daily-capture.md:69`) is the run that is
expected to fail, with an entry under "findings": the coordinator remembers the loop that the timer
started last. While loop 1 awaits the model for one turn, the loop of the next turn replaces it and ends;
a later drain arms an empty loop, finds that one done and returns, while the first turn's job is
running. The document says that a turn about to be compacted drains accepted work first.

Further instances, not in the regular list, show in a few seconds each. Paths are below `src/src/` and `src/`.

Inbox, replay cache and vault:

- `MCPrivateInboxCancelled.cfg` (`CancelledInputRecorded`; `domain/kernel.ts:6411`): an abort that lands after the
  preparation's last look at its signal but before the turn continues loses the burst's last message; the
  earlier ones are recorded.
- `MCPrivateInboxAlike.cfg` (`EditRemovesOwnEntry`; `domain/kernel.ts:1672`): a revision recognises its message in the
  transcript by its text. With two equal texts, one of which was never recorded, it removes the other
  message's entry.
- `MCIdempotencyHangUp.cfg` (`NoConcurrentExecution`; `http/headless-idempotency.ts:130`, `docs/headless-api.md:92`): when a
  client hangs up, its key is released while its handler runs on; a retry executes the mutation again.
- `MCVaultRefused.cfg` (`RecoverySucceeds`; `memory-vault/journal.ts:152`): `refreshAfter` replaces the snapshot before the
  manifest that describes it; a crash in between makes every later start fail.
- `MCVaultComplete.cfg` (`AllAgree`; `memory-vault/service.ts:1020`): a failed write of the `completed` record is rolled
  back without SQLite.
- `MCInboxLimits.cfg` (`GraceIsKept`; `coordinator.ts:112`, `docs/development-spec.md:559`): the window of a
  message retracted while the queue is stopped is inherited by the next message, which is then claimed
  without its grace.
- `MCInboxLimits.cfg` (`HardMaximum`, which TLC finds first, with `-continue` both; `coordinator.ts:261`, `docs/development-spec.md:61`): what the design
  document calls a hard maximum yields to a user who keeps typing, and to a new window that the next message opens
  for those a full burst left behind.
- `MCIdempotencyEvicted.cfg` (`WaitersAreReplayed`; `headless-idempotency.ts:174`, `docs/headless-api.md:93`):
  the answer of a slow mutation is the first candidate for eviction the moment it is stored, and those who
  waited for it execute again.
- `MCVaultReplayed.cfg` (`CompletedIsTerminal`; `service.ts:1025`, `docs/memory-architecture-r5.md:39`): the
  record of a failed rollback is replayed by the next start over mutations that completed after it.
- `MCVaultOverwritten.cfg` (`ExternalEditsSurvive`; `store.ts:265`, `docs/memory-architecture-r5.md:86`): a
  recovery replaces the whole vault, including files saved from an editor since the crash.

Reminders, workflows and memory:

- `MCReminderRecurs.cfg` (`RecurrenceGoesOn`; `schedule/service.ts:207`, `docs/development-spec.md:363`): the next
  occurrence of a recurring reminder is created by the delivery of the one before; one that is acknowledged,
  snoozed past or suppressed before it is delivered ends the series.
- `MCReminderReceipt.cfg` (`ReceiptIsConsulted`; `im/repository.ts:535`, comment in `im/local-gateway.ts:418`): a row is
  claimed three times at most, so a crash between the third send and its acknowledgement leaves a
  receipt no later claim looks at, and the reminder counts as failed although it was delivered.
- `MCWorkflowReplayed.cfg` (`RunsOnlyAsDecided`; `workflows/coordinator.ts:262`, comment at 57,
  `docs/agent-runtime-modernization-plan.md:179`): a crash between the launch of a retry and its attachment launches the
  command again without a new decision.
- `MCWorkflowOrphan.cfg` (`EndsWithItsSubagents`; `workflows/coordinator.ts:335`, the plan at 177 and 186): a crash between
  the start of a subagent and its attachment, and a deadline that has passed by the restart: the node is failed as
  one without a child, and the subagent that was admitted runs on.
- `MCWorkflowDelegated.cfg` (`PutOffIsTriedAgain`; `workflows/coordinator.ts:272`): a launch that was put off waits for the end
  of some child, as the comment says; the end of a foreground delegation frees capacity and nobody is told.
- `MCMemoryRevised.cfg` (`RevisionIsSafe`; `domain/kernel.ts:4874`): a job that failed after storing some candidates has a
  result count of zero, so its turn may be edited or retracted, and the memories stay. `RevisedLeavesNothing`
  is what holds: of turns whose job was not cut short or tried again.

## 7. What is not modelled

`PROJECT.json` lists every component with the reason. In short: user interface (about a sixth of the
lines), adapters and clients of external services (I/O), parsers and formats (`memory-vault/codec.ts`, `okf/`),
evaluation tools, packaging. Of the modelled parts, these details are abstracted: message texts, document
contents, idempotency fingerprints (a model value each); SQLite transactions and single-file durable writes
(one step); the Pi SDK (its appends and its branch); several mirrors (one); `prepare`'s two writes (one step: a
crash between them leaves a directory without a record, which the next start removes before anything else);
what the model says; titles, grants and results of workflow nodes; delays, except in `InboxBatching`.

Not modelled at all: several sessions at once in the inbox (they share no state), the vault's migration from
older releases, its writer lease (one writer is assumed) and its Git history, drafts of reminders, pairing and
media of the messengers, several providers, checkpoints and follow-ups of subagents, quotas and output of shell
jobs, the effects of the post-turn and insight jobs, world simulation and character conversations.

The share of the program's lines that the models stand for stays small: most of the lines are user interface,
validation, routing, schema and text, in which nothing depends on the order of events.

## 8. Plan

Done: the private inbox with its abstract lifecycle and proofs, its batching, the replay cache with proofs, the
vault's journal with its abstract vault, messaging, reminders, workflows with their children, the memory
coordinator's jobs and the drain before a compaction; all with proofs except the drain, whose property fails.

Next, should the code of these parts change:

1. `VaultWriterLock`: two processes, a lease and a fence; composed with a single file of the vault to state
   what the fence protects and the one step it cannot.
2. `SubagentJobs` as a module of its own: two owners, generations, late results, deliveries.
3. Runtime events with cursors, character conversations with leases, incognito sessions.
4. Pure operators of the context budget, against a reference definition.

Proofs to come: a measure for the vault's start, each step of which brings the recovery nearer to its end.

The regular list of runs stays short: a new module brings one passing run for all of its properties, and a
run whose question is settled moves to the further instances when a weightier one needs its place.
