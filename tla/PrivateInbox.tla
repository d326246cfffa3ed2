---------------------------- MODULE PrivateInbox ----------------------------
(***************************************************************************)
(* The private inbox of one chat session: src/inbox/coordinator.ts and     *)
(* src/inbox/repository.ts, together with the kernel operations that drive *)
(* it (enqueue, edit, retract, stop, resume, flush) and the message turn   *)
(* that a claimed burst runs under the session's execution queue.          *)
(*                                                                         *)
(* Node runs one callback at a time, so an action is the code between two  *)
(* awaits.  Sessions share nothing (every map is keyed by the session), so *)
(* one session is modelled.  Time is abstracted away: a timer that is      *)
(* armed may fire at any moment (InboxBatching models the delays).         *)
(***************************************************************************)
EXTENDS Integers, FiniteSets, Sequences, SequencesExt

CONSTANTS
  MessageId,      \* client message ids; their order is the order of row ids
  Size,           \* characters of each message's text
  Alike,          \* messages that are first sent with the same text
  MaxMessages,    \* maximumMessagesPerBurst
  MaxCharacters,  \* maximumCharactersPerBurst
  MaxVersion,     \* bound: texts written for one message id
  MaxPause,       \* bound: stops
  MaxDirect,      \* bound: turns sent around the inbox
  MaxCrash        \* bound: crashes

ASSUME MessageIdAssumption == MessageId \subseteq Nat \ {0} /\ IsFiniteSet(MessageId)
ASSUME SizeAssumption == Size \in [MessageId -> Nat]
ASSUME AlikeAssumption == Alike \subseteq MessageId
ASSUME BurstAssumption == MaxMessages \in Nat \ {0} /\ MaxCharacters \in Nat
ASSUME BoundAssumption ==
  /\ MaxVersion \in Nat
  /\ MaxPause \in Nat
  /\ MaxDirect \in Nat
  /\ MaxCrash \in Nat

VARIABLES
  status,      \* row status, "absent" when there is no row
  version,     \* which text the row holds (texts are counted, not spelled out)
  created,     \* created_at of the row
  burst,       \* burst_id of the row, 0 for NULL
  paused,      \* private_inbox_controls.paused
  saved,       \* user entries on the branch the transcript file ends in
  transcript,  \* user entries on the branch the session uses
  service,     \* "up", "stopping" (dispose was called) or "down"
  timer,       \* the session has an armed timer
  phase,       \* progress of running.get(session)
  active,      \* active.get(session).burstId, 0 when there is none
  aborted,     \* the active burst's controller is aborted
  outcome,     \* what the processor answered
  held,        \* held.has(session)
  editor,      \* the message revision in progress
  stops,       \* pauseVersions.get(session)
  lock,        \* the session's tail of the execution queue, holder first
  flusher,     \* a second caller of flush: "none", "waiting", "woken"
  claims, directs, crashes  \* counters, for the bounds and for fresh names

rows == <<status, version, created, burst, paused>>
files == <<saved, transcript>>
run == <<phase, active, aborted, outcome>>
counters == <<claims, directs, crashes>>
vars == <<rows, files, service, timer, run, held, editor, stops, lock,
          flusher, counters>>

Statuses == {"absent", "queued", "processing", "completed", "failed", "cancelled"}
Outcomes == {"none", "thrown", "completed", "failed", "cancelled"}
Phases == {"none", "starting", "waiting", "preparing", "prepared", "prompting",
           "returning", "finishing", "settled"}
Jobs == {"turn", "edit", "direct"}

Queued == {m \in MessageId : status[m] = "queued"}
Present == {m \in MessageId : status[m] # "absent"}

\* ORDER BY created_at, id
Before(m, n) == created[m] < created[n] \/ (created[m] = created[n] /\ m < n)
Ahead(m) == {n \in Queued : Before(n, m)}
\* Mutant of InOrder: newest first.
InReverse(S) == CHOOSE q \in [1..Cardinality(S) -> S] :
                  \A i, j \in DOMAIN q : i < j => Before(q[j], q[i])

\* A burst's messages, oldest first.
InOrder(S) == CHOOSE q \in [1..Cardinality(S) -> S] :
                \A i, j \in DOMAIN q : i < j => Before(q[i], q[j])

Text(m) == <<m, version[m]>>
Texts(s) == [i \in DOMAIN s |-> Text(s[i])]

\* Two texts, compared as strings.
SameText(a, b) == a = b \/ (a[2] = 1 /\ b[2] = 1 /\ {a[1], b[1]} \subseteq Alike)

\* Mutant of Claimable: a message too long for the burst is skipped over.
ClaimableSkipping ==
  {m \in Queued : Cardinality(Ahead(m)) < MaxMessages
                  /\ (Ahead(m) # {} => Size[m] < MaxCharacters)}

\* The prefix of the queue that claimBurst selects: it stops at the message
\* limit, or at the first message, not the foremost, that would exceed the characters.
Fits(m) ==
  Ahead(m) # {} =>
    MapThenSumSet(LAMBDA n : Size[n], Ahead(m) \cup {m}) <= MaxCharacters
Claimable ==
  {m \in Queued : /\ Cardinality(Ahead(m)) < MaxMessages
                  /\ \A n \in Ahead(m) \cup {m} : Fits(n)}

InBurst == {m \in MessageId : status[m] = "processing" /\ burst[m] = active}

NoEdit == [phase |-> "none", message |-> 0, version |-> 0, stops |-> 0]
EditPhases == {"settling", "locking", "committing", "releasing"}

Init ==
  /\ status = [m \in MessageId |-> "absent"]
  /\ version = [m \in MessageId |-> 0]
  /\ created = [m \in MessageId |-> 0]
  /\ burst = [m \in MessageId |-> 0]
  /\ paused = FALSE
  /\ saved = << >> /\ transcript = << >>
  /\ service = "up"
  /\ timer = FALSE
  /\ phase = "none" /\ active = 0 /\ aborted = FALSE /\ outcome = "none"
  /\ held = FALSE
  /\ editor = NoEdit
  /\ stops = 0
  /\ lock = << >>
  /\ flusher = "none"
  /\ claims = 0 /\ directs = 0 /\ crashes = 0

-----------------------------------------------------------------------------
(* Helpers shared by the operations *)

\* schedule: nothing while stopped, running, held or paused; otherwise the
\* timer is re-armed exactly when something is queued.
Schedule ==
  timer' = IF service' = "up" /\ phase' = "none" /\ ~held' /\ ~paused'
             THEN Queued' # {}
             ELSE timer

\* interrupt: abort the active burst's controller, if there is one.
Interrupt == aborted' = (active # 0)

\* appendMessages: the entries extend the live branch, which thereby becomes
\* the branch the file ends in.
Record(entries) ==
  /\ transcript' = transcript \o entries
  /\ saved' = transcript'

-----------------------------------------------------------------------------
(* Requests *)

\* enqueue of a new client message id, created in the same millisecond as the
\* newest row or in a later one.
Enqueue(m, interrupt) ==
  /\ service = "up"
  /\ status[m] = "absent" /\ version[m] < MaxVersion
  /\ \E newest \in {created[n] : n \in MessageId} :
       /\ \A n \in MessageId : created[n] <= newest
       /\ \E t \in {newest, newest + 1} : created' = [created EXCEPT ![m] = t]
  /\ status' = [status EXCEPT ![m] = "queued"]
  /\ version' = [version EXCEPT ![m] = @ + 1]
  /\ burst' = [burst EXCEPT ![m] = 0]
  /\ paused' = FALSE
  /\ IF interrupt THEN Interrupt ELSE UNCHANGED aborted
  /\ UNCHANGED <<files, service, phase, active, outcome, held, editor, stops,
                 lock, flusher, counters>>
  /\ Schedule

\* enqueue of a client message id that already has a row.
EnqueueAgain(m) ==
  /\ service = "up"
  /\ status[m] # "absent"
  /\ UNCHANGED <<rows, files, service, run, held, editor, stops, lock, flusher,
                 counters>>
  /\ IF status[m] = "queued" THEN Schedule ELSE UNCHANGED timer

UpdateQueued(m) ==
  /\ service = "up"
  /\ status[m] = "queued" /\ version[m] < MaxVersion
  /\ version' = [version EXCEPT ![m] = @ + 1]
  /\ UNCHANGED <<status, created, burst, paused, files, service, run, held,
                 editor, stops, lock, flusher, counters>>
  /\ Schedule

RetractQueued(m) ==
  /\ service = "up"
  /\ status[m] = "queued"
  /\ status' = [status EXCEPT ![m] = "absent"]
  /\ created' = [created EXCEPT ![m] = 0]
  /\ UNCHANGED <<version, burst, paused, files, service, run, held, editor,
                 stops, lock, flusher, counters>>
  /\ Schedule

\* cancelMessage: pause the queue, drop its timer and abort the active turn.
CancelMessage ==
  /\ service = "up"
  /\ stops < MaxPause
  /\ stops' = stops + 1
  /\ paused' = TRUE
  /\ timer' = FALSE
  /\ Interrupt
  /\ UNCHANGED <<status, version, created, burst, files, service, phase, active,
                 outcome, held, editor, lock, flusher, counters>>

Resume ==
  /\ service = "up"
  /\ paused
  /\ paused' = FALSE
  /\ UNCHANGED <<status, version, created, burst, files, service, run, held,
                 editor, stops, lock, flusher, counters>>
  /\ Schedule

-----------------------------------------------------------------------------
(* flush and processOne *)

\* flush, by a caller that is left in state `caller` when it must wait.
Flush ==
  IF paused \/ held
    THEN /\ flusher' = "none"
         /\ UNCHANGED <<timer, phase>>
    ELSE /\ timer' = FALSE
         /\ phase' = IF phase = "none" THEN "starting" ELSE phase
         /\ flusher' = IF phase = "none" THEN "none" ELSE "waiting"

TimerFires ==
  /\ timer
  /\ timer' = FALSE
  /\ phase' = IF ~paused /\ ~held /\ phase = "none" THEN "starting" ELSE phase
  /\ flusher' = IF ~paused /\ ~held /\ phase # "none" THEN "waiting" ELSE flusher
  /\ UNCHANGED <<rows, files, service, active, aborted, outcome, held, editor,
                 stops, lock, counters>>

FlushRequest ==
  /\ service = "up"
  /\ flusher = "none"
  /\ Flush
  /\ UNCHANGED <<rows, files, service, active, aborted, outcome, held, editor,
                 stops, lock, counters>>

FlusherWakes ==
  /\ flusher = "woken"
  /\ IF Queued = {}
       THEN /\ flusher' = "none"
            /\ UNCHANGED <<timer, phase>>
       ELSE Flush
  /\ UNCHANGED <<rows, files, service, active, aborted, outcome, held, editor,
                 stops, lock, counters>>

\* processOne finds the queue paused, held or empty.
ProcessNothing ==
  /\ phase = "starting"
  /\ paused \/ held \/ Queued = {}
  /\ phase' = "settled"
  /\ UNCHANGED <<rows, files, service, timer, active, aborted, outcome, held,
                 editor, stops, lock, flusher, counters>>

\* Mutant of ClaimBurst: processOne does not look at the stop again.
ClaimWhilePaused ==
  /\ phase = "starting"
  /\ ~held /\ Queued # {}
  /\ claims' = claims + 1
  /\ status' = [m \in MessageId |->
                  IF m \in Claimable THEN "processing" ELSE status[m]]
  /\ burst' = [m \in MessageId |-> IF m \in Claimable THEN claims' ELSE burst[m]]
  /\ active' = claims'
  /\ aborted' = FALSE
  /\ outcome' = "none"
  /\ phase' = "waiting"
  /\ lock' = Append(lock, "turn")
  /\ UNCHANGED <<version, created, paused, files, service, timer, held, editor,
                 stops, flusher, directs, crashes>>

\* processOne claims a burst and hands it to the session's execution queue.
ClaimBurst ==
  /\ phase = "starting"
  /\ ~paused /\ ~held /\ Queued # {}
  /\ claims' = claims + 1
  /\ status' = [m \in MessageId |->
                  IF m \in Claimable THEN "processing" ELSE status[m]]
  /\ burst' = [m \in MessageId |-> IF m \in Claimable THEN claims' ELSE burst[m]]
  /\ active' = claims'
  /\ aborted' = FALSE
  /\ outcome' = "none"
  /\ phase' = "waiting"
  /\ lock' = Append(lock, "turn")
  /\ UNCHANGED <<version, created, paused, files, service, timer, held, editor,
                 stops, flusher, directs, crashes>>

-----------------------------------------------------------------------------
(* The turn of a claimed burst: sendMessageLocked *)

TurnStep(from, to) ==
  /\ phase = from
  /\ phase' = to
  /\ UNCHANGED <<rows, service, timer, active, aborted, held, editor, stops,
                 flusher, counters>>

\* Mutant of TurnBegins: the turn does not go through the execution queue.
BeginWithoutLock ==
  /\ TurnStep("waiting", "preparing")
  /\ UNCHANGED <<files, outcome, lock>>

TurnBegins ==
  /\ lock # << >> /\ Head(lock) = "turn"
  /\ TurnStep("waiting", "preparing")
  /\ UNCHANGED <<files, outcome, lock>>

\* Opening the session fails before anything of the turn is recorded, or what
\* follows the model's answer fails.
TurnThrows ==
  /\ \E from \in {"preparing", "prompting"} : TurnStep(from, "returning")
  /\ outcome' = "thrown"
  /\ UNCHANGED <<files, lock>>

\* persistSystemExchange: the turn ends before the model is asked (it was
\* aborted, its preparation failed, or the program answered by itself) and
\* every message of the burst is recorded.
PersistSystemExchange(result) ==
  /\ result = "cancelled" => aborted
  /\ result = "failed" => ~aborted
  /\ TurnStep("preparing", "returning")
  /\ outcome' = result
  /\ Record(Texts(InOrder(InBurst)))
  /\ UNCHANGED lock

\* The preparation's last look at the controller.
PreparationEnds ==
  /\ ~aborted
  /\ TurnStep("preparing", "prepared")
  /\ UNCHANGED <<files, outcome, lock>>

\* Mutant of EndBeforePrompt: the whole burst is recorded after its prefix.
EndRecordsBurst(result) ==
  /\ result # "completed" /\ (aborted <=> result = "cancelled")
  /\ TurnStep("prepared", "returning")
  /\ outcome' = result
  /\ Record(Front(Texts(InOrder(InBurst))) \o Texts(InOrder(InBurst)))
  /\ UNCHANGED lock

\* All messages but the last are recorded; then the turn is found aborted after
\* all, or Pi refuses the prompt before it records it.
EndBeforePrompt(result) ==
  /\ result # "completed" /\ (aborted <=> result = "cancelled")
  /\ TurnStep("prepared", "returning")
  /\ outcome' = result
  /\ Record(Front(Texts(InOrder(InBurst))))
  /\ UNCHANGED lock

\* All messages but the last are recorded, and Pi records the last as its prompt.
Prompt ==
  /\ ~aborted
  /\ TurnStep("prepared", "prompting")
  /\ Record(Texts(InOrder(InBurst)))
  /\ UNCHANGED <<outcome, lock>>

\* The model stops; an abort seen now cancels the turn, a later one does not.
PromptEnds(result) ==
  /\ TurnStep("prompting", "returning")
  /\ aborted <=> result = "cancelled"
  /\ outcome' = result
  /\ UNCHANGED <<files, lock>>

TurnReturns ==
  /\ TurnStep("returning", "finishing")
  /\ lock' = Tail(lock)
  /\ UNCHANGED <<files, outcome>>

\* Mutant of FinishBurst: what the processor threw is stored as it is.
FinishWithRawOutcome ==
  LET final == outcome
  IN /\ phase = "finishing"
     /\ status' = [m \in MessageId |-> IF m \in InBurst THEN final ELSE status[m]]
     /\ phase' = "settled"
     /\ active' = 0
     /\ aborted' = FALSE
     /\ outcome' = "none"
     /\ UNCHANGED <<version, created, burst, paused, files, service, timer, held,
                    editor, stops, lock, flusher, counters>>

\* Mutant of FinishBurst: interrupted messages are queued again.
FinishRequeuesCancelled ==
  LET final == IF outcome # "thrown" THEN IF outcome = "cancelled" THEN "queued" ELSE outcome
               ELSE IF aborted THEN "queued" ELSE "failed"
  IN /\ phase = "finishing"
     /\ status' = [m \in MessageId |-> IF m \in InBurst THEN final ELSE status[m]]
     /\ phase' = "settled"
     /\ active' = 0
     /\ aborted' = FALSE
     /\ outcome' = "none"
     /\ UNCHANGED <<version, created, burst, paused, files, service, timer, held,
                    editor, stops, lock, flusher, counters>>

\* finishBurst, with what the processor answered or, if it threw, with
\* "cancelled" or "failed" by the state of the controller.
FinishBurst ==
  LET final == IF outcome # "thrown" THEN outcome
               ELSE IF aborted THEN "cancelled" ELSE "failed"
  IN /\ phase = "finishing"
     /\ status' = [m \in MessageId |-> IF m \in InBurst THEN final ELSE status[m]]
     /\ phase' = "settled"
     /\ active' = 0
     /\ aborted' = FALSE
     /\ outcome' = "none"
     /\ UNCHANGED <<version, created, burst, paused, files, service, timer, held,
                    editor, stops, lock, flusher, counters>>

\* Mutant of RunSettles: what arrived during the run is not scheduled.
SettleWithoutSchedule ==
  /\ phase = "settled"
  /\ phase' = "none"
  /\ flusher' = IF flusher = "waiting" THEN "woken" ELSE flusher
  /\ UNCHANGED <<rows, files, timer, service, active, aborted, outcome, held, editor,
                 stops, lock, counters>>

\* The rest of flush, once its run has settled.
RunSettles ==
  /\ phase = "settled"
  /\ phase' = "none"
  /\ flusher' = IF flusher = "waiting" THEN "woken" ELSE flusher
  /\ UNCHANGED <<rows, files, service, active, aborted, outcome, held, editor,
                 stops, lock, counters>>
  /\ Schedule

-----------------------------------------------------------------------------
(* reviseProcessingPrivateMessage: an edit of a message already claimed *)

\* Only the newest message that was ever claimed may be revised, and not while
\* another burst is active.
Revisable(m) ==
  /\ status[m] \notin {"absent", "queued"}
  /\ burst[m] # 0
  /\ \A n \in Present \ {m} : burst[n] # 0 => Before(n, m)
  /\ active # 0 => burst[m] = active

EditBegins(m) ==
  /\ service = "up"
  /\ Revisable(m) /\ version[m] < MaxVersion
  /\ ~held
  /\ held' = TRUE
  /\ editor' = [phase |-> "settling", message |-> m, version |-> version[m],
                stops |-> stops]
  /\ Interrupt
  /\ UNCHANGED <<rows, files, service, timer, phase, active, outcome, stops,
                 lock, flusher, counters>>

\* Mutant of EditQueues: whenIdle is not awaited.
EditWithoutSettling ==
  /\ editor.phase = "settling"
  /\ editor' = [editor EXCEPT !.phase = "locking"]
  /\ lock' = Append(lock, "edit")
  /\ UNCHANGED <<rows, files, service, timer, run, held, stops, flusher, counters>>

\* whenIdle returned; the revision queues for the session.
EditQueues ==
  /\ editor.phase = "settling"
  /\ phase = "none"
  /\ editor' = [editor EXCEPT !.phase = "locking"]
  /\ lock' = Append(lock, "edit")
  /\ UNCHANGED <<rows, files, service, timer, run, held, stops, flusher, counters>>

EditHasLock == lock # << >> /\ Head(lock) = "edit"

\* Mutant of EditBranches: the latest entry is not compared with the message.
BranchAnywhere ==
  /\ editor.phase = "locking" /\ EditHasLock
  /\ transcript # << >>
  /\ transcript' = Front(transcript)
  /\ editor' = [editor EXCEPT !.phase = "committing"]
  /\ UNCHANGED <<rows, saved, service, timer, run, held, stops, lock, flusher,
                 counters>>

\* branchBeforeLatestUser: the live branch moves before its last user entry,
\* in memory; the file still ends in the old branch.
EditBranches ==
  /\ editor.phase = "locking" /\ EditHasLock
  /\ transcript # << >>
  /\ SameText(Last(transcript), <<editor.message, editor.version>>)
  /\ transcript' = Front(transcript)
  /\ editor' = [editor EXCEPT !.phase = "committing"]
  /\ UNCHANGED <<rows, saved, service, timer, run, held, stops, lock, flusher,
                 counters>>

\* Mutant of EditRefused: a refused edit does not release its hold.
RefuseWithoutRelease ==
  /\ editor.phase = "locking" /\ EditHasLock
  /\ editor' = NoEdit
  /\ lock' = Tail(lock)
  /\ UNCHANGED <<rows, files, service, timer, run, held, stops, flusher, counters>>

\* The text is no longer the latest user entry, or assertLatestTurnRevisionSafe
\* refuses (it may do so in any state).
EditRefused ==
  /\ editor.phase = "locking" /\ EditHasLock
  /\ editor' = [editor EXCEPT !.phase = "releasing"]
  /\ lock' = Tail(lock)
  /\ UNCHANGED <<rows, files, service, timer, run, held, stops, flusher, counters>>

\* Mutant of EditCommits: edited resumes the queue whenever it runs.
CommitResumes ==
  LET m == editor.message
  IN /\ editor.phase = "committing"
     /\ status' = [status EXCEPT ![m] = "queued"]
     /\ burst' = [burst EXCEPT ![m] = 0]
     /\ version' = [version EXCEPT ![m] = @ + 1]
     /\ paused' = FALSE
     /\ editor' = [editor EXCEPT !.phase = "releasing"]
     /\ lock' = Tail(lock)
     /\ UNCHANGED <<created, files, service, timer, run, held, stops, flusher,
                    counters>>

\* requeueEdited and edited: the queue is resumed unless it was stopped since
\* the edit began.
EditCommits ==
  LET m == editor.message
  IN /\ editor.phase = "committing"
     /\ status' = [status EXCEPT ![m] = "queued"]
     /\ burst' = [burst EXCEPT ![m] = 0]
     /\ version' = [version EXCEPT ![m] = @ + 1]
     /\ paused' = (paused /\ stops # editor.stops)
     /\ editor' = [editor EXCEPT !.phase = "releasing"]
     /\ lock' = Tail(lock)
     /\ UNCHANGED <<created, files, service, timer, run, held, stops, flusher,
                    counters>>

\* Mutant of EditReleases: the queue is not scheduled.
ReleaseWithoutSchedule ==
  /\ editor.phase = "releasing"
  /\ editor' = NoEdit
  /\ held' = FALSE
  /\ UNCHANGED <<rows, files, timer, service, run, stops, lock, flusher, counters>>

EditReleases ==
  /\ editor.phase = "releasing"
  /\ editor' = NoEdit
  /\ held' = FALSE
  /\ UNCHANGED <<rows, files, service, run, stops, lock, flusher, counters>>
  /\ Schedule

-----------------------------------------------------------------------------
(* Turns that do not come through the inbox, and the life of the service *)

SendMessage ==
  /\ service = "up"
  /\ directs < MaxDirect
  /\ directs' = directs + 1
  /\ lock' = Append(lock, "direct")
  /\ UNCHANGED <<rows, files, service, timer, run, held, editor, stops, flusher,
                 claims, crashes>>

\* The texts of these turns are not told apart.
DirectTurn ==
  /\ lock # << >> /\ Head(lock) = "direct"
  /\ Record(<< <<0, 0>> >>)
  /\ lock' = Tail(lock)
  /\ UNCHANGED <<rows, service, timer, run, held, editor, stops, flusher, counters>>

\* dispose: no more scheduling, the active burst is aborted.
Stop ==
  /\ service = "up"
  /\ crashes < MaxCrash
  /\ service' = "stopping"
  /\ timer' = FALSE
  /\ Interrupt
  /\ UNCHANGED <<rows, files, phase, active, outcome, held, editor, stops, lock,
                 flusher, counters>>

\* The process ends: everything but the rows and the transcript file is lost.
Crash ==
  /\ service # "down"
  /\ crashes < MaxCrash
  /\ crashes' = crashes + 1
  /\ service' = "down"
  /\ timer' = FALSE
  /\ phase' = "none" /\ active' = 0 /\ aborted' = FALSE /\ outcome' = "none"
  /\ held' = FALSE
  /\ editor' = NoEdit
  /\ stops' = 0
  /\ lock' = << >>
  /\ flusher' = "none"
  /\ transcript' = saved
  /\ UNCHANGED <<rows, saved, claims, directs>>

\* Mutant of Start: recoverInterrupted is not called.
StartWithoutRecovery ==
  /\ service = "down"
  /\ service' = "up"
  /\ UNCHANGED <<status, version, created, burst, paused, files, run, held, editor, stops,
                 lock, flusher, counters>>
  /\ Schedule

\* Mutant of Start: interrupted bursts are queued again.
StartRequeues ==
  /\ service = "down"
  /\ service' = "up"
  /\ status' = [m \in MessageId |->
                  IF status[m] = "processing" THEN "queued" ELSE status[m]]
  /\ UNCHANGED <<version, created, burst, paused, files, run, held, editor, stops,
                 lock, flusher, counters>>
  /\ Schedule

\* start: interrupted bursts become failed, and the queue is scheduled.
Start ==
  /\ service = "down"
  /\ service' = "up"
  /\ status' = [m \in MessageId |->
                  IF status[m] = "processing" THEN "failed" ELSE status[m]]
  /\ UNCHANGED <<version, created, burst, paused, files, run, held, editor, stops,
                 lock, flusher, counters>>
  /\ Schedule

-----------------------------------------------------------------------------
Request ==
  \/ \E m \in MessageId : \/ \E interrupt \in BOOLEAN : Enqueue(m, interrupt)
                          \/ EnqueueAgain(m)
                          \/ UpdateQueued(m)
                          \/ RetractQueued(m)
                          \/ EditBegins(m)
  \/ CancelMessage
  \/ Resume
  \/ FlushRequest
  \/ SendMessage
  \/ Stop

Answers == {"completed", "failed", "cancelled"}

\* The steps the program takes by itself.
Progress ==
  \/ TimerFires \/ FlusherWakes
  \/ ProcessNothing \/ ClaimBurst
  \/ TurnBegins \/ TurnThrows \/ PreparationEnds \/ Prompt
  \/ \E result \in Answers : \/ PersistSystemExchange(result)
                             \/ EndBeforePrompt(result)
                             \/ PromptEnds(result)
  \/ TurnReturns \/ FinishBurst \/ RunSettles
  \/ EditQueues \/ EditBranches \/ EditRefused \/ EditCommits \/ EditReleases
  \/ DirectTurn
  \/ Start

Next == Request \/ Progress \/ Crash

Spec == Init /\ [][Next]_vars

\* Timers fire, promises settle, the model answers or fails, the program is
\* started again after it ended.
FairSpec == Spec /\ WF_vars(Progress)

-----------------------------------------------------------------------------
(* Properties *)

RowTypes ==
  /\ status \in [MessageId -> Statuses]
  /\ version \in [MessageId -> Nat]
  /\ created \in [MessageId -> Nat]
  /\ burst \in [MessageId -> Nat]
  /\ paused \in BOOLEAN

RunTypes ==
  /\ service \in {"up", "stopping", "down"}
  /\ timer \in BOOLEAN
  /\ phase \in Phases
  /\ active \in Nat
  /\ aborted \in BOOLEAN
  /\ outcome \in Outcomes
  /\ flusher \in {"none", "waiting", "woken"}
  /\ claims \in Nat /\ directs \in Nat /\ crashes \in Nat

EditTypes ==
  /\ held \in BOOLEAN
  /\ editor \in [phase : EditPhases \cup {"none"}, message : MessageId \cup {0},
                 version : Nat, stops : Nat]
  /\ stops \in Nat
  /\ lock \in Seq(Jobs)

\* Every variable stays in its range (the transcript's entries apart).
TypeOK == RowTypes /\ RunTypes /\ EditTypes

\* What the invariants below rest on.  The burst is active from its claim to
\* the end of finishBurst, and ids of bursts are new when they are claimed.
TurnPhases == {"waiting", "preparing", "prepared", "prompting", "returning", "finishing"}
ActiveDuringTurn == active # 0 <=> phase \in TurnPhases
BurstIdsIssued == active <= claims /\ \A m \in MessageId : burst[m] <= claims
OutcomeDecided == outcome # "none" <=> phase \in {"returning", "finishing"}

\* The edit holds the session until it is done with it, and its message does
\* not turn back into a queued one under its hands.
EditHolds ==
  /\ held <=> editor.phase # "none"
  /\ editor.phase = "none" <=> editor = NoEdit
  /\ editor.phase # "none" => editor.message \in MessageId
  /\ editor.phase \in {"settling", "locking", "committing"} =>
       status[editor.message] \notin {"absent", "queued"}

\* The execution queue admits one job at a time: turn and edit are inside only
\* while they are the holder.
HolderIsInside ==
  /\ phase \in {"preparing", "prepared", "prompting", "returning"} =>
       lock # << >> /\ Head(lock) = "turn"
  /\ editor.phase = "committing" => EditHasLock

DownIsQuiet ==
  service = "down" =>
    phase = "none" /\ editor = NoEdit /\ ~timer /\ flusher = "none"

\* While the program runs, every row in "processing" belongs to the one active
\* burst, so each of them will be finished: no message is stuck in processing
\* (processOne, finishBurst, recoverInterrupted).
OneActiveBurst ==
  service # "down" =>
    \A m \in MessageId : status[m] = "processing" => active # 0 /\ burst[m] = active

\* schedule's early returns never lose a message: when something is queued and
\* nothing forbids processing, a timer is armed or a run is under way.
NoLostWakeup ==
  service = "up" /\ Queued # {} /\ ~paused /\ ~held => timer \/ phase # "none"

\* hold and whenIdle keep bursts away from a revision: from the moment it waits
\* for the session's lock until it lets go, no run exists, so the transcript it
\* looked at is still the one it changes.
EditExcludesBurst ==
  editor.phase \in {"locking", "committing", "releasing"} =>
    phase = "none" /\ \A m \in MessageId : status[m] # "processing"

\* Retries, edits, crashes and concurrent flushes record no message's text twice.
NoDuplicateInput ==
  \A i, j \in DOMAIN transcript :
    transcript[i] = transcript[j] /\ transcript[i][1] # 0 => i = j

\* The text of a message that still waits in the queue is not yet recorded: it
\* can still be changed or retracted without a trace.
QueuedNotRecorded ==
  \A m \in Queued : \A i \in DOMAIN transcript : transcript[i] # Text(m)

\* A message the user sees as completed is part of the conversation (while an
\* edit is between moving the branch and updating the row, its own is not).
CompletedRecorded ==
  \A m \in MessageId :
    status[m] = "completed" =>
      \/ \E i \in DOMAIN transcript : transcript[i] = Text(m)
      \/ editor.phase = "committing" /\ editor.message = m

\* The current texts are recorded in the order the user sent them, whatever was
\* queued, edited and processed again in between.
RecordedInSendOrder ==
  \A i, j \in DOMAIN transcript : \A m, n \in Present :
    i < j /\ transcript[i] = Text(m) /\ transcript[j] = Text(n) =>
      created[m] <= created[n]

\* A burst is a prefix of the queue: nothing older than a claimed message is
\* left waiting behind it (claimBurst's limits stop at the first that exceeds).
BurstIsPrefix ==
  active # 0 => \A m \in InBurst, n \in Queued : created[m] <= created[n]

\* A stop that arrives while an edit is settling is not undone by that edit:
\* only a new message or a resume restarts the queue.
EditKeepsLaterStop ==
  [][editor # NoEdit /\ stops # editor.stops /\ paused /\ ~paused' =>
       UNCHANGED editor]_vars

\* The inductive invariant (PrivateInboxProofs).
Inductive ==
  /\ TypeOK
  /\ ActiveDuringTurn /\ BurstIdsIssued /\ OutcomeDecided
  /\ EditHolds /\ HolderIsInside /\ DownIsQuiet
  /\ OneActiveBurst /\ NoLostWakeup /\ EditExcludesBurst

\* A text is on the branch the transcript file ends in; a message still has to be
\* recorded: it is queued, or in a burst that has not come to that yet.
Recorded(e) == \E i \in DOMAIN saved : saved[i] = e
Unrecorded == phase \in {"waiting", "preparing", "prepared"}
Pending == Queued \cup {m \in InBurst : Unrecorded}

\* The entries of both branches are of turns around the inbox or of texts written,
\* the branch in use is a part of the file's (an edit that is not yet followed by
\* a turn has shortened it), and no text is in the file twice.
LogTypes ==
  /\ \A log \in {saved, transcript} :
       log \in Seq({<<0, 0>>} \cup (MessageId \X Nat))
  /\ \A i \in DOMAIN saved : \A m \in MessageId :
       saved[i][1] = m => saved[i][2] <= version[m]
LogIsPrefix ==
  /\ Len(transcript) <= Len(saved)
  /\ \A i \in 1..Len(transcript) : transcript[i] = saved[i]
LogIsUnique ==
  \A i, j \in DOMAIN saved : saved[i] = saved[j] /\ saved[i][1] # 0 => i = j

\* What is pending is not yet in the file.
PendingIsFresh == \A m \in Pending : ~Recorded(Text(m))

\* What is in the file was claimed. While an edit works its message is the last of
\* those that were, and the text it looked at stays the message's.
RecordedWasClaimed == \A m \in MessageId : Recorded(Text(m)) => burst[m] # 0
EditWorks == editor.phase \in {"settling", "locking", "committing"}
EditedIsLatest ==
  EditWorks =>
    \A n \in Present \ {editor.message} : burst[n] # 0 => Before(n, editor.message)
EditIsCurrent == EditWorks => editor.version = version[editor.message]

\* The file is in the order of sending, and what is pending comes after it.
SavedInSendOrder ==
  \A i, j \in DOMAIN saved : \A m, n \in Present :
    i < j /\ saved[i] = Text(m) /\ saved[j] = Text(n) => created[m] <= created[n]
PendingIsLater ==
  \A m \in Present, n \in Pending : Recorded(Text(m)) => created[m] <= created[n]

\* The second inductive invariant (PrivateInboxProofs): nothing is recorded twice,
\* too early or out of order.
Logged ==
  /\ LogTypes /\ LogIsPrefix /\ LogIsUnique /\ PendingIsFresh
  /\ BurstIsPrefix /\ RecordedWasClaimed /\ EditedIsLatest /\ EditIsCurrent
  /\ SavedInSendOrder /\ PendingIsLater

\* An edit that finds its own text takes off the branch what it will replace, and
\* nothing else: the file's other entries beyond the branch are of texts replaced.
TailIsReplaced ==
  \A j \in DOMAIN saved : \A m \in MessageId :
    saved[j] = Text(m) /\ j > Len(transcript) =>
      editor.phase = "committing" /\ m = editor.message

\* A burst that will be completed is in the file when the answer comes.
Answered == phase = "prompting" \/ outcome = "completed"
CompletedIsSaved ==
  /\ \A m \in MessageId : status[m] = "completed" => Recorded(Text(m))
  /\ Answered => \A m \in InBurst : Recorded(Text(m))

\* The third, of sessions in which no two messages have the same text: nothing
\* that was answered is lost.
Kept == TailIsReplaced /\ CompletedIsSaved

\* What is said of interrupting a reply: "messages arriving during generation
\* interrupt the old reply and preserve all user input"
\* (test/private-inbox.test.ts): a turn that reports it was cancelled has
\* recorded every message of its burst.
CancelledInputRecorded ==
  phase \in {"returning", "finishing"} /\ outcome = "cancelled" =>
    \A m \in InBurst : \E i \in DOMAIN transcript : transcript[i] = Text(m)

\* What the revision's check promises ("a newer message has already replaced
\* this turn", src/domain/kernel.ts; "only the latest user message on the active
\* branch can be revised", src/pi/session-runtime.ts): the entry an edit removes
\* from the branch is the one of the message it edits.
EditRemovesOwnEntry ==
  [][editor.phase = "locking" /\ editor'.phase = "committing" =>
       Last(transcript)[1] = editor.message]_vars

\* The inbox implements the lifecycle it promises: one batch at a time, one
\* answer for all of a batch, nothing taken while stopped, only finished
\* messages reopened, and a restart that fails the open batch.
Lifecycle == INSTANCE MessageLifecycle
ImplementsLifecycle == Lifecycle!Spec

\* The user does not open edits for ever: each one holds the queue for a while,
\* and a refused edit may be tried again at once.
EditsCease == <>[][~held => ~held']_vars

\* Every queued message is eventually taken, unless the user has stopped the
\* queue or the program is shutting down (flush, schedule, release, start).
QueuedIsServed ==
  EditsCease =>
    \A m \in MessageId :
      status[m] = "queued" ~> status[m] # "queued" \/ paused \/ service = "stopping"

\* Every row that is processing is eventually finished, across crashes too.
ProcessingFinishes ==
  \A m \in MessageId :
    status[m] = "processing" ~> status[m] # "processing" \/ service = "stopping"

\* Every hold is released.
EditFinishes == held ~> ~held
=============================================================================
