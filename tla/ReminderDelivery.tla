-------------------------- MODULE ReminderDelivery --------------------------
(***************************************************************************)
(* A reminder, from its due time to the channels that carry it: the        *)
(* operations of schedule/service.ts on an item and its occurrences, the   *)
(* scheduler's tick (schedule/scheduler.ts) that fans a due occurrence out *)
(* into rows of notification_outbox and delivers them, and the messenger's *)
(* own outbox (ImOutbox), which the messenger's sink only fills and polls. *)
(*                                                                         *)
(* One item is modelled, with its reminder on.  An occurrence is known by  *)
(* its due time, which is unique for the item in the table; so is its row  *)
(* for the messenger in im_outbox.  Times are a small clock's.  The in-app *)
(* channel always delivers at once, so that an occurrence never fails; a   *)
(* desktop notification answers later, or fails; the messenger is polled.  *)
(* A tick's rows are handled one after the other with nothing in between   *)
(* (`batch'), up to the answers of the desktop (`sending').  When a row    *)
(* that was put off is offered again is left open.                         *)
(***************************************************************************)
EXTENDS ImOutbox

CONSTANTS
  MaxTime,         \* bound: the clock
  Lead,            \* leadMinutes: the reminder comes that long before the start
  Interval,        \* the recurrence; 0 for none
  Quiet,           \* quiet hours
  Selected,        \* channels of the item's policy besides the in-app one
  MaxAttempts,     \* failures of a row before it is given up (three in the code)
  MaxRevision,     \* bound: updates of the item
  MaxOperations,   \* bound: operations of the user
  MaxCrashes       \* bound: restarts of the process

Time == 1..MaxTime
Channel == {"in_app", "desktop", "im"}

ASSUME ReminderAssumption ==
  /\ Message = Time /\ Reminder = Time
  /\ MaxTime \in Nat \ {0} /\ Lead \in Nat /\ Interval \in Nat
  /\ Quiet \subseteq 0..(MaxTime - 1)
  /\ Selected \subseteq {"desktop", "im"}
  /\ MaxAttempts \in Nat \ {0} /\ MaxRevision \in Nat
  /\ MaxOperations \in Nat /\ MaxCrashes \in Nat

VARIABLES
  now,         \* the clock
  item,        \* the schedule item
  occ,         \* its occurrences, by due time
  row,         \* their rows in notification_outbox, by channel
  batch,       \* rows the tick that runs has still to handle
  sending,     \* desktop notifications under way, with the revision they are of
  recover,     \* recoverProcessing: no tick has run since the start
  enabled,     \* the messenger's reminders are on
  operations,
  crashes

itemVars == <<now, item, occ>>
tickVars == <<batch, sending, recover>>
vars == <<outboxVars, itemVars, row, tickVars, enabled, operations, crashes>>

NoOcc == [status |-> "none", acked |-> FALSE, copy |-> FALSE]
Absent == [status |-> "none", attempts |-> 0, suppressed |-> FALSE]
Fresh == [status |-> "pending", attempts |-> 0, suppressed |-> FALSE]

TypeOK ==
  /\ OutboxTypeOK
  /\ now \in 0..MaxTime
  /\ item \in [status : {"scheduled", "completed", "cancelled"},
               revision : 0..MaxRevision, start : Nat]
  /\ occ \in [Time -> [status : {"none", "scheduled", "processing", "delivered",
                                 "snoozed", "cancelled"},
                       acked : BOOLEAN, copy : BOOLEAN]]
  /\ row \in [Time -> [Channel -> [status : {"none", "pending", "processing",
                                             "delivered", "failed"},
                                   attempts : 0..(MaxAttempts + 1),
                                   suppressed : BOOLEAN]]]
  /\ batch \subseteq Time \X Channel
  /\ sending \subseteq Time \X (0..MaxRevision)
  /\ recover \in BOOLEAN /\ enabled \in BOOLEAN
  /\ operations \in 0..MaxOperations /\ crashes \in 0..MaxCrashes

-----------------------------------------------------------------------------
(* Occurrences and rows.                                                   *)

\* createOccurrence: an occurrence of that time is kept, and revived when it was
\* cancelled and is still to come.  (Those after MaxTime are not followed.)
Created(occs, due, copy) ==
  IF due \notin Time THEN occs
  ELSE IF occs[due].status = "none"
    THEN [occs EXCEPT ![due] = [status |-> "scheduled", acked |-> FALSE, copy |-> copy]]
  ELSE IF occs[due].status = "cancelled" /\ due > now
    THEN [occs EXCEPT ![due].status = "scheduled"]
  ELSE occs

\* createNextRecurringOccurrence; the copy a snooze made has no successor.
WithNext(occs, o) ==
  IF Interval = 0 \/ occs[o].copy THEN occs ELSE Created(occs, o + Interval, FALSE)

Suppress(r) ==
  IF r.status \in {"none", "delivered"} THEN r ELSE [r EXCEPT !.suppressed = TRUE]

\* Mutant of SuppressedRow: a delivery the scheduler has not polled yet is lost.
SuppressedUnpolled(o, c) == Suppress(row[o][c])

\* A messenger's row the platform has taken counts as delivered first.
SuppressedRow(o, c) ==
  IF c = "im" /\ row[o][c].status # "none" /\ outbox[o].status = "delivered"
    THEN [row[o][c] EXCEPT !.status = "delivered"]
    ELSE Suppress(row[o][c])

\* Mutant of SuppressOccurrences: the messenger keeps what it has been given.
SuppressRows(S) ==
  /\ row' = [o \in Time |-> [c \in Channel |->
       IF o \in S THEN SuppressedRow(o, c) ELSE row[o][c]]]
  /\ UNCHANGED outbox

\* suppressOccurrence, for the occurrences of S.
SuppressOccurrences(S) ==
  /\ row' = [o \in Time |-> [c \in Channel |->
       IF o \in S THEN SuppressedRow(o, c) ELSE row[o][c]]]
  /\ outbox' = Abandon(outbox, S)

Active(o) ==
  /\ item.status = "scheduled"
  /\ occ[o].status \notin {"none", "cancelled", "snoozed"} /\ ~occ[o].acked

\* invalidateReminderOutbox: what the messenger must not send any more.
Stopped ==
  {o \in Time : row[o]["im"].suppressed \/ ~Active(o) \/ ~enabled}

Init ==
  /\ OutboxInit
  /\ now = 0
  /\ item \in [status : {"scheduled"}, revision : {0}, start : {Lead + 1}]
  /\ occ = [o \in Time |-> IF o = 1 THEN [NoOcc EXCEPT !.status = "scheduled"] ELSE NoOcc]
  /\ row = [o \in Time |-> [c \in Channel |-> Absent]]
  /\ batch = {} /\ sending = {} /\ recover = TRUE
  /\ enabled = TRUE
  /\ operations = 0 /\ crashes = 0

restOutbox == <<flight, receipts, taken, binding, bound, gate>>
unchangedByService == <<restOutbox, now, tickVars, enabled, crashes>>

-----------------------------------------------------------------------------
(* The service.                                                            *)

Cancelled(occs) ==
  [o \in Time |-> IF occs[o].status \in {"scheduled", "processing"}
                    THEN [occs[o] EXCEPT !.status = "cancelled"] ELSE occs[o]]

\* Every occurrence is stopped and those to come are cancelled; the one of the
\* new start is created, or revived.
Update(start) ==
  /\ item.status # "cancelled" /\ start > now /\ item.revision < MaxRevision
  /\ item' = [item EXCEPT !.revision = @ + 1, !.start = start]
  /\ SuppressOccurrences(Time)
  /\ occ' = Created(Cancelled(occ), start - Lead, FALSE)
  /\ UNCHANGED unchangedByService

\* complete and cancel, which ask nothing of the item's status.
Close(status) ==
  /\ item' = [item EXCEPT !.status = status]
  /\ SuppressOccurrences(Time)
  /\ occ' = Cancelled(occ)
  /\ UNCHANGED unchangedByService

\* The copy comes at a time no other occurrence of the item has.
Snooze(o, at) ==
  /\ item.status = "scheduled" /\ occ[o].status \notin {"none", "cancelled", "snoozed"}
  /\ at > now /\ occ[at].status = "none"
  /\ SuppressOccurrences({o})
  /\ occ' = Created([occ EXCEPT ![o].status = "snoozed"], at, TRUE)
  /\ UNCHANGED <<unchangedByService, item>>

\* Mutant of Acknowledge: the rows that are still to be delivered are left.
AcknowledgeOnly(o) ==
  /\ occ[o].status \notin {"none", "cancelled", "snoozed"}
  /\ occ' = [occ EXCEPT ![o].acked = TRUE]
  /\ UNCHANGED <<unchangedByService, item, row, outbox>>

Acknowledge(o) ==
  /\ occ[o].status \notin {"none", "cancelled", "snoozed"}
  /\ SuppressOccurrences({o})
  /\ occ' = [occ EXCEPT ![o].acked = TRUE]
  /\ UNCHANGED <<unchangedByService, item>>

\* A row that was given up starts over, with the messenger's row if that failed.
RetryNotification(o, c) ==
  /\ row[o][c].status = "failed" /\ ~row[o][c].suppressed /\ Active(o)
  /\ row' = [row EXCEPT ![o][c] = Fresh]
  /\ outbox' = IF c = "im" /\ outbox[o].status = "failed"
                 THEN [outbox EXCEPT ![o].status = "pending", ![o].attempts = 0]
                 ELSE outbox
  /\ occ' = [occ EXCEPT ![o].status = "scheduled"]
  /\ UNCHANGED <<unchangedByService, item>>

\* patchRuntimeSettings: turning the messenger's reminders off stops those there
\* are; turning them on again brings none back.
SetEnabled(on) ==
  /\ enabled' = on
  /\ IF on THEN UNCHANGED row
     ELSE row' = [o \in Time |-> [row[o] EXCEPT !["im"] = SuppressedRow(o, "im")]]
  /\ outbox' = Abandon(outbox, IF on THEN Stopped ELSE Time)
  /\ UNCHANGED <<restOutbox, itemVars, tickVars, crashes>>

Operate == operations < MaxOperations /\ operations' = operations + 1

Service ==
  /\ Operate
  /\ \/ \E start \in Time : Update(start)
     \/ \E status \in {"completed", "cancelled"} : Close(status)
     \/ \E o, at \in Time : Snooze(o, at)
     \/ \E o \in Time : Acknowledge(o)
     \/ \E o \in Time, c \in Channel : RetryNotification(o, c)
     \/ \E on \in BOOLEAN : SetEnabled(on)

-----------------------------------------------------------------------------
(* The scheduler.                                                          *)

Due == {o \in Time : /\ occ[o].status = "scheduled" /\ ~occ[o].acked
                     /\ o <= now /\ item.status = "scheduled"}

\* Mutant of Requeued: rows a crash left in processing stay there.
NotRequeued == row

Requeued ==
  IF ~recover THEN row
  ELSE [o \in Time |-> [c \in Channel |->
          IF row[o][c].status = "processing"
            THEN [row[o][c] EXCEPT !.status = "pending"] ELSE row[o][c]]]

FanOut(rows, o) ==
  LET channels == {"in_app"} \cup {c \in Selected : c = "im" => enabled}
  IN IF \E c \in Channel : rows[o][c] # Absent THEN rows[o]
     ELSE [c \in Channel |-> IF c \in channels THEN Fresh ELSE Absent]

\* One tick at a time: what has just been fanned out is delivered, and of the
\* rows that were put off those whose time has come.
Tick ==
  /\ batch = {} /\ sending = {}
  /\ LET rows == [o \in Time |-> IF o \in Due THEN FanOut(Requeued, o) ELSE Requeued[o]]
         waiting == {oc \in Time \X Channel : /\ rows[oc[1]][oc[2]].status = "pending"
                                              /\ ~rows[oc[1]][oc[2]].suppressed}
         fresh == {oc \in waiting : row[oc[1]][oc[2]] = Absent}
     IN /\ row' = rows
        /\ batch' \in {B \in SUBSET waiting : fresh \subseteq B}
  /\ occ' = [o \in Time |-> IF o \in Due THEN [occ[o] EXCEPT !.status = "processing"]
                            ELSE occ[o]]
  /\ recover' = FALSE
  /\ UNCHANGED <<outboxVars, now, item, sending, enabled, operations, crashes>>

\* The channel has taken the row; the occurrence is done, and the next one of a
\* recurring item comes, unless the item or the occurrence has changed meanwhile.
Delivered(o, c, revision) ==
  /\ row' = [row EXCEPT ![o][c].status = "delivered", ![o][c].attempts = @ + 1]
  /\ occ' = IF /\ item.status = "scheduled" /\ item.revision = revision
               /\ occ[o].status \notin {"snoozed", "cancelled"}
              THEN WithNext([occ EXCEPT ![o].status = "delivered"], o)
              ELSE occ

\* The channel has not; a row that was stopped meanwhile is left as it is.
Failed(o, c, revision) ==
  /\ row' = IF Active(o) /\ item.revision = revision /\ ~row[o][c].suppressed
              THEN [row EXCEPT
                      ![o][c].status = IF row[o][c].attempts + 1 >= MaxAttempts
                                         THEN "failed" ELSE "pending",
                      ![o][c].attempts = @ + 1]
              ELSE row
  /\ UNCHANGED occ

\* deliver, up to the sink's call: what was stopped is suppressed, and quiet
\* hours put the row off.
Skip(o, c) ==
  /\ UNCHANGED <<occ, sending>>
  /\ \/ /\ ~row[o][c].suppressed /\ ~Active(o)
        /\ SuppressOccurrences({o})
     \/ /\ row[o][c].suppressed \/ (Active(o) /\ now \in Quiet)
        /\ UNCHANGED <<row, outbox>>

\* Mutant of Outcome: what the messenger has queued counts as delivered.
QueuedIsDelivered(im) ==
  IF im.status \in {"delivered", "pending"} THEN "delivered"
  ELSE IF im.status \in {"none", "abandoned"} THEN "failed"
  ELSE "pending"

\* What the sink says of a row of the messenger's.
Outcome(im) ==
  IF im.status = "delivered" THEN "delivered"
  ELSE IF \/ im.status \in {"none", "abandoned"}
          \/ im.status = "failed" /\ im.attempts >= MaxClaims THEN "failed"
  ELSE "pending"

\* ImNotificationSink.deliver: the reminder is enqueued once, for the owner's
\* chat with this binding if there is one (`target'); later calls look at it.
PollIm(o, target) ==
  LET queued == outbox[o].status # "none"
      sent == IF queued THEN outbox
              ELSE IF bound /\ target THEN Enqueued(outbox, o, binding)
              ELSE outbox
  IN /\ outbox' = sent
     /\ \/ Outcome(sent[o]) = "delivered" /\ Delivered(o, "im", item.revision)
        \/ Outcome(sent[o]) = "failed" /\ Failed(o, "im", item.revision)
        \/ Outcome(sent[o]) = "pending" /\ UNCHANGED <<row, occ>>

Deliver(o, c) ==
  /\ <<o, c>> \in batch
  /\ batch' = batch \ {<<o, c>>}
  /\ \/ Skip(o, c)
     \/ /\ Active(o) /\ ~row[o][c].suppressed /\ now \notin Quiet
        /\ \/ /\ c = "in_app" /\ Delivered(o, c, item.revision)
              /\ UNCHANGED <<outbox, sending>>
           \/ /\ c = "desktop"
              /\ row' = [row EXCEPT ![o][c].status = "processing"]
              /\ sending' = sending \cup {<<o, item.revision>>}
              /\ UNCHANGED <<outbox, occ>>
           \/ /\ c = "im" /\ \E target \in BOOLEAN : PollIm(o, target)
              /\ UNCHANGED sending
  /\ UNCHANGED <<restOutbox, now, item, recover, enabled, operations, crashes>>

\* notify-send ends.
DesktopAnswers(o, revision, delivered) ==
  /\ <<o, revision>> \in sending
  /\ sending' = sending \ {<<o, revision>>}
  /\ IF delivered THEN Delivered(o, "desktop", revision)
     ELSE Failed(o, "desktop", revision)
  /\ UNCHANGED <<outboxVars, now, item, batch, recover, enabled, operations, crashes>>

-----------------------------------------------------------------------------
Passes ==
  /\ now < MaxTime /\ now' = now + 1
  /\ UNCHANGED <<outboxVars, item, occ, row, tickVars, enabled, operations, crashes>>

Crash ==
  /\ crashes < MaxCrashes /\ crashes' = crashes + 1
  /\ OutboxCrash
  /\ batch' = {} /\ sending' = {} /\ recover' = TRUE
  /\ UNCHANGED <<itemVars, row, enabled, operations>>

Flush ==
  \/ ClaimPendingOutbox(Stopped)
  \/ \E o \in Time : AuthorizeOutbox(o, Stopped)
  \/ PlatformTakes
  \/ SendSucceeds
  \/ SendFails

Messenger ==
  /\ \/ Flush /\ UNCHANGED operations
     \/ BeginDisconnect /\ Operate
     \/ /\ Revoke \/ FailDisconnect \/ ClearProvider \/ EndDisconnect
           \/ StartBinding \/ Rebind
        /\ UNCHANGED operations
  /\ UNCHANGED <<itemVars, row, tickVars, enabled, crashes>>

Answer == \E o \in Time, revision \in 0..MaxRevision, delivered \in BOOLEAN :
            DesktopAnswers(o, revision, delivered)

Next ==
  \/ \E o \in Time, c \in Channel : Deliver(o, c)
  \/ batch = {} /\ (Service \/ Tick \/ Answer \/ Passes \/ Messenger)
  \/ Crash

Spec == Init /\ [][Next]_vars

\* The timers keep running: the scheduler's, which offers every row in its turn,
\* and the flush's; desktop and platform, asked again and again, answer in the end.
Fairness ==
  /\ WF_vars(\E o \in Time, c \in Channel : Deliver(o, c))
  /\ WF_vars(batch = {} /\ Answer)
  /\ SF_vars(batch = {} /\ Passes)
  /\ \A o \in Time, c \in Channel : SF_vars(Tick /\ <<o, c>> \in batch')
  /\ SF_vars(batch = {} /\ ClaimPendingOutbox(Stopped) /\ flight'.batch = Claimable(outbox)
             /\ UNCHANGED <<itemVars, row, tickVars, enabled, operations, crashes>>)
  /\ WF_vars(batch = {} /\ (\E o \in Time : AuthorizeOutbox(o, Stopped))
             /\ UNCHANGED <<itemVars, row, tickVars, enabled, operations, crashes>>)
  /\ WF_vars(batch = {} /\ (PlatformTakes \/ SendSucceeds)
             /\ UNCHANGED <<itemVars, row, tickVars, enabled, operations, crashes>>)

FairSpec == Spec /\ Fairness

-----------------------------------------------------------------------------
(* Properties.                                                             *)

\* A row that waits or is being delivered is of a reminder that is still wanted:
\* whatever stops one (an update, a snooze, an acknowledgement, the end of the
\* item, the switch of its channel) reaches every row it has.
WaitingIsWanted ==
  \A o \in Time, c \in Channel :
    row[o][c].status \in {"pending", "processing"} /\ ~row[o][c].suppressed
      => Active(o) /\ (c = "im" => enabled)

\* The same of the messenger's rows, which another module claims and sends: one
\* still to be sent is of a reminder that is still wanted.
UnsentIsWanted == \A o \in Time : Unsettled(outbox[o]) => o \notin Stopped

\* A row marked processing is under way, or the next tick offers it again.
ProcessingIsUnderWay ==
  \A o \in Time, c \in Channel :
    row[o][c].status = "processing" /\ ~row[o][c].suppressed
      => recover \/ \E revision \in 0..MaxRevision : <<o, revision>> \in sending

\* A send the platform has acknowledged is retained: stopping the reminder before
\* the scheduler has polled the messenger does not hide it.
DeliveryIsRetained ==
  \A o \in Time : outbox[o].status = "delivered"
    => row[o]["im"].status = "delivered" \/ ~row[o]["im"].suppressed

\* What the schedule calls delivered by the messenger the platform has taken.
DeliveredWasTaken ==
  \A o \in Time : row[o]["im"].status = "delivered" => taken[o] # {}

\* While the messenger's gateway is open, a row is delivered, given up or stopped.
RowIsSettled ==
  \A o \in Time, c \in Channel :
    row[o][c].status \in {"pending", "processing"}
      ~> \/ row[o][c].status \in {"delivered", "failed"}
         \/ row[o][c].suppressed
         \/ c = "im" /\ gate # "open"

\* A reminder whose receipt is in the spool is acknowledged by a later claim.
ReceiptIsConsulted ==
  \A o \in Time : Unsettled(outbox[o]) /\ receipts[o] = PartsOf(o)
                    ~> ~Unsettled(outbox[o]) \/ gate # "open"

\* A recurring item that is still scheduled has an occurrence that is to come or
\* is being delivered.
RecurrenceGoesOn ==
  Interval > 0 /\ item.status = "scheduled" /\ now + Interval < MaxTime
    => \E o \in Time : /\ occ[o].status \in {"scheduled", "processing"}
                       /\ ~occ[o].acked /\ ~occ[o].copy
=============================================================================
