----------------------- MODULE ReminderDeliveryProofs -----------------------
(***************************************************************************)
(* Proofs about ReminderDelivery for any length of time, lead, recurrence, *)
(* quiet hours and policy, and any numbers of attempts, claims, bindings,  *)
(* updates, operations and restarts.                                       *)
(***************************************************************************)
EXTENDS ReminderDelivery, ImOutboxProofs

-----------------------------------------------------------------------------
(* The inductive invariant.                                                *)

Item == [status : {"scheduled", "completed", "cancelled"},
         revision : 0..MaxRevision, start : Nat]
Occurrence == [status : {"none", "scheduled", "processing", "delivered", "snoozed",
                         "cancelled"},
               acked : BOOLEAN, copy : BOOLEAN]
Notice == [status : {"none", "pending", "processing", "delivered", "failed"},
           attempts : 0..(MaxAttempts + 1), suppressed : BOOLEAN]

ScheduleTyped ==
  /\ item \in Item
  /\ occ \in [Time -> Occurrence]
  /\ row \in [Time -> [Channel -> Notice]]

TicksTyped ==
  /\ now \in 0..MaxTime
  /\ batch \subseteq Time \X Channel
  /\ sending \subseteq Time \X (0..MaxRevision)
  /\ recover \in BOOLEAN /\ enabled \in BOOLEAN
  /\ operations \in 0..MaxOperations /\ crashes \in 0..MaxCrashes

\* A row there is was fanned out at its time, for an occurrence that is kept;
\* one still to be delivered has attempts left and is wanted, and so is its
\* channel, which holds of one that was given up as well.
RowFits(o, c) ==
  /\ row[o][c].status = "none" => row[o][c] = Absent
  /\ row[o][c].attempts <= MaxAttempts
  /\ row[o][c].status \in {"pending", "processing"} => row[o][c].attempts < MaxAttempts
  /\ row[o][c].status # "none" => occ[o].status # "none" /\ o <= now
  /\ row[o][c].status = "processing" => c = "desktop"
  /\ /\ row[o][c].status \in {"pending", "processing", "failed"}
     /\ ~row[o][c].suppressed /\ c = "im"
     => enabled
  /\ row[o][c].status \in {"pending", "processing"} /\ ~row[o][c].suppressed => Active(o)

RowsFit == \A o \in Time, c \in Channel : RowFits(o, c)

\* What the schedule and the messenger's outbox say of each other.
Told == UnsentIsWanted /\ DeliveryIsRetained /\ DeliveredWasTaken

\* A desktop notification under way is the only one of its row, which is being
\* processed, and is of the item as it is unless it has been stopped.
SendingIsCurrent ==
  \A s \in sending :
    /\ row[s[1]]["desktop"].status = "processing"
    /\ row[s[1]]["desktop"].suppressed \/ item.revision = s[2]
    /\ \A t \in sending : t[1] = s[1] => t = s

\* A row of the tick's batch waits, unless it was stopped after it was picked.
BatchIsPending ==
  \A p \in Time, d \in Channel :
    <<p, d>> \in batch =>
      /\ row[p][d].status # "none"
      /\ row[p][d].status = "pending" \/ row[p][d].suppressed \/ ~Active(p)

UnderWay == SendingIsCurrent /\ ProcessingIsUnderWay

Inductive ==
  ScheduleTyped /\ TicksTyped /\ OutboxInv /\ RowsFit /\ Told /\ UnderWay /\ BatchIsPending

LEMMA Types ==
  TypeOK <=> OutboxTypeOK /\ ScheduleTyped /\ TicksTyped
  BY DEF TypeOK, ScheduleTyped, TicksTyped, Item, Occurrence, Notice

\* The bounds.
LEMMA Bounds ==
  /\ Message = Time /\ Reminder = Time
  /\ MaxTime \in Nat /\ Lead \in Nat /\ Interval \in Nat
  /\ MaxAttempts \in Nat /\ MaxAttempts > 0 /\ MaxRevision \in Nat
  /\ MaxOperations \in Nat /\ MaxCrashes \in Nat
  /\ Fresh \in Notice /\ Absent \in Notice /\ Time \subseteq Nat
<1>1. /\ Message = Time /\ Reminder = Time
      /\ MaxTime \in Nat /\ Lead \in Nat /\ Interval \in Nat
      /\ MaxAttempts \in Nat /\ MaxAttempts > 0 /\ MaxRevision \in Nat
      /\ MaxOperations \in Nat /\ MaxCrashes \in Nat
  BY ReminderAssumption
<1>2. 0 \in 0..(MaxAttempts + 1) /\ Time \subseteq Nat
  BY <1>1 DEF Time
<1> QED
  BY <1>1, <1>2 DEF Fresh, Absent, Notice

LEMMA Starts ==
  ASSUME Init
  PROVE  Inductive
<1>1. OutboxInv
  BY OutboxStarts DEF Init
<1>2. ScheduleTyped
  <2>1. item \in Item
    <3>1. 0 \in 0..MaxRevision /\ Lead + 1 \in Nat
      BY Bounds
    <3>2. item \in [status : {"scheduled"}, revision : {0}, start : {Lead + 1}]
      BY DEF Init
    <3> QED
      BY <3>1, <3>2 DEF Item
  <2>2. occ \in [Time -> Occurrence]
    BY DEF Init, NoOcc, Occurrence
  <2>3. row \in [Time -> [Channel -> Notice]]
    BY Bounds DEF Init
  <2> QED
    BY <2>1, <2>2, <2>3 DEF ScheduleTyped
<1>3. TicksTyped
  BY Bounds DEF Init, TicksTyped
<1>4. RowsFit
  BY Bounds DEF Init, RowsFit, RowFits, Absent
<1>5. Told
  <2>1. \A o \in Time : /\ outbox[o].status = "none"
                        /\ row[o]["im"].status = "none"
    BY Bounds DEF Init, OutboxInit, NoRow, Absent, Channel
  <2> QED
    BY <2>1 DEF Told, UnsentIsWanted, DeliveryIsRetained, DeliveredWasTaken, Unsettled
<1>6. UnderWay /\ BatchIsPending
  BY DEF Init, UnderWay, SendingIsCurrent, ProcessingIsUnderWay, BatchIsPending, Absent
<1> QED
  BY <1>1, <1>2, <1>3, <1>4, <1>5, <1>6 DEF Inductive

-----------------------------------------------------------------------------
(* What stays as it was.                                                   *)

\* An occurrence that is kept stays, and one that is wanted stays wanted.
StaysWanted(o) ==
  /\ occ[o].status # "none" => occ'[o].status # "none"
  /\ Active(o) => Active(o)'

LEMMA FitPersists ==
  ASSUME Inductive, NEW o \in Time, NEW c \in Channel, row'[o][c] = row[o][c],
         StaysWanted(o), now' \in Nat, now <= now', enabled' = enabled
  PROVE  RowFits(o, c)'
<1>1. RowFits(o, c) /\ now \in Nat /\ o \in Nat
  BY Bounds DEF Inductive, RowsFit, TicksTyped
<1> QED
  BY <1>1 DEF RowFits, StaysWanted

\* A step of the messenger's, or one that leaves the messenger's rows alone.
LEMMA ToldPersists ==
  ASSUME Inductive, enabled' = enabled,
         \A o \in Time :
           /\ Advances(o) /\ StaysWanted(o)
           /\ row'[o]["im"].suppressed = row[o]["im"].suppressed
           /\ row'[o]["im"].status = "delivered" <=> row[o]["im"].status = "delivered"
  PROVE  Told'
<1>1. UnsentIsWanted /\ DeliveryIsRetained /\ DeliveredWasTaken
  BY DEF Inductive, Told
<1>2. UnsentIsWanted'
  BY <1>1 DEF UnsentIsWanted, Stopped, Advances, StaysWanted
<1>3. DeliveryIsRetained'
  BY <1>1 DEF UnsentIsWanted, DeliveryIsRetained, Stopped, Advances
<1>4. DeliveredWasTaken'
  BY <1>1 DEF DeliveredWasTaken, Advances
<1> QED
  BY <1>2, <1>3, <1>4 DEF Told

\* A step that changes neither the schedule nor its rows.
LEMMA RowsStutter ==
  ASSUME Inductive, UNCHANGED <<item, occ, row, enabled>>, now' \in 0..MaxTime, now <= now'
  PROVE  ScheduleTyped' /\ RowsFit' /\ \A o \in Time : StaysWanted(o)
<1>1. \A o \in Time : StaysWanted(o)
  BY DEF StaysWanted, Active
<1>2. RowsFit'
  BY <1>1, Bounds, FitPersists DEF RowsFit
<1> QED
  BY <1>1, <1>2 DEF Inductive, ScheduleTyped

\* A step of the messenger's.
LEMMA MessengerSteps ==
  ASSUME Inductive, OutboxInv', \A o \in Time : Advances(o),
         UNCHANGED <<itemVars, row, tickVars, enabled, crashes>>,
         operations' \in 0..MaxOperations
  PROVE  Inductive'
<1>1. now \in Nat /\ now' = now /\ now' \in 0..MaxTime /\ TicksTyped'
  BY Bounds DEF Inductive, TicksTyped, itemVars, tickVars
<1>2. ScheduleTyped' /\ RowsFit' /\ \A o \in Time : StaysWanted(o)
  BY <1>1, RowsStutter DEF itemVars
<1>3. Told'
  BY <1>2, ToldPersists
<1>4. UnderWay' /\ BatchIsPending'
  BY DEF Inductive, UnderWay, SendingIsCurrent, ProcessingIsUnderWay, BatchIsPending, Active,
         itemVars, tickVars
<1> QED
  BY <1>1, <1>2, <1>3, <1>4 DEF Inductive

\* An outbox that is left alone.
LEMMA OutboxRests ==
  ASSUME Inductive, UNCHANGED outboxVars
  PROVE  OutboxInv' /\ \A o \in Time : Advances(o)
  BY OutboxStutters DEF Inductive, Advances, outboxVars, Unsettled

-----------------------------------------------------------------------------
(* Stopping a reminder.                                                    *)

\* A row that is stopped is done, or suppressed.
LEMMA SuppressedRows ==
  ASSUME Inductive, NEW o \in Time, NEW c \in Channel
  PROVE  /\ SuppressedRow(o, c) \in Notice
         /\ SuppressedRow(o, c).attempts = row[o][c].attempts
         /\ \/ SuppressedRow(o, c).status = row[o][c].status
            \/ /\ c = "im" /\ row[o][c].status # "none"
               /\ SuppressedRow(o, c).status = "delivered" /\ outbox[o].status = "delivered"
         /\ SuppressedRow(o, c).status \notin {"none", "delivered"}
              => SuppressedRow(o, c).suppressed
         /\ row[o][c].suppressed => SuppressedRow(o, c).suppressed
         /\ row[o][c].status = "none" => SuppressedRow(o, c) = row[o][c]
         /\ c = "im" /\ row[o][c].status # "none" /\ outbox[o].status = "delivered"
              => SuppressedRow(o, c).status = "delivered"
<1>1. row[o][c] \in Notice
  BY DEF Inductive, ScheduleTyped
<1> QED
  BY <1>1 DEF SuppressedRow, Suppress, Notice

\* The same of what the invariant says of the row.
LEMMA SuppressedFits ==
  ASSUME Inductive, NEW o \in Time, NEW c \in Channel, row'[o][c] = SuppressedRow(o, c),
         occ[o].status # "none" => occ'[o].status # "none", now' = now
  PROVE  RowFits(o, c)'
<1>1. RowFits(o, c)
  BY DEF Inductive, RowsFit
<1>2. /\ row'[o][c].attempts = row[o][c].attempts
      /\ row'[o][c].status = row[o][c].status \/ row'[o][c].status = "delivered"
      /\ row'[o][c].status \notin {"none", "delivered"} => row'[o][c].suppressed
      /\ row[o][c].status = "none" => row'[o][c] = row[o][c]
      /\ row'[o][c].status # "none" => row[o][c].status # "none"
  BY SuppressedRows
<1> QED
  BY <1>1, <1>2 DEF RowFits

\* What stopping the occurrences of S leaves of the rows and of the outbox.
LEMMA SuppressKeeps ==
  ASSUME Inductive, NEW S \in SUBSET Time, SuppressOccurrences(S),
         UNCHANGED <<restOutbox, now, enabled>>,
         \A o \in Time : occ[o].status # "none" => occ'[o].status # "none",
         \A o \in Time \ S : StaysWanted(o)
  PROVE  row' \in [Time -> [Channel -> Notice]] /\ OutboxInv' /\ RowsFit' /\ Told'
<1>1. /\ \A o \in Time, c \in Channel :
           row'[o][c] = IF o \in S THEN SuppressedRow(o, c) ELSE row[o][c]
      /\ row' = [o \in Time |-> [c \in Channel |->
           IF o \in S THEN SuppressedRow(o, c) ELSE row[o][c]]]
      /\ outbox' = Abandon(outbox, S)
  BY DEF SuppressOccurrences
<1>2. row' \in [Time -> [Channel -> Notice]]
  BY <1>1, SuppressedRows DEF Inductive, ScheduleTyped
<1>3. OutboxInv' /\ outbox \in [Message -> Row]
  <2>1. /\ UNCHANGED <<flight, receipts, taken, binding, bound, gate>>
        /\ outbox \in [Message -> Row]
    BY DEF restOutbox, Inductive, OutboxInv, OutboxTypeOK, Row
  <2> QED
    BY <1>1, <2>1, AbandonStays DEF Inductive
<1>4. now \in Nat /\ now' = now
  BY DEF Inductive, TicksTyped
<1>5. RowsFit'
  <2> SUFFICES ASSUME NEW o \in Time, NEW c \in Channel PROVE RowFits(o, c)'
    BY DEF RowsFit
  <2>1. CASE o \in S
    BY <1>1, <1>4, <2>1, SuppressedFits
  <2>2. CASE o \notin S
    BY <1>1, <1>4, <2>2, FitPersists
  <2> QED
    BY <2>1, <2>2
<1>6. \A o \in Time : /\ outbox'[o] = outbox[o] \/ outbox'[o].status = "abandoned"
                      /\ o \in S => ~Unsettled(outbox'[o])
  BY <1>1, <1>3, Bounds, Abandoned
<1>7. \A o \in S :
        /\ row[o]["im"].status = "delivered" => row'[o]["im"].status = "delivered"
        /\ row'[o]["im"].status = "delivered"
             => row[o]["im"].status = "delivered" \/ outbox[o].status = "delivered"
        /\ outbox[o].status = "delivered"
             => row'[o]["im"].status = "delivered" \/ ~row'[o]["im"].suppressed
  <2> SUFFICES ASSUME NEW o \in S
               PROVE  /\ row[o]["im"].status = "delivered" => row'[o]["im"].status = "delivered"
                      /\ row'[o]["im"].status = "delivered"
                           => row[o]["im"].status = "delivered" \/ outbox[o].status = "delivered"
                      /\ outbox[o].status = "delivered"
                           => row'[o]["im"].status = "delivered" \/ ~row'[o]["im"].suppressed
    OBVIOUS
  <2>1. row'[o]["im"] = SuppressedRow(o, "im") /\ o \in Time /\ "im" \in Channel
    BY <1>1 DEF Channel
  <2>2. row[o]["im"].status = "none" => ~row[o]["im"].suppressed
    BY <2>1 DEF Inductive, RowsFit, RowFits, Absent
  <2> QED
    BY <2>1, <2>2, SuppressedRows
<1>8. \A o \in Time : outbox[o].status = "delivered" => taken[o] # {}
  BY Bounds, DeliveredIsTaken DEF Inductive
<1>9. \A o \in Time \ S : row'[o]["im"] = row[o]["im"]
  BY <1>1 DEF Channel
<1>10. UnsentIsWanted'
  BY <1>6, <1>9 DEF Inductive, Told, UnsentIsWanted, Stopped, StaysWanted, Unsettled
<1>11. DeliveryIsRetained'
  BY <1>6, <1>7, <1>9 DEF Inductive, Told, DeliveryIsRetained
<1>12. DeliveredWasTaken'
  BY <1>7, <1>8, <1>9 DEF Inductive, Told, DeliveredWasTaken, restOutbox
<1> QED
  BY <1>2, <1>3, <1>5, <1>10, <1>11, <1>12 DEF Told

\* The desktop notifications of the reminders that are stopped stay under way.
LEMMA SuppressUnderWay ==
  ASSUME Inductive, NEW S \in SUBSET Time, SuppressOccurrences(S),
         UNCHANGED <<sending, recover>>, item'.revision = item.revision \/ S = Time
  PROVE  UnderWay'
<1>1. \A o \in Time, c \in Channel :
        row'[o][c] = IF o \in S THEN SuppressedRow(o, c) ELSE row[o][c]
  BY DEF SuppressOccurrences
<1>2. \A o \in S :
        /\ row[o]["desktop"].status = "processing" =>
             row'[o]["desktop"].status = "processing" /\ row'[o]["desktop"].suppressed
        /\ row[o]["desktop"].suppressed => row'[o]["desktop"].suppressed
  <2> SUFFICES ASSUME NEW o \in S
               PROVE  /\ row[o]["desktop"].status = "processing" =>
                           /\ row'[o]["desktop"].status = "processing"
                           /\ row'[o]["desktop"].suppressed
                      /\ row[o]["desktop"].suppressed => row'[o]["desktop"].suppressed
    OBVIOUS
  <2>1. row'[o]["desktop"] = SuppressedRow(o, "desktop") /\ "desktop" \in Channel /\ o \in Time
    BY <1>1 DEF Channel
  <2> QED
    BY <2>1, SuppressedRows
<1>3. \A s \in sending : s[1] \in Time /\ "desktop" \in Channel
  BY DEF Inductive, TicksTyped, Channel
<1>4. SendingIsCurrent'
  BY <1>1, <1>2, <1>3 DEF Inductive, UnderWay, SendingIsCurrent
<1>5. ProcessingIsUnderWay'
  <2> SUFFICES ASSUME NEW o \in Time, NEW c \in Channel,
                      row'[o][c].status = "processing", ~row'[o][c].suppressed
               PROVE  recover \/ \E revision \in 0..MaxRevision : <<o, revision>> \in sending
    BY DEF ProcessingIsUnderWay
  <2>1. o \notin S
    BY <1>1, SuppressedRows
  <2> QED
    BY <1>1, <2>1 DEF Inductive, UnderWay, ProcessingIsUnderWay
<1> QED
  BY <1>4, <1>5 DEF UnderWay

-----------------------------------------------------------------------------
(* The service.                                                            *)

\* Creating an occurrence changes one that was not there or was cancelled.
LEMMA CreatedOccurrences ==
  ASSUME NEW occs \in [Time -> Occurrence], NEW due, NEW copy \in BOOLEAN
  PROVE  /\ Created(occs, due, copy) \in [Time -> Occurrence]
         /\ \A o \in Time :
              \/ Created(occs, due, copy)[o] = occs[o]
              \/ /\ o = due /\ Created(occs, due, copy)[o].status = "scheduled"
                 /\ occs[o].status = "none" \/ (occs[o].status = "cancelled" /\ due > now)
  BY DEF Created, Occurrence

\* Cancelling the occurrences to come keeps every one of them.
LEMMA CancelledOccurrences ==
  ASSUME Inductive
  PROVE  /\ Cancelled(occ) \in [Time -> Occurrence]
         /\ \A o \in Time : occ[o].status # "none" => Cancelled(occ)[o].status # "none"
  BY DEF Inductive, ScheduleTyped, Cancelled, Occurrence

\* An operation of the user that stops the occurrences of S.
LEMMA StopKeeps ==
  ASSUME Inductive, batch = {}, NEW S \in SUBSET Time, SuppressOccurrences(S),
         UNCHANGED unchangedByService, operations' \in 0..MaxOperations,
         item' \in Item, occ' \in [Time -> Occurrence],
         item'.revision = item.revision \/ S = Time,
         \A o \in Time : occ[o].status # "none" => occ'[o].status # "none",
         \A o \in Time \ S : StaysWanted(o)
  PROVE  Inductive'
<1>1. UNCHANGED <<restOutbox, now, enabled, batch, sending, recover, crashes>>
  BY DEF unchangedByService, tickVars
<1>2. row' \in [Time -> [Channel -> Notice]] /\ OutboxInv' /\ RowsFit' /\ Told'
  BY <1>1, SuppressKeeps
<1>3. UnderWay'
  BY <1>1, SuppressUnderWay
<1>4. TicksTyped' /\ BatchIsPending'
  BY <1>1 DEF Inductive, TicksTyped, BatchIsPending
<1> QED
  BY <1>2, <1>3, <1>4 DEF Inductive, ScheduleTyped

LEMMA OperateBounded ==
  ASSUME Inductive, Operate
  PROVE  operations' \in 0..MaxOperations
  BY Bounds DEF Inductive, TicksTyped, Operate

LEMMA UpdateKeeps ==
  ASSUME Inductive, batch = {}, Operate, NEW start \in Time, Update(start)
  PROVE  Inductive'
<1>1. /\ SuppressOccurrences(Time) /\ UNCHANGED unchangedByService
      /\ item' = [item EXCEPT !.revision = @ + 1, !.start = start]
      /\ item.revision < MaxRevision
      /\ occ' = Created(Cancelled(occ), start - Lead, FALSE)
  BY DEF Update
<1>2. item' \in Item
  <2>1. item \in Item /\ start \in Nat
    BY Bounds DEF Inductive, ScheduleTyped
  <2>2. item.revision + 1 \in 0..MaxRevision
    BY <1>1, <2>1, Bounds DEF Item
  <2> QED
    BY <1>1, <2>1, <2>2 DEF Item
<1>3. /\ occ' \in [Time -> Occurrence]
      /\ \A o \in Time : occ[o].status # "none" => occ'[o].status # "none"
  BY <1>1, CancelledOccurrences, CreatedOccurrences
<1> QED
  BY <1>1, <1>2, <1>3, OperateBounded, StopKeeps

LEMMA CloseKeeps ==
  ASSUME Inductive, batch = {}, Operate, NEW status \in {"completed", "cancelled"},
         Close(status)
  PROVE  Inductive'
<1>1. /\ SuppressOccurrences(Time) /\ UNCHANGED unchangedByService
      /\ item' = [item EXCEPT !.status = status] /\ occ' = Cancelled(occ)
  BY DEF Close
<1>2. item' \in Item
  BY <1>1 DEF Inductive, ScheduleTyped, Item
<1> QED
  BY <1>1, <1>2, CancelledOccurrences, OperateBounded, StopKeeps

LEMMA SnoozeKeeps ==
  ASSUME Inductive, batch = {}, Operate, NEW o \in Time, NEW at \in Time, Snooze(o, at)
  PROVE  Inductive'
<1> DEFINE away == [occ EXCEPT ![o].status = "snoozed"]
<1>1. /\ SuppressOccurrences({o}) /\ UNCHANGED <<unchangedByService, item>>
      /\ occ' = Created(away, at, TRUE) /\ occ[at].status = "none"
  BY DEF Snooze
<1>2. /\ away \in [Time -> Occurrence]
      /\ away[o].status = "snoozed"
      /\ \A p \in Time : p # o => away[p] = occ[p]
  BY DEF Inductive, ScheduleTyped, Occurrence
<1> HIDE DEF away
<1>3. /\ occ' \in [Time -> Occurrence]
      /\ \A p \in Time : occ'[p] = away[p] \/ (occ'[p].status = "scheduled" /\ p = at)
  <2>1. /\ Created(away, at, TRUE) \in [Time -> Occurrence]
        /\ \A p \in Time :
             \/ Created(away, at, TRUE)[p] = away[p]
             \/ p = at /\ Created(away, at, TRUE)[p].status = "scheduled"
    BY <1>2 DEF Created, Occurrence
  <2> QED
    BY <1>1, <2>1
<1>4. \A p \in Time : occ[p].status # "none" => occ'[p].status # "none"
  BY <1>2, <1>3
<1>5. \A p \in Time \ {o} : StaysWanted(p)
  BY <1>1, <1>2, <1>3, <1>4 DEF StaysWanted, Active
<1>6. item' = item /\ item \in Item
  BY <1>1 DEF Inductive, ScheduleTyped
<1> QED
  BY <1>1, <1>3, <1>4, <1>5, <1>6, OperateBounded, StopKeeps

LEMMA AcknowledgeItemKeeps ==
  ASSUME Inductive, batch = {}, Operate, NEW o \in Time, Acknowledge(o)
  PROVE  Inductive'
<1>1. /\ SuppressOccurrences({o}) /\ UNCHANGED <<unchangedByService, item>>
      /\ occ' = [occ EXCEPT ![o].acked = TRUE]
  BY DEF Acknowledge
<1>2. /\ occ' \in [Time -> Occurrence]
      /\ \A p \in Time : occ'[p].status = occ[p].status
      /\ \A p \in Time \ {o} : occ'[p] = occ[p]
  BY <1>1 DEF Inductive, ScheduleTyped, Occurrence
<1>3. \A p \in Time \ {o} : StaysWanted(p)
  BY <1>1, <1>2 DEF StaysWanted, Active
<1>4. item' = item /\ item \in Item
  BY <1>1 DEF Inductive, ScheduleTyped
<1> QED
  BY <1>1, <1>2, <1>3, <1>4, OperateBounded, StopKeeps

\* The messenger's row of a retried reminder is opened again.
LEMMA ReopenedKeeps ==
  ASSUME OutboxInv, NEW o \in Message, outbox[o].status = "failed",
         outbox' = [outbox EXCEPT ![o].status = "pending", ![o].attempts = 0],
         UNCHANGED <<flight, receipts, taken, binding, bound, gate>>
  PROVE  OutboxInv' /\ \A m \in Message : Advances(m)
<1>1. outbox \in [Message -> Row] /\ 0 \in 0..MaxClaims
  BY OutboxAssumption DEF OutboxInv, OutboxTypeOK, Row
<1>2. /\ outbox' \in [Message -> Row]
      /\ \A m \in Message : m # o => outbox'[m] = outbox[m]
      /\ outbox'[o].status = "pending" /\ outbox'[o].generation = outbox[o].generation
  BY <1>1 DEF Row
<1>3. \A m \in Message : Advances(m)
  BY <1>2 DEF Advances, Unsettled
<1>4. UnsettledIsCurrent'
  BY <1>2 DEF OutboxInv, UnsettledIsCurrent, Unsettled, Current
<1>5. DeliveredInFull'
  BY <1>2 DEF OutboxInv, DeliveredInFull, PartsOf
<1>6. ReceiptsAreOfTaken' /\ SendsFirstUnsent' /\ AnswerIsOfTaken'
  BY DEF OutboxInv, ReceiptsAreOfTaken, SendsFirstUnsent, AnswerIsOfTaken, FirstUnsent, PartsOf
<1>7. OutboxTypeOK'
  BY <1>2 DEF OutboxInv, OutboxTypeOK, Row
<1> QED
  BY <1>3, <1>4, <1>5, <1>6, <1>7 DEF OutboxInv

LEMMA RetryKeeps ==
  ASSUME Inductive, batch = {}, Operate, NEW o \in Time, NEW c \in Channel,
         RetryNotification(o, c)
  PROVE  Inductive'
<1>1. /\ row[o][c].status = "failed" /\ ~row[o][c].suppressed /\ Active(o)
      /\ row' = [row EXCEPT ![o][c] = Fresh]
      /\ occ' = [occ EXCEPT ![o].status = "scheduled"]
      /\ UNCHANGED <<restOutbox, now, sending, recover, batch, enabled, crashes, item>>
  BY DEF RetryNotification, unchangedByService, tickVars
<1>2. OutboxInv' /\ \A m \in Time : Advances(m)
  <2>1. CASE c = "im" /\ outbox[o].status = "failed"
    BY <1>1, <2>1, Bounds, ReopenedKeeps DEF RetryNotification, restOutbox, Inductive
  <2>2. CASE ~(c = "im" /\ outbox[o].status = "failed")
    BY <1>1, <2>2, OutboxRests DEF RetryNotification, restOutbox, outboxVars
  <2> QED
    BY <2>1, <2>2
<1>3. /\ row' \in [Time -> [Channel -> Notice]] /\ row'[o][c] = Fresh
      /\ \A p \in Time, d \in Channel : p # o \/ d # c => row'[p][d] = row[p][d]
  BY <1>1, Bounds DEF Inductive, ScheduleTyped
<1>4. /\ occ' \in [Time -> Occurrence] /\ occ'[o].status = "scheduled"
      /\ occ'[o].acked = occ[o].acked
      /\ \A p \in Time : p # o => occ'[p] = occ[p]
  BY <1>1 DEF Inductive, ScheduleTyped, Occurrence
<1>5. \A p \in Time : StaysWanted(p) /\ Active(o)'
  BY <1>1, <1>4 DEF StaysWanted, Active
<1>6. now' = now /\ now \in Nat
  BY <1>1 DEF Inductive, TicksTyped
<1>7. RowsFit'
  <2> SUFFICES ASSUME NEW p \in Time, NEW d \in Channel PROVE RowFits(p, d)'
    BY DEF RowsFit
  <2>1. CASE p # o \/ d # c
    BY <1>1, <1>3, <1>5, <1>6, <2>1, FitPersists
  <2>2. CASE p = o /\ d = c
    <3>1. RowFits(o, c)
      BY DEF Inductive, RowsFit
    <3> QED
      BY <1>1, <1>3, <1>4, <1>5, <2>2, <3>1, Bounds DEF RowFits, Fresh
  <2> QED
    BY <2>1, <2>2
<1>8. Told'
  <2>1. \A p \in Time : /\ row'[p]["im"].suppressed = row[p]["im"].suppressed
                        /\ row'[p]["im"].status = "delivered" <=> row[p]["im"].status = "delivered"
    <3> SUFFICES ASSUME NEW p \in Time
                 PROVE  /\ row'[p]["im"].suppressed = row[p]["im"].suppressed
                        /\ row'[p]["im"].status = "delivered" <=> row[p]["im"].status = "delivered"
      OBVIOUS
    <3>1. CASE p = o /\ c = "im"
      <4>1. row[p]["im"].suppressed = FALSE
        BY <1>1, <3>1 DEF Inductive, ScheduleTyped, Notice
      <4> QED
        BY <1>1, <1>3, <3>1, <4>1 DEF Fresh
    <3>2. CASE ~(p = o /\ c = "im")
      BY <1>3, <3>2 DEF Channel
    <3> QED
      BY <3>1, <3>2
  <2> QED
    BY <1>1, <1>2, <1>5, <2>1, ToldPersists
<1>9. UnderWay'
  <2>1. \A s \in sending : s[1] \in Time /\ "desktop" \in Channel
    BY DEF Inductive, TicksTyped, Channel
  <2>2. \A s \in sending : row'[s[1]]["desktop"] = row[s[1]]["desktop"]
    BY <1>1, <1>3, <2>1 DEF Inductive, UnderWay, SendingIsCurrent
  <2>3. SendingIsCurrent'
    BY <1>1, <2>2 DEF Inductive, UnderWay, SendingIsCurrent
  <2>4. \A p \in Time, d \in Channel :
          row'[p][d].status = "processing" => row'[p][d] = row[p][d]
    BY <1>3 DEF Fresh
  <2>5. ProcessingIsUnderWay'
    BY <1>1, <2>4 DEF Inductive, UnderWay, ProcessingIsUnderWay
  <2> QED
    BY <2>3, <2>5 DEF UnderWay
<1>10. TicksTyped' /\ BatchIsPending'
  BY <1>1, OperateBounded DEF Inductive, TicksTyped, BatchIsPending
<1> QED
  BY <1>1, <1>2, <1>3, <1>4, <1>7, <1>8, <1>9, <1>10 DEF Inductive, ScheduleTyped

LEMMA SetEnabledKeeps ==
  ASSUME Inductive, batch = {}, Operate, NEW on \in BOOLEAN, SetEnabled(on)
  PROVE  Inductive'
<1>1. /\ enabled' = on /\ UNCHANGED <<restOutbox, now, item, occ, batch, sending, recover, crashes>>
      /\ outbox' = Abandon(outbox, IF on THEN Stopped ELSE Time)
  BY DEF SetEnabled, itemVars, tickVars
<1>2. \A o \in Time, c \in Channel :
        row'[o][c] = IF ~on /\ c = "im" THEN SuppressedRow(o, c) ELSE row[o][c]
  BY DEF SetEnabled, Inductive, ScheduleTyped, Channel
<1>3. row' \in [Time -> [Channel -> Notice]]
  <2>1. CASE on
    BY <2>1 DEF SetEnabled, Inductive, ScheduleTyped
  <2>2. CASE ~on
    <3>1. \A o \in Time : SuppressedRow(o, "im") \in Notice
      BY SuppressedRows DEF Channel
    <3> QED
      BY <2>2, <3>1 DEF SetEnabled, Inductive, ScheduleTyped
  <2> QED
    BY <2>1, <2>2
<1>4. OutboxInv' /\ outbox \in [Message -> Row]
  <2>1. /\ UNCHANGED <<flight, receipts, taken, binding, bound, gate>>
        /\ outbox \in [Message -> Row]
    BY <1>1 DEF restOutbox, Inductive, OutboxInv, OutboxTypeOK, Row
  <2> QED
    BY <1>1, <2>1, AbandonStays DEF Inductive
<1>5. \A o \in Time : /\ outbox'[o] = outbox[o] \/ outbox'[o].status = "abandoned"
                      /\ Unsettled(outbox'[o]) => on /\ o \notin Stopped
  BY <1>1, <1>4, Bounds, Abandoned
<1>6. RowsFit'
  <2> SUFFICES ASSUME NEW o \in Time, NEW c \in Channel PROVE RowFits(o, c)'
    BY DEF RowsFit
  <2>1. CASE ~on /\ c = "im"
    BY <1>1, <1>2, <2>1, SuppressedFits
  <2>2. CASE on \/ c # "im"
    <3>1. row'[o][c] = row[o][c] /\ RowFits(o, c)
      BY <1>2, <2>2 DEF Inductive, RowsFit
    <3> QED
      BY <1>1, <2>2, <3>1 DEF RowFits, Active
  <2> QED
    BY <2>1, <2>2
<1>7. UnsentIsWanted'
  <2> SUFFICES ASSUME NEW o \in Time, Unsettled(outbox'[o]) PROVE o \notin Stopped'
    BY DEF UnsentIsWanted
  <2>1. on /\ o \notin Stopped /\ row'[o]["im"] = row[o]["im"]
    BY <1>2, <1>5 DEF Channel
  <2> QED
    BY <1>1, <2>1 DEF Stopped, Active
<1>8. \A o \in Time :
        /\ outbox[o].status = "delivered"
             => row'[o]["im"].status = "delivered" \/ ~row'[o]["im"].suppressed
        /\ row'[o]["im"].status = "delivered"
             => row[o]["im"].status = "delivered" \/ outbox[o].status = "delivered"
  <2> SUFFICES ASSUME NEW o \in Time
               PROVE  /\ outbox[o].status = "delivered"
                           => row'[o]["im"].status = "delivered" \/ ~row'[o]["im"].suppressed
                      /\ row'[o]["im"].status = "delivered"
                           => row[o]["im"].status = "delivered" \/ outbox[o].status = "delivered"
    OBVIOUS
  <2>1. "im" \in Channel /\ (row[o]["im"].status = "none" => ~row[o]["im"].suppressed)
    BY DEF Inductive, RowsFit, RowFits, Absent, Channel
  <2>2. CASE ~on
    BY <1>2, <2>1, <2>2, SuppressedRows
  <2>3. CASE on
    BY <1>2, <2>1, <2>3 DEF Inductive, Told, DeliveryIsRetained
  <2> QED
    BY <2>2, <2>3
<1>9. DeliveryIsRetained'
  BY <1>5, <1>8 DEF DeliveryIsRetained
<1>10. DeliveredWasTaken'
  <2>1. \A o \in Time : outbox[o].status = "delivered" => taken[o] # {}
    BY Bounds, DeliveredIsTaken DEF Inductive
  <2> QED
    BY <1>1, <1>8, <2>1 DEF Inductive, Told, DeliveredWasTaken, restOutbox
<1>11. UnderWay'
  <2>1. \A s \in sending : s[1] \in Time /\ "desktop" \in Channel
    BY DEF Inductive, TicksTyped, Channel
  <2>2. SendingIsCurrent'
    BY <1>1, <1>2, <2>1 DEF Inductive, UnderWay, SendingIsCurrent
  <2>3. \A p \in Time, d \in Channel :
          row'[p][d].status = "processing" /\ ~row'[p][d].suppressed => row'[p][d] = row[p][d]
    BY <1>2, SuppressedRows
  <2>4. ProcessingIsUnderWay'
    BY <1>1, <2>3 DEF Inductive, UnderWay, ProcessingIsUnderWay
  <2> QED
    BY <2>2, <2>4 DEF UnderWay
<1>12. TicksTyped' /\ BatchIsPending' /\ ScheduleTyped'
  BY <1>1, <1>3, OperateBounded DEF Inductive, TicksTyped, BatchIsPending, ScheduleTyped
<1> QED
  BY <1>4, <1>6, <1>7, <1>9, <1>10, <1>11, <1>12 DEF Inductive, Told

LEMMA ServiceKeeps ==
  ASSUME Inductive, batch = {}, Service
  PROVE  Inductive'
  BY UpdateKeeps, CloseKeeps, SnoozeKeeps, AcknowledgeItemKeeps, RetryKeeps, SetEnabledKeeps
     DEF Service

-----------------------------------------------------------------------------
(* The tick.                                                               *)

\* The first tick after a start offers again what was being processed.
LEMMA RequeuedRows ==
  ASSUME Inductive, NEW o \in Time, NEW c \in Channel
  PROVE  /\ Requeued[o][c] \in Notice
         /\ recover => Requeued[o][c].status # "processing"
         /\ \/ Requeued[o][c] = row[o][c]
            \/ /\ row[o][c].status = "processing" /\ Requeued[o][c].status = "pending"
               /\ Requeued[o][c].attempts = row[o][c].attempts
               /\ Requeued[o][c].suppressed = row[o][c].suppressed
<1>1. row[o][c] \in Notice
  BY DEF Inductive, ScheduleTyped
<1> QED
  BY <1>1 DEF Requeued, Notice

\* Only an occurrence that has no rows is fanned out.
LEMMA TickRows ==
  ASSUME Inductive, Tick
  PROVE  /\ row' \in [Time -> [Channel -> Notice]]
         /\ \A o \in Time, c \in Channel :
              \/ row'[o][c] = row[o][c] /\ (recover => row[o][c].status # "processing")
              \/ /\ row[o][c].status = "processing" /\ row'[o][c].status = "pending"
                 /\ row'[o][c].attempts = row[o][c].attempts
                 /\ row'[o][c].suppressed = row[o][c].suppressed
              \/ /\ o \in Due /\ row[o][c] = Absent /\ row'[o][c] = Fresh
                 /\ c = "im" => enabled
<1>1. row' = [o \in Time |-> IF o \in Due THEN FanOut(Requeued, o) ELSE Requeued[o]]
  BY DEF Tick
<1>2. Requeued \in [Time -> [Channel -> Notice]]
  <2>1. CASE recover
    BY <2>1, RequeuedRows DEF Requeued, Inductive, ScheduleTyped
  <2>2. CASE ~recover
    BY <2>2 DEF Requeued, Inductive, ScheduleTyped
  <2> QED
    BY <2>1, <2>2
<1>3. \A o \in Time : FanOut(Requeued, o) \in [Channel -> Notice]
  BY <1>2, Bounds DEF FanOut
<1>4. row' \in [Time -> [Channel -> Notice]]
  BY <1>1, <1>2, <1>3
<1>5. ASSUME NEW o \in Time, NEW c \in Channel
      PROVE  \/ row'[o][c] = Requeued[o][c]
             \/ /\ o \in Due /\ Requeued[o][c] = Absent /\ row'[o][c] = Fresh
                /\ c = "im" => enabled
  BY <1>1 DEF FanOut
<1>6. ASSUME NEW o \in Time, NEW c \in Channel, Requeued[o][c] = Absent
      PROVE  row[o][c] = Absent
  BY <1>6, RequeuedRows DEF Absent
<1> QED
  BY <1>4, <1>5, <1>6, RequeuedRows

LEMMA TickKeeps ==
  ASSUME Inductive, Tick
  PROVE  Inductive'
<1>1. /\ batch = {} /\ sending = {} /\ recover' = FALSE
      /\ UNCHANGED <<outboxVars, now, item, sending, enabled, operations, crashes>>
      /\ occ' = [o \in Time |-> IF o \in Due THEN [occ[o] EXCEPT !.status = "processing"]
                                ELSE occ[o]]
      /\ batch' \subseteq {oc \in Time \X Channel : row'[oc[1]][oc[2]].status = "pending"}
  BY DEF Tick
<1>2. /\ occ' \in [Time -> Occurrence]
      /\ \A o \in Time \ Due : occ'[o] = occ[o]
      /\ \A o \in Due : occ'[o].status = "processing" /\ occ'[o].acked = occ[o].acked
  BY <1>1 DEF Inductive, ScheduleTyped, Occurrence, Due
<1>3. \A o \in Time : StaysWanted(o)
  BY <1>1, <1>2 DEF StaysWanted, Active
<1>4. \A o \in Due : Active(o)' /\ o <= now /\ o \in Time
  BY <1>1, <1>2 DEF Due, Active
<1>5. OutboxInv' /\ \A o \in Time : Advances(o)
  BY <1>1, OutboxRests
<1>6. now' = now /\ now \in Nat
  BY <1>1 DEF Inductive, TicksTyped
<1>7. RowsFit'
  <2> SUFFICES ASSUME NEW o \in Time, NEW c \in Channel PROVE RowFits(o, c)'
    BY DEF RowsFit
  <2>1. CASE row'[o][c] = row[o][c]
    BY <1>1, <1>3, <1>6, <2>1, FitPersists
  <2>2. CASE /\ row[o][c].status = "processing" /\ row'[o][c].status = "pending"
             /\ row'[o][c].attempts = row[o][c].attempts
             /\ row'[o][c].suppressed = row[o][c].suppressed
    <3>1. RowFits(o, c)
      BY DEF Inductive, RowsFit
    <3> QED
      BY <1>1, <1>3, <1>6, <2>2, <3>1 DEF RowFits, StaysWanted
  <2>3. CASE o \in Due /\ row'[o][c] = Fresh /\ (c = "im" => enabled)
    <3>1. /\ row'[o][c].status = "pending" /\ row'[o][c].attempts = 0
          /\ row'[o][c].attempts < MaxAttempts /\ row'[o][c].attempts <= MaxAttempts
      BY <2>3, Bounds DEF Fresh
    <3>2. occ'[o].status # "none" /\ o <= now' /\ Active(o)' /\ (c = "im" => enabled')
      BY <1>1, <1>2, <1>4, <2>3
    <3> QED
      BY <3>1, <3>2 DEF RowFits
  <2> QED
    BY <2>1, <2>2, <2>3, TickRows
<1>8. Told'
  <2>1. ASSUME NEW o \in Time
        PROVE  /\ row'[o]["im"].suppressed = row[o]["im"].suppressed
               /\ row'[o]["im"].status = "delivered" <=> row[o]["im"].status = "delivered"
    <3>1. "im" \in Channel /\ row[o]["im"].status # "processing"
      BY DEF Inductive, RowsFit, RowFits, Channel
    <3>2. CASE row'[o]["im"] = row[o]["im"]
      BY <3>2
    <3>3. CASE row[o]["im"] = Absent /\ row'[o]["im"] = Fresh
      BY <3>3 DEF Absent, Fresh
    <3> QED
      BY <3>1, <3>2, <3>3, TickRows
  <2> QED
    BY <1>1, <1>3, <1>5, <2>1, ToldPersists
<1>9. UnderWay'
  <2>1. SendingIsCurrent'
    BY <1>1 DEF SendingIsCurrent
  <2>2. ProcessingIsUnderWay'
    <3> SUFFICES ASSUME NEW o \in Time, NEW c \in Channel,
                        row'[o][c].status = "processing", ~row'[o][c].suppressed
                 PROVE  FALSE
      BY DEF ProcessingIsUnderWay
    <3>1. row'[o][c] = row[o][c] /\ ~recover
      BY TickRows DEF Fresh
    <3> QED
      BY <1>1, <3>1 DEF Inductive, UnderWay, ProcessingIsUnderWay
  <2> QED
    BY <2>1, <2>2 DEF UnderWay
<1>10. BatchIsPending'
  BY <1>1 DEF BatchIsPending
<1>11. TicksTyped' /\ ScheduleTyped'
  <2>1. item' \in Item /\ batch' \subseteq Time \X Channel
    BY <1>1 DEF Inductive, ScheduleTyped
  <2> QED
    BY <1>1, <1>2, <2>1, TickRows DEF Inductive, TicksTyped, ScheduleTyped
<1> QED
  BY <1>5, <1>7, <1>8, <1>9, <1>10, <1>11 DEF Inductive

-----------------------------------------------------------------------------
(* What becomes of a row that is tried.                                    *)

LEMMA DeliveredRows ==
  ASSUME Inductive, NEW o \in Time, NEW c \in Channel, NEW revision,
         Delivered(o, c, revision), row[o][c].attempts < MaxAttempts
  PROVE  /\ row' \in [Time -> [Channel -> Notice]]
         /\ row'[o][c].status = "delivered" /\ row'[o][c].attempts = row[o][c].attempts + 1
         /\ row'[o][c].suppressed = row[o][c].suppressed
         /\ \A p \in Time, d \in Channel : p # o \/ d # c => row'[p][d] = row[p][d]
<1> DEFINE r == [status |-> "delivered", attempts |-> row[o][c].attempts + 1,
                 suppressed |-> row[o][c].suppressed]
<1>1. row \in [Time -> [Channel -> Notice]]
  BY DEF Inductive, ScheduleTyped
<1>2. r \in Notice
  BY <1>1, Bounds DEF Notice
<1>3. row' = [row EXCEPT ![o][c] = r]
  BY <1>1 DEF Delivered, Notice
<1> QED
  BY <1>1, <1>2, <1>3

\* The next occurrence may come, but none of the present ones is revived.
LEMMA DeliveredOccurrences ==
  ASSUME Inductive, NEW o \in Time, NEW c \in Channel, NEW revision,
         Delivered(o, c, revision), UNCHANGED item
  PROVE  /\ occ' \in [Time -> Occurrence]
         /\ \A p \in Time : StaysWanted(p)
         /\ \A p \in Time : occ[p].status # "none" /\ p <= now /\ Active(p)' => Active(p)
<1> DEFINE done == [occ EXCEPT ![o].status = "delivered"]
<1>1. occ \in [Time -> Occurrence] /\ now \in Nat /\ Time \subseteq Nat
  BY Bounds DEF Inductive, ScheduleTyped, TicksTyped
<1>2. CASE occ' = occ
  BY <1>1, <1>2 DEF StaysWanted, Active
<1>3. CASE occ' # occ
  <2>1. /\ item.status = "scheduled" /\ occ[o].status \notin {"snoozed", "cancelled"}
        /\ occ' = WithNext(done, o)
    BY <1>3 DEF Delivered
  <2>2. /\ done \in [Time -> Occurrence] /\ done[o].status = "delivered"
        /\ done[o].acked = occ[o].acked
        /\ \A p \in Time : p # o => done[p] = occ[p]
    BY <1>1 DEF Occurrence
  <2> HIDE DEF done
  <2>3. /\ occ' \in [Time -> Occurrence]
        /\ \A p \in Time :
             \/ occ'[p] = done[p]
             \/ /\ occ'[p].status = "scheduled"
                /\ done[p].status = "none" \/ (done[p].status = "cancelled" /\ p > now)
    <3>1. CASE occ' = done
      BY <2>2, <3>1
    <3>2. CASE occ' = Created(done, o + Interval, FALSE)
      BY <2>2, <3>2 DEF Created, Occurrence
    <3> QED
      BY <2>1, <3>1, <3>2 DEF WithNext
  <2>4. \A p \in Time : StaysWanted(p)
    BY <2>1, <2>2, <2>3 DEF StaysWanted, Active
  <2>5. \A p \in Time : occ[p].status # "none" /\ p <= now /\ Active(p)' => Active(p)
    <3> SUFFICES ASSUME NEW p \in Time, occ[p].status # "none", p <= now, Active(p)'
                 PROVE  Active(p)
      OBVIOUS
    <3>1. CASE p = o
      BY <1>1, <2>1, <2>2, <2>3, <3>1 DEF Active
    <3>2. CASE p # o
      BY <1>1, <2>1, <2>2, <2>3, <3>2 DEF Active
    <3> QED
      BY <3>1, <3>2
  <2> QED
    BY <2>3, <2>4, <2>5
<1> QED
  BY <1>2, <1>3

LEMMA FailedRows ==
  ASSUME Inductive, NEW o \in Time, NEW c \in Channel, NEW revision,
         Failed(o, c, revision), row[o][c].attempts < MaxAttempts
  PROVE  /\ row' \in [Time -> [Channel -> Notice]]
         /\ \A p \in Time, d \in Channel : p # o \/ d # c => row'[p][d] = row[p][d]
         /\ \/ row' = row /\ ~(Active(o) /\ item.revision = revision /\ ~row[o][c].suppressed)
            \/ /\ Active(o) /\ ~row[o][c].suppressed /\ ~row'[o][c].suppressed
               /\ row'[o][c].attempts = row[o][c].attempts + 1
               /\ \/ row'[o][c].status = "failed"
                  \/ row'[o][c].status = "pending" /\ row'[o][c].attempts < MaxAttempts
<1> DEFINE r == [status |-> IF row[o][c].attempts + 1 >= MaxAttempts THEN "failed" ELSE "pending",
                 attempts |-> row[o][c].attempts + 1, suppressed |-> row[o][c].suppressed]
<1>1. row \in [Time -> [Channel -> Notice]]
  BY DEF Inductive, ScheduleTyped
<1>2. r \in Notice
  BY <1>1, Bounds DEF Notice
<1>3. CASE Active(o) /\ item.revision = revision /\ ~row[o][c].suppressed
  <2>1. row' = [row EXCEPT ![o][c] = r]
    BY <1>1, <1>3 DEF Failed, Notice
  <2>2. /\ row' \in [Time -> [Channel -> Notice]] /\ row'[o][c] = r
        /\ \A p \in Time, d \in Channel : p # o \/ d # c => row'[p][d] = row[p][d]
    BY <1>1, <1>2, <2>1
  <2>3. row[o][c].attempts \in Nat
    BY <1>1, Bounds DEF Notice
  <2> QED
    BY <1>3, <2>2, <2>3, Bounds
<1>4. CASE ~(Active(o) /\ item.revision = revision /\ ~row[o][c].suppressed)
  BY <1>1, <1>4 DEF Failed
<1> QED
  BY <1>3, <1>4

\* A row that waits or is being processed is tried, and the others stay.
LEMMA TriedFits ==
  ASSUME Inductive, NEW o \in Time, NEW c \in Channel, NEW revision,
         row[o][c].status \in {"pending", "processing"},
         UNCHANGED <<item, now, enabled>>,
         Delivered(o, c, revision) \/ Failed(o, c, revision)
  PROVE  /\ ScheduleTyped' /\ RowsFit'
         /\ \A p \in Time : StaysWanted(p)
         /\ \A p \in Time : occ[p].status # "none" /\ p <= now /\ Active(p)' => Active(p)
         /\ \A p \in Time, d \in Channel : p # o \/ d # c => row'[p][d] = row[p][d]
         /\ row'[o][c].suppressed = row[o][c].suppressed
<1>1. RowFits(o, c) /\ now \in Nat /\ now' = now /\ row[o][c].attempts \in Nat
      /\ row[o][c].suppressed \in BOOLEAN
  BY DEF Inductive, RowsFit, TicksTyped, ScheduleTyped, Notice
<1>2. row[o][c].attempts < MaxAttempts
  BY <1>1 DEF RowFits
<1>3. /\ row' \in [Time -> [Channel -> Notice]]
      /\ \A p \in Time, d \in Channel : p # o \/ d # c => row'[p][d] = row[p][d]
      /\ row'[o][c].suppressed = row[o][c].suppressed
  BY <1>1, <1>2, DeliveredRows, FailedRows DEF Notice
<1>4. /\ occ' \in [Time -> Occurrence]
      /\ \A p \in Time : StaysWanted(p)
      /\ \A p \in Time : occ[p].status # "none" /\ p <= now /\ Active(p)' => Active(p)
  <2>1. CASE Delivered(o, c, revision)
    BY <2>1, DeliveredOccurrences
  <2>2. CASE Failed(o, c, revision)
    BY <2>2 DEF Failed, StaysWanted, Active, Inductive, ScheduleTyped
  <2> QED
    BY <2>1, <2>2
<1>5. RowFits(o, c)'
  <2>1. occ'[o].status # "none" /\ o <= now
    BY <1>1, <1>4 DEF RowFits, StaysWanted
  <2>2. CASE Delivered(o, c, revision)
    <3>1. row'[o][c].status = "delivered" /\ row'[o][c].attempts = row[o][c].attempts + 1
      BY <1>2, <2>2, DeliveredRows
    <3> QED
      BY <1>1, <1>2, <2>1, <3>1, Bounds DEF RowFits
  <2>3. CASE Failed(o, c, revision) /\ row' = row
    BY <1>1, <1>4, <2>3, FitPersists
  <2>4. CASE Failed(o, c, revision) /\ row' # row
    <3>1. /\ Active(o) /\ ~row[o][c].suppressed /\ ~row'[o][c].suppressed
          /\ row'[o][c].attempts = row[o][c].attempts + 1
          /\ \/ row'[o][c].status = "failed"
             \/ row'[o][c].status = "pending" /\ row'[o][c].attempts < MaxAttempts
      BY <1>2, <2>4, FailedRows
    <3>2. Active(o)' /\ (c = "im" => enabled)
      BY <1>1, <1>4, <3>1 DEF RowFits, StaysWanted
    <3>3. row'[o][c].attempts <= MaxAttempts
      BY <1>1, <1>2, <3>1, Bounds
    <3> QED
      BY <1>1, <2>1, <3>1, <3>2, <3>3 DEF RowFits
  <2> QED
    BY <2>2, <2>3, <2>4
<1>6. RowsFit'
  <2> SUFFICES ASSUME NEW p \in Time, NEW d \in Channel PROVE RowFits(p, d)'
    BY DEF RowsFit
  <2>1. CASE p # o \/ d # c
    BY <1>1, <1>3, <1>4, <2>1, FitPersists
  <2> QED
    BY <1>5, <2>1
<1>7. ScheduleTyped'
  BY <1>3, <1>4 DEF Inductive, ScheduleTyped
<1> QED
  BY <1>3, <1>4, <1>6, <1>7

-----------------------------------------------------------------------------
(* The deliveries of a tick.                                               *)

\* The rows of the batch that are still to be handled wait as before.
LEMMA BatchWaits ==
  ASSUME Inductive, batch' \subseteq batch,
         \A p \in Time : occ[p].status # "none" /\ p <= now /\ Active(p)' => Active(p),
         \A p \in Time, d \in Channel : <<p, d>> \in batch' => row'[p][d] = row[p][d]
  PROVE  BatchIsPending'
<1> SUFFICES ASSUME NEW p \in Time, NEW d \in Channel, <<p, d>> \in batch'
             PROVE  /\ row'[p][d].status # "none"
                    /\ row'[p][d].status = "pending" \/ row'[p][d].suppressed \/ ~Active(p)'
  BY DEF BatchIsPending
<1>1. /\ row'[p][d] = row[p][d] /\ row[p][d].status # "none"
      /\ row[p][d].status = "pending" \/ row[p][d].suppressed \/ ~Active(p)
  BY DEF Inductive, BatchIsPending
<1>2. occ[p].status # "none" /\ p <= now
  BY <1>1 DEF Inductive, RowsFit, RowFits
<1> QED
  BY <1>1, <1>2

LEMMA SkipKeeps ==
  ASSUME Inductive, NEW o \in Time, NEW c \in Channel, batch' = batch \ {<<o, c>>},
         Skip(o, c), UNCHANGED <<restOutbox, now, item, recover, enabled, operations, crashes>>
  PROVE  Inductive'
<1>1. UNCHANGED <<occ, sending>>
  BY DEF Skip
<1>2. /\ \A p \in Time : StaysWanted(p)
      /\ \A p \in Time : Active(p)' => Active(p)
      /\ now' \in 0..MaxTime /\ now <= now'
  BY <1>1 DEF StaysWanted, Active, Inductive, TicksTyped
<1>3. TicksTyped' /\ (row' \in [Time -> [Channel -> Notice]] => ScheduleTyped')
  BY <1>1 DEF Inductive, TicksTyped, ScheduleTyped
<1>4. CASE ~Active(o) /\ SuppressOccurrences({o})
  <2>1. row' \in [Time -> [Channel -> Notice]] /\ OutboxInv' /\ RowsFit' /\ Told'
    BY <1>1, <1>2, <1>4, SuppressKeeps
  <2>2. UnderWay'
    BY <1>1, <1>4, SuppressUnderWay
  <2>3. BatchIsPending'
    <3> SUFFICES ASSUME NEW p \in Time, NEW d \in Channel, <<p, d>> \in batch'
                 PROVE  /\ row'[p][d].status # "none"
                        /\ row'[p][d].status = "pending" \/ row'[p][d].suppressed \/ ~Active(p)'
      BY DEF BatchIsPending
    <3>1. /\ row[p][d].status # "none"
          /\ row[p][d].status = "pending" \/ row[p][d].suppressed \/ ~Active(p)
      BY DEF Inductive, BatchIsPending
    <3>2. row'[p][d] = IF p = o THEN SuppressedRow(p, d) ELSE row[p][d]
      BY <1>4 DEF SuppressOccurrences
    <3>3. row'[p][d].status # "none"
      BY <3>1, <3>2, SuppressedRows
    <3> QED
      BY <1>2, <1>4, <3>1, <3>2, <3>3
  <2> QED
    BY <1>3, <2>1, <2>2, <2>3 DEF Inductive
<1>5. CASE UNCHANGED <<row, outbox>>
  <2>1. ScheduleTyped' /\ RowsFit'
    BY <1>1, <1>2, <1>5, RowsStutter
  <2>2. OutboxInv' /\ \A p \in Time : Advances(p)
    BY <1>5, OutboxRests DEF restOutbox, outboxVars
  <2>3. Told'
    BY <1>2, <1>5, <2>2, ToldPersists
  <2>4. UnderWay'
    BY <1>1, <1>5 DEF Inductive, UnderWay, SendingIsCurrent, ProcessingIsUnderWay
  <2>5. BatchIsPending'
    BY <1>2, <1>5, BatchWaits
  <2> QED
    BY <1>3, <2>1, <2>2, <2>3, <2>4, <2>5 DEF Inductive
<1> QED
  BY <1>4, <1>5 DEF Skip

LEMMA DesktopKeeps ==
  ASSUME Inductive, NEW o \in Time, <<o, "desktop">> \in batch,
         batch' = batch \ {<<o, "desktop">>}, Active(o), ~row[o]["desktop"].suppressed,
         row' = [row EXCEPT ![o]["desktop"].status = "processing"],
         sending' = sending \cup {<<o, item.revision>>},
         UNCHANGED <<outboxVars, occ, now, item, recover, enabled, operations, crashes>>
  PROVE  Inductive'
<1>1. row[o]["desktop"].status = "pending" /\ "desktop" \in Channel
  BY DEF Inductive, BatchIsPending, Channel
<1>2. /\ row' \in [Time -> [Channel -> Notice]]
      /\ row'[o]["desktop"].status = "processing"
      /\ row'[o]["desktop"].attempts = row[o]["desktop"].attempts
      /\ row'[o]["desktop"].suppressed = row[o]["desktop"].suppressed
      /\ \A p \in Time, d \in Channel : p # o \/ d # "desktop" => row'[p][d] = row[p][d]
  <2> DEFINE r == [row[o]["desktop"] EXCEPT !.status = "processing"]
  <2>1. row \in [Time -> [Channel -> Notice]]
    BY DEF Inductive, ScheduleTyped
  <2>2. /\ r \in Notice /\ r.status = "processing"
        /\ r.attempts = row[o]["desktop"].attempts
        /\ r.suppressed = row[o]["desktop"].suppressed
    BY <1>1, <2>1 DEF Notice
  <2>3. row' = [row EXCEPT ![o]["desktop"] = r]
    BY <1>1, <2>1 DEF Notice
  <2> HIDE DEF r
  <2> QED
    BY <1>1, <2>1, <2>2, <2>3
<1>3. /\ \A p \in Time : StaysWanted(p)
      /\ \A p \in Time : Active(p)' => Active(p)
      /\ Active(o)' /\ now' = now /\ now \in Nat
  BY DEF StaysWanted, Active, Inductive, TicksTyped
<1>4. RowsFit'
  <2> SUFFICES ASSUME NEW p \in Time, NEW d \in Channel PROVE RowFits(p, d)'
    BY DEF RowsFit
  <2>1. CASE p # o \/ d # "desktop"
    BY <1>2, <1>3, <2>1, FitPersists
  <2>2. CASE p = o /\ d = "desktop"
    <3>1. RowFits(o, "desktop")
      BY <1>1 DEF Inductive, RowsFit
    <3> QED
      BY <1>1, <1>2, <1>3, <2>2, <3>1 DEF RowFits
  <2> QED
    BY <2>1, <2>2
<1>5. OutboxInv' /\ \A p \in Time : Advances(p)
  BY OutboxRests
<1>6. Told'
  <2>1. \A p \in Time : row'[p]["im"] = row[p]["im"]
    BY <1>2 DEF Channel
  <2> QED
    BY <1>3, <1>5, <2>1, ToldPersists
<1>7. SendingIsCurrent'
  <2>1. \A s \in sending : s[1] \in Time /\ s[1] # o
    BY <1>1 DEF Inductive, TicksTyped, UnderWay, SendingIsCurrent
  <2>2. \A s \in sending : row'[s[1]]["desktop"] = row[s[1]]["desktop"]
    BY <1>1, <1>2, <2>1
  <2> QED
    BY <1>2, <2>1, <2>2 DEF Inductive, UnderWay, SendingIsCurrent
<1>8. item.revision \in 0..MaxRevision
  BY DEF Inductive, ScheduleTyped, Item
<1>9. ProcessingIsUnderWay'
  <2> SUFFICES ASSUME NEW p \in Time, NEW d \in Channel,
                      row'[p][d].status = "processing", ~row'[p][d].suppressed
               PROVE  recover \/ \E revision \in 0..MaxRevision : <<p, revision>> \in sending'
    BY DEF ProcessingIsUnderWay
  <2>1. CASE p = o
    BY <1>8, <2>1
  <2>2. CASE p # o
    BY <1>2, <2>2 DEF Inductive, UnderWay, ProcessingIsUnderWay
  <2> QED
    BY <2>1, <2>2
<1>10. BatchIsPending'
  BY <1>2, <1>3, BatchWaits
<1>11. TicksTyped' /\ ScheduleTyped'
  BY <1>2, <1>8 DEF Inductive, TicksTyped, ScheduleTyped
<1> QED
  BY <1>4, <1>5, <1>6, <1>7, <1>9, <1>10, <1>11 DEF Inductive, UnderWay

\* The in-app channel and the messenger's answer for a row of the batch: the
\* desktop notifications stay under way.
LEMMA TriedKeeps ==
  ASSUME Inductive, NEW o \in Time, NEW c \in Channel, c # "desktop", <<o, c>> \in batch,
         batch' = batch \ {<<o, c>>}, row[o][c].status = "pending",
         UNCHANGED <<now, item, sending, recover, enabled, operations, crashes>>,
         \/ Delivered(o, c, item.revision) /\ (c = "im" => taken[o] # {})
         \/ Failed(o, c, item.revision) /\ (c = "im" => outbox'[o].status # "delivered"),
         OutboxInv', \A p \in Time : p # o \/ c # "im" => Advances(p),
         UNCHANGED taken,
         Unsettled(outbox'[o]) => o \notin Stopped,
         outbox'[o].status = "delivered" => outbox[o].status = "delivered"
  PROVE  Inductive'
<1>1. /\ ScheduleTyped' /\ RowsFit'
      /\ \A p \in Time : StaysWanted(p)
      /\ \A p \in Time : occ[p].status # "none" /\ p <= now /\ Active(p)' => Active(p)
      /\ \A p \in Time, d \in Channel : p # o \/ d # c => row'[p][d] = row[p][d]
      /\ row'[o][c].suppressed = row[o][c].suppressed
  BY TriedFits
<1>2. TicksTyped' /\ BatchIsPending'
  BY <1>1, BatchWaits DEF Inductive, TicksTyped
<1>3. SendingIsCurrent'
  <2>1. \A s \in sending : s[1] \in Time /\ "desktop" \in Channel
    BY DEF Inductive, TicksTyped, Channel
  <2>2. \A s \in sending : row'[s[1]]["desktop"] = row[s[1]]["desktop"]
    BY <1>1, <2>1
  <2> QED
    BY <2>2 DEF Inductive, UnderWay, SendingIsCurrent
<1>4. row'[o][c].status # "processing"
  BY <1>1 DEF RowsFit, RowFits
<1>5. ProcessingIsUnderWay'
  BY <1>1, <1>4 DEF Inductive, UnderWay, ProcessingIsUnderWay
<1>6. \A p \in Time : p # o \/ c # "im" => row'[p]["im"] = row[p]["im"] /\ "im" \in Channel
  BY <1>1 DEF Channel
<1>7. UnsentIsWanted'
  <2> SUFFICES ASSUME NEW p \in Time, Unsettled(outbox'[p]) PROVE p \notin Stopped'
    BY DEF UnsentIsWanted
  <2>1. p \notin Stopped
    BY DEF Inductive, Told, UnsentIsWanted, Advances
  <2>2. row'[p]["im"].suppressed = row[p]["im"].suppressed
    BY <1>1, <1>6
  <2> QED
    BY <1>1, <2>1, <2>2 DEF Stopped, StaysWanted
<1>8. DeliveryIsRetained'
  <2> SUFFICES ASSUME NEW p \in Time, outbox'[p].status = "delivered", row'[p]["im"].suppressed
               PROVE  row'[p]["im"].status = "delivered"
    BY DEF DeliveryIsRetained
  <2>1. CASE p # o \/ c # "im"
    BY <1>6, <2>1 DEF Inductive, Told, DeliveryIsRetained, UnsentIsWanted, Stopped, Advances
  <2>2. CASE p = o /\ c = "im"
    <3>1. row[o][c].attempts < MaxAttempts
      BY DEF Inductive, RowsFit, RowFits
    <3>2. Delivered(o, c, item.revision)
      BY <2>2
    <3> QED
      BY <2>2, <3>1, <3>2, DeliveredRows
  <2> QED
    BY <2>1, <2>2
<1>9. DeliveredWasTaken'
  <2> SUFFICES ASSUME NEW p \in Time, row'[p]["im"].status = "delivered" PROVE taken[p] # {}
    BY DEF DeliveredWasTaken
  <2>1. CASE p # o \/ c # "im"
    BY <1>6, <2>1 DEF Inductive, Told, DeliveredWasTaken
  <2>2. CASE p = o /\ c = "im" /\ Failed(o, c, item.revision)
    <3>1. row[o][c].attempts < MaxAttempts
      BY DEF Inductive, RowsFit, RowFits
    <3> QED
      BY <2>2, <3>1, FailedRows
  <2>3. CASE p = o /\ c = "im" /\ Delivered(o, c, item.revision)
                 /\ ~Failed(o, c, item.revision)
    BY <2>3
  <2> QED
    BY <2>1, <2>2, <2>3
<1> QED
  BY <1>1, <1>2, <1>3, <1>5, <1>7, <1>8, <1>9 DEF Inductive, Told, UnderWay

\* The messenger is asked about a row, which may be enqueued by that.
LEMMA PollKeeps ==
  ASSUME Inductive, NEW o \in Time, NEW target \in BOOLEAN, <<o, "im">> \in batch,
         batch' = batch \ {<<o, "im">>}, Active(o), ~row[o]["im"].suppressed,
         PollIm(o, target),
         UNCHANGED <<restOutbox, now, item, sending, recover, enabled, operations, crashes>>
  PROVE  Inductive'
<1>1. "im" \in Channel /\ row[o]["im"].status = "pending" /\ o \notin Stopped
  <2>1. "im" \in Channel /\ row[o]["im"].status = "pending"
    BY DEF Inductive, BatchIsPending, Channel
  <2>2. enabled
    BY <2>1 DEF Inductive, RowsFit, RowFits
  <2> QED
    BY <2>1, <2>2 DEF Stopped
<1>2. UNCHANGED <<flight, receipts, taken, binding, bound, gate>> /\ o \in Message
  BY Bounds DEF restOutbox
<1>3. \/ outbox' = outbox
      \/ /\ outbox[o].status = "none" /\ bound /\ outbox' = Enqueued(outbox, o, binding)
  BY DEF PollIm
<1>4. OutboxInv'
  BY <1>2, <1>3, EnqueueKeeps, OutboxRests DEF Inductive, outboxVars
<1>5. /\ outbox'[o] = outbox[o] \/ outbox'[o].status = "pending"
      /\ \A p \in Time : p # o => outbox'[p] = outbox[p]
  BY <1>3, Bounds DEF Enqueued, Inductive, OutboxInv, OutboxTypeOK
<1>6. \A p \in Time : p # o => Advances(p)
  BY <1>2, <1>5 DEF Advances
<1>7. \/ outbox'[o].status = "delivered" /\ Delivered(o, "im", item.revision)
      \/ outbox'[o].status # "delivered" /\ Failed(o, "im", item.revision)
      \/ UNCHANGED <<row, occ>>
  BY DEF PollIm, Outcome
<1>8. outbox'[o].status = "delivered" => taken[o] # {} /\ outbox[o].status = "delivered"
  BY <1>2, <1>5, DeliveredIsTaken DEF Inductive
<1>9. CASE \/ outbox'[o].status = "delivered" /\ Delivered(o, "im", item.revision)
           \/ outbox'[o].status # "delivered" /\ Failed(o, "im", item.revision)
  BY <1>1, <1>2, <1>4, <1>6, <1>8, <1>9, TriedKeeps
<1>10. CASE UNCHANGED <<row, occ>>
  <2>1. /\ \A p \in Time : StaysWanted(p)
        /\ \A p \in Time : Active(p)' => Active(p)
        /\ Stopped' = Stopped
    BY <1>10 DEF StaysWanted, Active, Stopped
  <2>2. now' \in 0..MaxTime /\ now <= now'
    BY DEF Inductive, TicksTyped
  <2>3. ScheduleTyped' /\ RowsFit'
    BY <1>10, <2>2, RowsStutter
  <2>4. Told'
    BY <1>1, <1>2, <1>5, <1>10, <2>1
       DEF Inductive, Told, UnsentIsWanted, DeliveryIsRetained, DeliveredWasTaken
  <2>5. UnderWay' /\ TicksTyped'
    BY <1>10 DEF Inductive, UnderWay, SendingIsCurrent, ProcessingIsUnderWay, TicksTyped
  <2>6. BatchIsPending'
    BY <1>10, <2>1, BatchWaits
  <2> QED
    BY <1>4, <2>3, <2>4, <2>5, <2>6 DEF Inductive
<1> QED
  BY <1>7, <1>9, <1>10

LEMMA DeliverKeeps ==
  ASSUME Inductive, NEW o \in Time, NEW c \in Channel, Deliver(o, c)
  PROVE  Inductive'
<1>1. /\ <<o, c>> \in batch /\ batch' = batch \ {<<o, c>>}
      /\ UNCHANGED <<restOutbox, now, item, recover, enabled, operations, crashes>>
  BY DEF Deliver
<1>2. CASE Skip(o, c)
  BY <1>1, <1>2, SkipKeeps
<1>3. CASE /\ c = "in_app" /\ Delivered(o, c, item.revision) /\ UNCHANGED <<outbox, sending>>
           /\ Active(o) /\ ~row[o][c].suppressed
  <2>1. row[o][c].status = "pending"
    BY <1>1, <1>3 DEF Inductive, BatchIsPending
  <2>2. OutboxInv' /\ (\A p \in Time : Advances(p)) /\ UNCHANGED taken
    BY <1>1, <1>3, OutboxRests DEF restOutbox, outboxVars
  <2>3. /\ Unsettled(outbox'[o]) => o \notin Stopped
        /\ outbox'[o].status = "delivered" => outbox[o].status = "delivered"
    BY <1>3 DEF Inductive, Told, UnsentIsWanted
  <2> QED
    BY <1>1, <1>3, <2>1, <2>2, <2>3, TriedKeeps
<1>4. CASE /\ c = "desktop" /\ row' = [row EXCEPT ![o][c].status = "processing"]
           /\ sending' = sending \cup {<<o, item.revision>>} /\ UNCHANGED <<outbox, occ>>
           /\ Active(o) /\ ~row[o][c].suppressed
  BY <1>1, <1>4, DesktopKeeps DEF restOutbox, outboxVars
<1>5. CASE /\ c = "im" /\ (\E target \in BOOLEAN : PollIm(o, target)) /\ UNCHANGED sending
           /\ Active(o) /\ ~row[o][c].suppressed
  BY <1>1, <1>5, PollKeeps
<1> QED
  BY <1>2, <1>3, <1>4, <1>5 DEF Deliver

-----------------------------------------------------------------------------
(* The answer of the desktop, the clock and the end of the process.        *)

LEMMA AnswerKeeps ==
  ASSUME Inductive, batch = {}, NEW o \in Time, NEW revision \in 0..MaxRevision,
         NEW delivered \in BOOLEAN, DesktopAnswers(o, revision, delivered)
  PROVE  Inductive'
<1>1. /\ <<o, revision>> \in sending /\ sending' = sending \ {<<o, revision>>}
      /\ \/ Delivered(o, "desktop", revision)
         \/ Failed(o, "desktop", revision)
      /\ UNCHANGED <<outboxVars, now, item, batch, recover, enabled, operations, crashes>>
  BY DEF DesktopAnswers
<1>2. /\ row[o]["desktop"].status = "processing" /\ "desktop" \in Channel
      /\ row[o]["desktop"].suppressed \/ item.revision = revision
      /\ \A s \in sending : s[1] = o => s = <<o, revision>>
  BY <1>1 DEF Inductive, UnderWay, SendingIsCurrent, Channel
<1>3. /\ ScheduleTyped' /\ RowsFit'
      /\ \A p \in Time : StaysWanted(p)
      /\ \A p \in Time, d \in Channel : p # o \/ d # "desktop" => row'[p][d] = row[p][d]
  BY <1>1, <1>2, TriedFits
<1>4. OutboxInv' /\ \A p \in Time : Advances(p)
  BY <1>1, OutboxRests
<1>5. Told'
  <2>1. \A p \in Time : row'[p]["im"] = row[p]["im"]
    BY <1>3 DEF Channel
  <2> QED
    BY <1>1, <1>3, <1>4, <2>1, ToldPersists
<1>6. SendingIsCurrent'
  <2>1. \A s \in sending' : s[1] \in Time /\ s[1] # o /\ s \in sending
    BY <1>1, <1>2 DEF Inductive, TicksTyped
  <2>2. \A s \in sending' : row'[s[1]]["desktop"] = row[s[1]]["desktop"]
    BY <1>2, <1>3, <2>1
  <2> QED
    BY <1>1, <2>1, <2>2 DEF Inductive, UnderWay, SendingIsCurrent
<1>7. row'[o]["desktop"].status = "processing" => row'[o]["desktop"].suppressed
  <2>1. row[o]["desktop"].attempts < MaxAttempts
    BY <1>2 DEF Inductive, RowsFit, RowFits
  <2>2. CASE Delivered(o, "desktop", revision)
    BY <1>2, <2>1, <2>2, DeliveredRows
  <2>3. CASE Failed(o, "desktop", revision)
    <3>1. ~row[o]["desktop"].suppressed => Active(o)
      BY <1>2 DEF Inductive, RowsFit, RowFits
    <3> QED
      BY <1>2, <2>1, <2>3, <3>1, FailedRows
  <2> QED
    BY <1>1, <2>2, <2>3
<1>8. ProcessingIsUnderWay'
  <2> SUFFICES ASSUME NEW p \in Time, NEW d \in Channel,
                      row'[p][d].status = "processing", ~row'[p][d].suppressed
               PROVE  recover \/ \E r \in 0..MaxRevision : <<p, r>> \in sending'
    BY <1>1 DEF ProcessingIsUnderWay
  <2>1. d = "desktop" /\ p # o
    BY <1>3, <1>7 DEF RowsFit, RowFits
  <2>2. recover \/ \E r \in 0..MaxRevision : <<p, r>> \in sending
    BY <1>3, <2>1 DEF Inductive, UnderWay, ProcessingIsUnderWay
  <2> QED
    BY <1>1, <2>1, <2>2
<1>9. TicksTyped' /\ BatchIsPending'
  BY <1>1 DEF Inductive, TicksTyped, BatchIsPending
<1> QED
  BY <1>3, <1>4, <1>5, <1>6, <1>8, <1>9 DEF Inductive, UnderWay

LEMMA PassesKeeps ==
  ASSUME Inductive, batch = {}, Passes
  PROVE  Inductive'
<1>1. /\ now' \in 0..MaxTime /\ now <= now'
      /\ UNCHANGED <<outboxVars, item, occ, row, batch, sending, recover, enabled, operations,
                     crashes>>
  BY Bounds DEF Passes, Inductive, TicksTyped, tickVars
<1>2. ScheduleTyped' /\ RowsFit' /\ \A o \in Time : StaysWanted(o)
  BY <1>1, RowsStutter
<1>3. OutboxInv' /\ \A o \in Time : Advances(o)
  BY <1>1, OutboxRests
<1>4. Told'
  BY <1>1, <1>2, <1>3, ToldPersists
<1>5. UnderWay' /\ BatchIsPending' /\ TicksTyped'
  BY <1>1 DEF Inductive, UnderWay, SendingIsCurrent, ProcessingIsUnderWay, BatchIsPending,
             TicksTyped
<1> QED
  BY <1>2, <1>3, <1>4, <1>5 DEF Inductive

LEMMA CrashKeeps ==
  ASSUME Inductive, Crash
  PROVE  Inductive'
<1>1. /\ crashes' \in 0..MaxCrashes /\ OutboxCrash
      /\ batch' = {} /\ sending' = {} /\ recover' = TRUE
      /\ UNCHANGED <<now, item, occ, row, enabled, operations>>
  BY Bounds DEF Crash, Inductive, TicksTyped, itemVars
<1>2. now' \in 0..MaxTime /\ now <= now'
  BY <1>1 DEF Inductive, TicksTyped
<1>3. ScheduleTyped' /\ RowsFit' /\ \A o \in Time : StaysWanted(o)
  BY <1>1, <1>2, RowsStutter
<1>4. OutboxInv' /\ \A o \in Time : Advances(o)
  BY <1>1, Bounds, OutboxCrashKeeps, BindingAdvances DEF Inductive
<1>5. Told'
  BY <1>1, <1>3, <1>4, ToldPersists
<1>6. UnderWay' /\ BatchIsPending' /\ TicksTyped'
  BY <1>1 DEF Inductive, UnderWay, SendingIsCurrent, ProcessingIsUnderWay, BatchIsPending,
             TicksTyped
<1> QED
  BY <1>3, <1>4, <1>5, <1>6 DEF Inductive

LEMMA MessengerKeeps ==
  ASSUME Inductive, Messenger
  PROVE  Inductive'
<1>1. UNCHANGED <<itemVars, row, tickVars, enabled, crashes>>
      /\ operations' \in 0..MaxOperations
  BY OperateBounded DEF Messenger, Inductive, TicksTyped
<1>2. OutboxInv /\ Message = Time
  BY Bounds DEF Inductive
<1>3. CASE Flush
  <2>1. OutboxInv'
    BY <1>2, <1>3, FlushKeeps DEF Flush
  <2>2. \A m \in Time : Advances(m)
    BY <1>2, <1>3, ClaimAdvances, AuthorizeAdvances, SendAdvances DEF Flush
  <2> QED
    BY <1>1, <2>1, <2>2, MessengerSteps
<1>4. CASE \/ StartBinding \/ Rebind \/ BeginDisconnect \/ Revoke \/ FailDisconnect
            \/ ClearProvider \/ EndDisconnect
  <2>1. OutboxInv'
    BY <1>2, <1>4, BindingKeeps
  <2>2. \A m \in Time : Advances(m)
    BY <1>2, <1>4, BindingAdvances
  <2> QED
    BY <1>1, <2>1, <2>2, MessengerSteps
<1> QED
  BY <1>3, <1>4 DEF Messenger

LEMMA StepKeeps ==
  ASSUME Inductive, [Next]_vars
  PROVE  Inductive'
<1>1. CASE UNCHANGED vars
  <2>1. /\ OutboxInv' /\ \A o \in Time : Advances(o)
    BY <1>1, OutboxRests DEF vars
  <2>2. operations' \in 0..MaxOperations
    BY <1>1 DEF vars, Inductive, TicksTyped
  <2> QED
    BY <1>1, <2>1, <2>2, MessengerSteps DEF vars
<1>2. CASE batch = {} /\ Answer
  BY <1>2, AnswerKeeps DEF Answer
<1> QED
  BY <1>1, <1>2, DeliverKeeps, ServiceKeeps, TickKeeps, PassesKeeps, MessengerKeeps, CrashKeeps
     DEF Next

-----------------------------------------------------------------------------
(* The theorems.                                                           *)

\* The schedule, its rows, the tick and the messenger's outbox are as the
\* invariant says, always.
THEOREM InductiveHolds == Spec => []Inductive
<1>1. Init => Inductive
  BY Starts
<1>2. Inductive /\ [Next]_vars => Inductive'
  BY StepKeeps
<1> QED
  BY <1>1, <1>2, PTL DEF Spec

\* Every variable stays within its type: a row is never tried more often than
\* it may fail, and a reminder is claimed MaxClaims times at most.
THEOREM TypeCorrect == Spec => []TypeOK
<1>1. Inductive => TypeOK
  BY Types DEF Inductive, OutboxInv
<1> QED
  BY <1>1, InductiveHolds, PTL

\* Whatever stops a reminder reaches every row of it that waits or is under way.
THEOREM WaitingRowsAreWanted == Spec => []WaitingIsWanted
<1>1. Inductive => WaitingIsWanted
  BY DEF Inductive, RowsFit, RowFits, WaitingIsWanted
<1> QED
  BY <1>1, InductiveHolds, PTL

\* It reaches what the messenger has been given of it as well.
THEOREM MessagesAreWanted == Spec => []UnsentIsWanted
<1>1. Inductive => UnsentIsWanted
  BY DEF Inductive, Told
<1> QED
  BY <1>1, InductiveHolds, PTL

\* A delivery the platform has acknowledged is not hidden by what stops the
\* reminder afterwards.
THEOREM DeliveriesAreRetained == Spec => []DeliveryIsRetained
<1>1. Inductive => DeliveryIsRetained
  BY DEF Inductive, Told
<1> QED
  BY <1>1, InductiveHolds, PTL

\* What the schedule calls delivered by the messenger the platform has taken.
THEOREM DeliveriesWereTaken == Spec => []DeliveredWasTaken
<1>1. Inductive => DeliveredWasTaken
  BY DEF Inductive, Told
<1> QED
  BY <1>1, InductiveHolds, PTL

\* No row is left in processing: its notification is under way, or the next tick
\* offers it again.
THEOREM ProcessingEnds == Spec => []ProcessingIsUnderWay
<1>1. Inductive => ProcessingIsUnderWay
  BY DEF Inductive, UnderWay
<1> QED
  BY <1>1, InductiveHolds, PTL
=============================================================================
