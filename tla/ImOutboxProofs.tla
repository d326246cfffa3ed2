--------------------------- MODULE ImOutboxProofs ---------------------------
(***************************************************************************)
(* Proofs about ImOutbox for any messages and reminders, any numbers of    *)
(* parts, claims and bindings: what every one of its operations preserves, *)
(* whatever the schedule has stopped.  The modules that extend ImOutbox    *)
(* add what their own operations do to the table.                          *)
(***************************************************************************)
EXTENDS ImOutbox, TLAPS

-----------------------------------------------------------------------------
(* The invariant of the outbox.                                            *)

\* A receipt is written in the order of the parts, for what the platform took.
ReceiptsAreOfTaken ==
  \A m \in Message :
    /\ receipts[m] <= PartsOf(m)
    /\ 1..receipts[m] \subseteq taken[m]
    /\ taken[m] \subseteq 1..PartsOf(m)

\* What is being sent is the first part without a receipt.
SendsFirstUnsent ==
  flight.sending # Nothing => /\ flight.part = FirstUnsent(flight.sending)
                              /\ flight.part <= PartsOf(flight.sending)

\* The answer that is on the way is of a part the platform took.
AnswerIsOfTaken ==
  flight.has => flight.sending # Nothing /\ flight.part \in taken[flight.sending]

OutboxInv ==
  /\ OutboxTypeOK
  /\ UnsettledIsCurrent /\ DeliveredInFull
  /\ ReceiptsAreOfTaken /\ SendsFirstUnsent /\ AnswerIsOfTaken

-----------------------------------------------------------------------------
(* The operators on rows.                                                  *)

Row == [status : {"none", "pending", "failed", "delivered", "abandoned"},
        attempts : 0..MaxClaims, generation : 0..MaxGeneration]

Batches == [batch : SUBSET Message, sending : Message \cup {Nothing},
            part : 0..Parts, has : BOOLEAN]

\* A flush that sends nothing.
LEMMA AtEase ==
  ASSUME NEW b \in SUBSET Message
  PROVE  /\ [Idle EXCEPT !.batch = b] \in Batches
         /\ [Idle EXCEPT !.batch = b].sending = Nothing
         /\ ~[Idle EXCEPT !.batch = b].has
         /\ Idle \in Batches /\ Idle.sending = Nothing /\ ~Idle.has
<1>1. 0 \in 0..Parts
  BY OutboxAssumption
<1> QED
  BY <1>1 DEF Batches, Idle

\* Every message has a part.
LEMMA PartsOfMessage ==
  ASSUME NEW m \in Message
  PROVE  PartsOf(m) \in 1..Parts
  BY OutboxAssumption DEF PartsOf

\* What abandoning rows does to one.
LEMMA Abandoned ==
  ASSUME NEW rows \in [Message -> Row], NEW S
  PROVE  /\ Abandon(rows, S) \in [Message -> Row]
         /\ \A m \in Message :
              /\ \/ Abandon(rows, S)[m] = rows[m]
                 \/ /\ Abandon(rows, S)[m].status = "abandoned"
                    /\ m \in S /\ Unsettled(rows[m])
              /\ m \in S => ~Unsettled(Abandon(rows, S)[m])
  BY DEF Abandon, Row, Unsettled

\* An acknowledgement settles the row of its message, if it does anything.
LEMMA AcknowledgedRows ==
  ASSUME NEW rows \in [Message -> Row], NEW m \in Message, NEW delivered \in BOOLEAN
  PROVE  /\ Acknowledged(rows, m, delivered) \in [Message -> Row]
         /\ \A k \in Message :
              \/ Acknowledged(rows, m, delivered)[k] = rows[k]
              \/ /\ k = m /\ Unsettled(rows[m]) /\ Current(rows[m])
                 /\ Acknowledged(rows, m, delivered)[m].generation = rows[m].generation
                 /\ Acknowledged(rows, m, delivered)[m].status =
                      IF delivered THEN "delivered" ELSE "failed"
  BY DEF Acknowledged, Row

-----------------------------------------------------------------------------
(* The start.                                                              *)

LEMMA OutboxStarts ==
  ASSUME OutboxInit
  PROVE  OutboxInv
<1>1. OutboxTypeOK
  BY OutboxAssumption DEF OutboxInit, OutboxTypeOK, NoRow, Idle, Gates
<1>2. UnsettledIsCurrent /\ DeliveredInFull
  BY DEF OutboxInit, NoRow, UnsettledIsCurrent, DeliveredInFull, Unsettled
<1>3. ReceiptsAreOfTaken
  BY PartsOfMessage, OutboxAssumption DEF OutboxInit, ReceiptsAreOfTaken
<1>4. SendsFirstUnsent /\ AnswerIsOfTaken
  BY DEF OutboxInit, SendsFirstUnsent, AnswerIsOfTaken, Idle
<1> QED
  BY <1>1, <1>2, <1>3, <1>4 DEF OutboxInv

-----------------------------------------------------------------------------
(* The flush.                                                              *)

\* The table after the rows of S, and those of S alone, are abandoned: what may
\* still be sent is as current, what is delivered was delivered.
LEMMA AbandonKeeps ==
  ASSUME OutboxInv, NEW S, outbox' = Abandon(outbox, S),
         UNCHANGED <<taken, binding, bound>>
  PROVE  /\ outbox' \in [Message -> Row]
         /\ UnsettledIsCurrent' /\ DeliveredInFull'
<1>1. outbox \in [Message -> Row]
  BY DEF OutboxInv, OutboxTypeOK, Row
<1>2. outbox' \in [Message -> Row]
  BY <1>1, Abandoned
<1>3. \A m \in Message : \/ outbox'[m] = outbox[m]
                         \/ outbox'[m].status = "abandoned"
  BY <1>1, Abandoned
<1>4. UnsettledIsCurrent'
  BY <1>3 DEF OutboxInv, UnsettledIsCurrent, Unsettled, Current
<1>5. DeliveredInFull'
  BY <1>3 DEF OutboxInv, DeliveredInFull, PartsOf
<1> QED
  BY <1>2, <1>4, <1>5

LEMMA ClaimKeeps ==
  ASSUME OutboxInv, NEW stopped, ClaimPendingOutbox(stopped)
  PROVE  OutboxInv'
<1> DEFINE outdated == {m \in Message : ~Current(outbox[m])}
           live == Abandon(outbox, (stopped \cap Reminder) \cup outdated)
<1>1. PICK batch \in SUBSET Claimable(live) :
        /\ outbox' = [m \in Message |->
             IF m \in batch \cap Reminder THEN [live[m] EXCEPT !.attempts = @ + 1]
             ELSE live[m]]
        /\ flight' = [Idle EXCEPT !.batch = batch]
  BY DEF ClaimPendingOutbox
<1>2. UNCHANGED <<receipts, taken, binding, bound, gate>>
  BY DEF ClaimPendingOutbox
<1>3. outbox \in [Message -> Row]
  BY DEF OutboxInv, OutboxTypeOK, Row
<1>4. /\ live \in [Message -> Row]
      /\ \A m \in Message : live[m] = outbox[m] \/ live[m].status = "abandoned"
  BY <1>3, Abandoned
<1> HIDE DEF live
<1>5. \A m \in Message :
        /\ outbox'[m] \in Row
        /\ outbox'[m].status = live[m].status
        /\ outbox'[m].generation = live[m].generation
  <2> SUFFICES ASSUME NEW m \in Message
               PROVE  /\ outbox'[m] \in Row
                      /\ outbox'[m].status = live[m].status
                      /\ outbox'[m].generation = live[m].generation
    OBVIOUS
  <2>1. CASE m \in batch \cap Reminder
    <3>1. live[m] \in Row /\ live[m].attempts < MaxClaims
      BY <1>4, <2>1 DEF Claimable
    <3>2. outbox'[m] = [live[m] EXCEPT !.attempts = @ + 1]
      BY <1>1, <2>1
    <3> QED
      BY <3>1, <3>2, OutboxAssumption DEF Row
  <2>2. CASE m \notin batch \cap Reminder
    BY <1>1, <1>4, <2>2
  <2> QED
    BY <2>1, <2>2
<1>6. outbox' \in [Message -> Row]
  BY <1>1, <1>5
<1>7. OutboxTypeOK'
  <2>1. batch \subseteq Message
    BY DEF Claimable
  <2>2. flight' \in Batches
    BY <1>1, <2>1, AtEase
  <2> QED
    BY <1>2, <1>6, <2>2 DEF OutboxInv, OutboxTypeOK, Batches, Row
<1>8. UnsettledIsCurrent'
  BY <1>2, <1>4, <1>5 DEF OutboxInv, UnsettledIsCurrent, Unsettled, Current
<1>9. DeliveredInFull'
  BY <1>2, <1>4, <1>5 DEF OutboxInv, DeliveredInFull, PartsOf
<1>10. ReceiptsAreOfTaken'
  BY <1>2 DEF OutboxInv, ReceiptsAreOfTaken, PartsOf
<1>11. SendsFirstUnsent' /\ AnswerIsOfTaken'
  BY <1>1 DEF SendsFirstUnsent, AnswerIsOfTaken, Idle
<1> QED
  BY <1>7, <1>8, <1>9, <1>10, <1>11 DEF OutboxInv

\* A delivered row of a message that the platform has in full.
LEMMA AcknowledgeKeeps ==
  ASSUME NEW rows \in [Message -> Row], NEW m \in Message, NEW delivered \in BOOLEAN,
         \A k \in Message : Unsettled(rows[k]) => Current(rows[k]),
         \A k \in Message : rows[k].status = "delivered" => taken[k] = 1..PartsOf(k),
         delivered => taken[m] = 1..PartsOf(m),
         outbox' = Acknowledged(rows, m, delivered), UNCHANGED <<taken, binding, bound>>
  PROVE  outbox' \in [Message -> Row] /\ UnsettledIsCurrent' /\ DeliveredInFull'
<1>1. outbox' \in [Message -> Row]
  BY AcknowledgedRows
<1>2. \A k \in Message :
        \/ outbox'[k] = rows[k]
        \/ /\ k = m /\ Current(rows[m]) /\ outbox'[k].generation = rows[m].generation
           /\ outbox'[k].status = IF delivered THEN "delivered" ELSE "failed"
  BY AcknowledgedRows
<1>3. UnsettledIsCurrent'
  BY <1>2 DEF UnsettledIsCurrent, Unsettled, Current
<1>4. DeliveredInFull'
  BY <1>2 DEF DeliveredInFull, PartsOf
<1> QED
  BY <1>1, <1>3, <1>4

\* A message whose parts all have a receipt the platform has in full.
LEMMA AllReceipted ==
  ASSUME OutboxInv, NEW m \in Message, receipts[m] = PartsOf(m)
  PROVE  taken[m] = 1..PartsOf(m)
  BY DEF OutboxInv, ReceiptsAreOfTaken

LEMMA AuthorizeKeeps ==
  ASSUME OutboxInv, NEW m \in Message, NEW stopped, AuthorizeOutbox(m, stopped)
  PROVE  OutboxInv'
<1> DEFINE live == Abandon(outbox, stopped \cap Reminder)
           rest == [flight EXCEPT !.batch = @ \ {m}]
<1>1. UNCHANGED <<receipts, taken, binding, bound, gate>>
  BY DEF AuthorizeOutbox
<1>2. outbox \in [Message -> Row]
  BY DEF OutboxInv, OutboxTypeOK, Row
<1>3. flight \in Batches
      /\ flight.sending = Nothing /\ ~flight.has
  BY DEF OutboxInv, OutboxTypeOK, Batches, AuthorizeOutbox, AnswerIsOfTaken
<1>4. /\ live \in [Message -> Row]
      /\ \A k \in Message : live[k] = outbox[k] \/ live[k].status = "abandoned"
  BY <1>2, Abandoned
<1>5. /\ \A k \in Message : Unsettled(live[k]) => Current(live[k])
      /\ \A k \in Message : live[k].status = "delivered" => taken[k] = 1..PartsOf(k)
  BY <1>4 DEF OutboxInv, UnsettledIsCurrent, DeliveredInFull, Unsettled
<1> HIDE DEF live
<1>6. outbox' = live => UnsettledIsCurrent' /\ DeliveredInFull'
  BY <1>1, <1>5 DEF UnsettledIsCurrent, DeliveredInFull, Unsettled, Current, PartsOf
<1>7. /\ outbox' \in [Message -> Row]
      /\ UnsettledIsCurrent' /\ DeliveredInFull'
  <2>1. CASE gate # "open"
    BY <1>1, <1>2, <2>1
       DEF OutboxInv, AuthorizeOutbox, UnsettledIsCurrent, DeliveredInFull, Current, PartsOf
  <2>2. CASE gate = "open" /\ outbox' = live
    BY <1>4, <1>6, <2>2
  <2>3. CASE /\ gate = "open" /\ receipts[m] = PartsOf(m)
             /\ outbox' = Acknowledged(live, m, TRUE)
    <3>1. taken[m] = 1..PartsOf(m)
      BY <2>3, AllReceipted
    <3> QED
      BY <1>1, <1>4, <1>5, <2>3, <3>1, AcknowledgeKeeps
  <2> QED
    BY <2>1, <2>2, <2>3 DEF AuthorizeOutbox, live
<1>8. \/ flight' = Idle
      \/ flight' = rest
      \/ /\ receipts[m] # PartsOf(m)
         /\ flight' = [rest EXCEPT !.sending = m, !.part = FirstUnsent(m)]
  BY DEF AuthorizeOutbox
<1>9. /\ PartsOf(m) \in 1..Parts /\ receipts[m] \in 0..Parts /\ receipts[m] <= PartsOf(m)
      /\ Nothing \notin Message /\ Parts \in Nat
  BY PartsOfMessage, OutboxAssumption DEF OutboxInv, OutboxTypeOK, Batches, ReceiptsAreOfTaken
<1>10. /\ flight' \in Batches
       /\ SendsFirstUnsent' /\ AnswerIsOfTaken'
  <2>1. CASE flight' = Idle
    BY <2>1, AtEase DEF SendsFirstUnsent, AnswerIsOfTaken
  <2>2. CASE flight' = rest
    BY <1>3, <2>2 DEF Batches, SendsFirstUnsent, AnswerIsOfTaken
  <2>3. CASE /\ receipts[m] # PartsOf(m)
             /\ flight' = [rest EXCEPT !.sending = m, !.part = FirstUnsent(m)]
    <3>1. flight'.sending = m /\ flight'.part = receipts[m] + 1 /\ ~flight'.has
      BY <1>3, <2>3 DEF FirstUnsent
    <3>2. receipts[m] + 1 \in 0..Parts /\ receipts[m] + 1 <= PartsOf(m)
      BY <1>9, <2>3
    <3>3. flight' \in Batches
      BY <1>3, <2>3, <3>2 DEF Batches, FirstUnsent
    <3> QED
      BY <1>1, <3>1, <3>2, <3>3 DEF SendsFirstUnsent, AnswerIsOfTaken, FirstUnsent, PartsOf
  <2> QED
    BY <1>8, <2>1, <2>2, <2>3
<1>11. ReceiptsAreOfTaken'
  BY <1>1 DEF OutboxInv, ReceiptsAreOfTaken, PartsOf
<1>12. OutboxTypeOK'
  BY <1>1, <1>7, <1>10 DEF OutboxInv, OutboxTypeOK, Batches, Row
<1> QED
  BY <1>7, <1>10, <1>11, <1>12 DEF OutboxInv

LEMMA TakesKeeps ==
  ASSUME OutboxInv, PlatformTakes
  PROVE  OutboxInv'
<1> DEFINE m == flight.sending
<1>1. /\ m \in Message /\ flight.part = receipts[m] + 1 /\ flight.part <= PartsOf(m)
      /\ receipts[m] \in Nat /\ PartsOf(m) \in 1..Parts
  BY PartsOfMessage
     DEF OutboxInv, OutboxTypeOK, Batches, PlatformTakes, SendsFirstUnsent, FirstUnsent
<1>2. flight.part \in 1..PartsOf(m) /\ flight.part \in 1..Parts
  BY <1>1, OutboxAssumption
<1>3. \A k \in Message : taken'[k] = IF k = m THEN taken[m] \cup {flight.part} ELSE taken[k]
  BY DEF OutboxInv, OutboxTypeOK, Batches, PlatformTakes
<1>4. /\ flight'.sending = m /\ flight'.part = flight.part
      /\ flight' \in Batches
  BY DEF OutboxInv, OutboxTypeOK, Batches, PlatformTakes
<1>5. UNCHANGED <<outbox, receipts, binding, bound, gate>>
  BY DEF PlatformTakes
<1>6. OutboxTypeOK'
  <2>1. taken' \in [Message -> SUBSET (1..Parts)]
    BY <1>2, <1>3 DEF OutboxInv, OutboxTypeOK, Batches, PlatformTakes
  <2> QED
    BY <1>4, <1>5, <2>1 DEF OutboxInv, OutboxTypeOK, Batches
<1>7. UnsettledIsCurrent'
  BY <1>5 DEF OutboxInv, UnsettledIsCurrent, Current
<1>8. ReceiptsAreOfTaken'
  <2> SUFFICES ASSUME NEW k \in Message
               PROVE  /\ receipts[k] <= PartsOf(k)
                      /\ 1..receipts[k] \subseteq taken'[k]
                      /\ taken'[k] \subseteq 1..PartsOf(k)
    BY <1>5 DEF ReceiptsAreOfTaken, PartsOf
  <2> QED
    BY <1>2, <1>3 DEF OutboxInv, ReceiptsAreOfTaken
<1>9. DeliveredInFull'
  <2> SUFFICES ASSUME NEW k \in Message, outbox[k].status = "delivered"
               PROVE  taken'[k] = 1..PartsOf(k)
    BY <1>5 DEF DeliveredInFull, PartsOf
  <2> QED
    BY <1>2, <1>3 DEF OutboxInv, DeliveredInFull
<1>10. SendsFirstUnsent'
  BY <1>1, <1>4, <1>5 DEF SendsFirstUnsent, FirstUnsent, PartsOf
<1>11. AnswerIsOfTaken'
  BY <1>1, <1>3, <1>4, OutboxAssumption DEF AnswerIsOfTaken
<1> QED
  BY <1>6, <1>7, <1>8, <1>9, <1>10, <1>11 DEF OutboxInv

\* What an answer says of the message that is being sent.
LEMMA AnswerAdvances ==
  ASSUME OutboxInv, flight.has
  PROVE  /\ flight.sending \in Message
         /\ flight.part \in 1..PartsOf(flight.sending)
         /\ flight.part = receipts[flight.sending] + 1
         /\ 1..flight.part \subseteq taken[flight.sending]
<1> DEFINE m == flight.sending
<1>1. /\ m \in Message /\ flight.part = receipts[m] + 1 /\ flight.part <= PartsOf(m)
      /\ receipts[m] \in Nat /\ PartsOf(m) \in 1..Parts /\ flight.part \in taken[m]
  BY PartsOfMessage
     DEF OutboxInv, OutboxTypeOK, Batches, SendsFirstUnsent, FirstUnsent, AnswerIsOfTaken
<1>2. 1..receipts[m] \subseteq taken[m]
  BY <1>1 DEF OutboxInv, ReceiptsAreOfTaken
<1>3. 1..(receipts[m] + 1) = (1..receipts[m]) \cup {receipts[m] + 1}
  BY <1>1
<1>4. flight.part \in 1..PartsOf(m)
  BY <1>1, OutboxAssumption
<1> QED
  BY <1>1, <1>2, <1>3, <1>4

\* A receipt is written for the part whose answer has come.
LEMMA ReceiptKeeps ==
  ASSUME OutboxInv, flight.has, UNCHANGED taken,
         receipts' = [receipts EXCEPT ![flight.sending] = flight.part]
  PROVE  receipts' \in [Message -> 0..Parts] /\ ReceiptsAreOfTaken'
<1> DEFINE m == flight.sending
<1>1. /\ m \in Message /\ flight.part \in 1..PartsOf(m)
      /\ 1..flight.part \subseteq taken[m] /\ PartsOf(m) \in 1..Parts
  BY AnswerAdvances, PartsOfMessage
<1>2. receipts \in [Message -> 0..Parts] /\ flight.part \in 0..Parts
  BY <1>1, OutboxAssumption DEF OutboxInv, OutboxTypeOK, Batches
<1>3. \A k \in Message : receipts'[k] = IF k = m THEN flight.part ELSE receipts[k]
  BY <1>2
<1>4. receipts' \in [Message -> 0..Parts]
  BY <1>2, <1>3
<1>5. ReceiptsAreOfTaken'
  <2> SUFFICES ASSUME NEW k \in Message
               PROVE  /\ receipts'[k] <= PartsOf(k)
                      /\ 1..receipts'[k] \subseteq taken[k]
                      /\ taken[k] \subseteq 1..PartsOf(k)
    BY DEF ReceiptsAreOfTaken, PartsOf
  <2> QED
    BY <1>1, <1>3 DEF OutboxInv, ReceiptsAreOfTaken
<1> QED
  BY <1>4, <1>5

LEMMA SendSucceedsKeeps ==
  ASSUME OutboxInv, SendSucceeds
  PROVE  OutboxInv'
<1> DEFINE m == flight.sending
<1>1. /\ flight.has /\ receipts' = [receipts EXCEPT ![m] = flight.part]
      /\ UNCHANGED <<taken, binding, bound, gate>>
  BY DEF SendSucceeds
<1>2. /\ m \in Message /\ flight.part \in 1..PartsOf(m) /\ 1..flight.part \subseteq taken[m]
      /\ PartsOf(m) \in 1..Parts
  BY <1>1, AnswerAdvances, PartsOfMessage
<1>3. receipts' \in [Message -> 0..Parts] /\ ReceiptsAreOfTaken'
  BY <1>1, ReceiptKeeps
<1>4. outbox \in [Message -> Row] /\ UnsettledIsCurrent /\ DeliveredInFull
  BY DEF OutboxInv, OutboxTypeOK, Row
<1>5. CASE flight.part < PartsOf(m)
  <2>1. outbox' = outbox /\ flight' = [flight EXCEPT !.part = @ + 1, !.has = FALSE]
    BY <1>5 DEF SendSucceeds
  <2>2. flight.part + 1 \in 0..Parts /\ flight.part + 1 <= PartsOf(m)
    BY <1>2, <1>5, OutboxAssumption
  <2>3. /\ flight' \in Batches
        /\ flight'.sending = m /\ flight'.part = flight.part + 1 /\ ~flight'.has
    BY <2>1, <2>2 DEF OutboxInv, OutboxTypeOK, Batches
  <2>4. receipts'[m] = flight.part
    BY <1>1, <1>2 DEF OutboxInv, OutboxTypeOK, Batches
  <2>5. SendsFirstUnsent' /\ AnswerIsOfTaken'
    BY <2>2, <2>3, <2>4 DEF SendsFirstUnsent, AnswerIsOfTaken, FirstUnsent, PartsOf
  <2>6. UnsettledIsCurrent' /\ DeliveredInFull'
    BY <1>1, <1>4, <2>1 DEF UnsettledIsCurrent, DeliveredInFull, Unsettled, Current, PartsOf
  <2>7. OutboxTypeOK'
    BY <1>1, <1>3, <2>1, <2>3 DEF OutboxInv, OutboxTypeOK, Batches
  <2> QED
    BY <1>3, <2>5, <2>6, <2>7 DEF OutboxInv
<1>6. CASE ~(flight.part < PartsOf(m))
  <2>1. outbox' = Acknowledged(outbox, m, TRUE) /\ flight' = NextOfBatch
    BY <1>6 DEF SendSucceeds
  <2>2. taken[m] = 1..PartsOf(m)
    <3>1. flight.part = PartsOf(m)
      BY <1>2, <1>6
    <3> QED
      BY <1>2, <3>1 DEF OutboxInv, ReceiptsAreOfTaken
  <2>3. outbox' \in [Message -> Row] /\ UnsettledIsCurrent' /\ DeliveredInFull'
    BY <1>1, <1>2, <1>4, <2>1, <2>2, AcknowledgeKeeps DEF UnsettledIsCurrent, DeliveredInFull
  <2>4. /\ flight' \in Batches
        /\ SendsFirstUnsent' /\ AnswerIsOfTaken'
    BY <2>1, AtEase
       DEF OutboxInv, OutboxTypeOK, Batches, NextOfBatch, SendsFirstUnsent, AnswerIsOfTaken
  <2>5. OutboxTypeOK'
    BY <1>1, <1>3, <2>3, <2>4 DEF OutboxInv, OutboxTypeOK, Batches, Row
  <2> QED
    BY <1>3, <2>3, <2>4, <2>5 DEF OutboxInv
<1> QED
  BY <1>5, <1>6

LEMMA SendFailsKeeps ==
  ASSUME OutboxInv, SendFails
  PROVE  OutboxInv'
<1>1. /\ flight.sending \in Message
      /\ outbox' = Acknowledged(outbox, flight.sending, FALSE) /\ flight' = NextOfBatch
      /\ UNCHANGED <<receipts, taken, binding, bound, gate>>
  BY DEF SendFails, OutboxInv, OutboxTypeOK, Batches
<1>2. outbox \in [Message -> Row] /\ UnsettledIsCurrent /\ DeliveredInFull
  BY DEF OutboxInv, OutboxTypeOK, Row
<1>3. outbox' \in [Message -> Row] /\ UnsettledIsCurrent' /\ DeliveredInFull'
  BY <1>1, <1>2, AcknowledgeKeeps DEF UnsettledIsCurrent, DeliveredInFull
<1>4. /\ flight' \in Batches
      /\ SendsFirstUnsent' /\ AnswerIsOfTaken'
  BY <1>1, AtEase
     DEF OutboxInv, OutboxTypeOK, Batches, NextOfBatch, SendsFirstUnsent, AnswerIsOfTaken
<1>5. ReceiptsAreOfTaken'
  BY <1>1 DEF OutboxInv, ReceiptsAreOfTaken, PartsOf
<1>6. OutboxTypeOK'
  BY <1>1, <1>3, <1>4 DEF OutboxInv, OutboxTypeOK, Batches, Row
<1> QED
  BY <1>3, <1>4, <1>5, <1>6 DEF OutboxInv

\* The end of the process, whether or not it had written the receipt.
LEMMA OutboxCrashKeeps ==
  ASSUME OutboxInv, OutboxCrash
  PROVE  OutboxInv'
<1>1. UNCHANGED <<outbox, taken, binding, bound>> /\ flight' = Idle /\ gate' \in Gates
  BY DEF OutboxCrash, Gates
<1>2. receipts' \in [Message -> 0..Parts] /\ ReceiptsAreOfTaken'
  <2>1. CASE UNCHANGED receipts
    BY <1>1, <2>1 DEF OutboxInv, OutboxTypeOK, Batches, ReceiptsAreOfTaken, PartsOf
  <2>2. CASE flight.has /\ receipts' = [receipts EXCEPT ![flight.sending] = flight.part]
    BY <1>1, <2>2, ReceiptKeeps
  <2> QED
    BY <2>1, <2>2 DEF OutboxCrash
<1>3. OutboxTypeOK'
  BY <1>1, <1>2, OutboxAssumption DEF OutboxInv, OutboxTypeOK, Batches, Idle
<1>4. UnsettledIsCurrent' /\ DeliveredInFull'
  BY <1>1 DEF OutboxInv, UnsettledIsCurrent, DeliveredInFull, Current, PartsOf
<1>5. SendsFirstUnsent' /\ AnswerIsOfTaken'
  BY <1>1 DEF Idle, SendsFirstUnsent, AnswerIsOfTaken
<1> QED
  BY <1>2, <1>3, <1>4, <1>5 DEF OutboxInv

-----------------------------------------------------------------------------
(* The binding.                                                            *)

LEMMA RebindKeeps ==
  ASSUME OutboxInv, Rebind
  PROVE  OutboxInv'
<1>1. /\ outbox' = Abandon(outbox, Message) /\ UNCHANGED <<flight, receipts, taken>>
      /\ binding' \in 1..MaxGeneration /\ bound' = TRUE /\ gate' = gate
  BY OutboxAssumption DEF Rebind, OutboxInv, OutboxTypeOK, Batches
<1>2. outbox \in [Message -> Row]
  BY DEF OutboxInv, OutboxTypeOK, Row
<1>3. /\ outbox' \in [Message -> Row]
      /\ \A m \in Message : /\ ~Unsettled(outbox'[m])
                            /\ outbox'[m] = outbox[m] \/ outbox'[m].status = "abandoned"
  BY <1>1, <1>2, Abandoned
<1>4. UnsettledIsCurrent' /\ DeliveredInFull'
  BY <1>1, <1>3 DEF OutboxInv, UnsettledIsCurrent, DeliveredInFull, Unsettled, PartsOf
<1>5. ReceiptsAreOfTaken' /\ SendsFirstUnsent' /\ AnswerIsOfTaken'
  BY <1>1 DEF OutboxInv, ReceiptsAreOfTaken, SendsFirstUnsent, AnswerIsOfTaken,
              FirstUnsent, PartsOf
<1>6. OutboxTypeOK'
  BY <1>1, <1>3 DEF OutboxInv, OutboxTypeOK, Batches, Row
<1> QED
  BY <1>4, <1>5, <1>6 DEF OutboxInv

LEMMA GateKeeps ==
  ASSUME OutboxInv, gate' \in Gates,
         UNCHANGED <<outbox, flight, receipts, taken, binding, bound>>
  PROVE  OutboxInv'
<1>1. OutboxTypeOK'
  BY DEF OutboxInv, OutboxTypeOK, Batches
<1>2. UnsettledIsCurrent' /\ DeliveredInFull'
  BY DEF OutboxInv, UnsettledIsCurrent, DeliveredInFull, Current, PartsOf
<1>3. ReceiptsAreOfTaken' /\ SendsFirstUnsent' /\ AnswerIsOfTaken'
  BY DEF OutboxInv, ReceiptsAreOfTaken, SendsFirstUnsent, AnswerIsOfTaken, FirstUnsent, PartsOf
<1> QED
  BY <1>1, <1>2, <1>3 DEF OutboxInv

\* The steps of a disconnection, and of a binding, that only turn the gate.
LEMMA GateTurns ==
  ASSUME OutboxInv, StartBinding \/ BeginDisconnect \/ Revoke \/ FailDisconnect
  PROVE  OutboxInv'
<1>1. UNCHANGED <<outbox, flight, receipts, taken, binding, bound>>
  BY DEF StartBinding, BeginDisconnect, Revoke, FailDisconnect
<1>2. gate' \in Gates
  BY DEF StartBinding, BeginDisconnect, Revoke, FailDisconnect, Gates
<1> QED
  BY <1>1, <1>2, GateKeeps

LEMMA ClearProviderKeeps ==
  ASSUME OutboxInv, ClearProvider
  PROVE  OutboxInv'
<1>1. /\ receipts' = [m \in Message |-> 0] /\ flight.sending = Nothing
      /\ UNCHANGED <<outbox, flight, taken, binding, bound>> /\ gate' \in Gates
  BY DEF ClearProvider, Gates
<1>2. UnsettledIsCurrent' /\ DeliveredInFull'
  BY <1>1 DEF OutboxInv, UnsettledIsCurrent, DeliveredInFull, Current, PartsOf
<1>3. ReceiptsAreOfTaken'
  <2> SUFFICES ASSUME NEW m \in Message
               PROVE  0 <= PartsOf(m) /\ 1..0 \subseteq taken[m] /\ taken[m] \subseteq 1..PartsOf(m)
    BY <1>1 DEF ReceiptsAreOfTaken, PartsOf
  <2> QED
    BY PartsOfMessage, OutboxAssumption DEF OutboxInv, ReceiptsAreOfTaken
<1>4. SendsFirstUnsent' /\ AnswerIsOfTaken'
  BY <1>1 DEF OutboxInv, SendsFirstUnsent, AnswerIsOfTaken
<1>5. OutboxTypeOK'
  <2>1. receipts' \in [Message -> 0..Parts]
    BY <1>1, OutboxAssumption
  <2> QED
    BY <1>1, <2>1 DEF OutboxInv, OutboxTypeOK
<1> QED
  BY <1>2, <1>3, <1>4, <1>5 DEF OutboxInv

LEMMA EndDisconnectKeeps ==
  ASSUME OutboxInv, EndDisconnect
  PROVE  OutboxInv'
<1>1. /\ outbox' = Abandon(outbox, Message) /\ UNCHANGED <<flight, receipts, taken, binding>>
      /\ bound' = FALSE /\ gate' \in Gates
  BY DEF EndDisconnect, Gates
<1>2. outbox \in [Message -> Row]
  BY DEF OutboxInv, OutboxTypeOK, Row
<1>3. /\ outbox' \in [Message -> Row]
      /\ \A m \in Message : /\ ~Unsettled(outbox'[m])
                            /\ outbox'[m] = outbox[m] \/ outbox'[m].status = "abandoned"
  BY <1>1, <1>2, Abandoned
<1>4. UnsettledIsCurrent' /\ DeliveredInFull'
  BY <1>1, <1>3 DEF OutboxInv, UnsettledIsCurrent, DeliveredInFull, Unsettled, PartsOf
<1>5. ReceiptsAreOfTaken' /\ SendsFirstUnsent' /\ AnswerIsOfTaken'
  BY <1>1 DEF OutboxInv, ReceiptsAreOfTaken, SendsFirstUnsent, AnswerIsOfTaken,
              FirstUnsent, PartsOf
<1>6. OutboxTypeOK'
  BY <1>1, <1>3 DEF OutboxInv, OutboxTypeOK, Row
<1> QED
  BY <1>4, <1>5, <1>6 DEF OutboxInv

\* A step of a disconnection or of a binding.
LEMMA BindingKeeps ==
  ASSUME OutboxInv,
         \/ StartBinding \/ Rebind \/ BeginDisconnect \/ Revoke \/ FailDisconnect
         \/ ClearProvider \/ EndDisconnect
  PROVE  OutboxInv'
  BY RebindKeeps, GateTurns, ClearProviderKeeps, EndDisconnectKeeps

-----------------------------------------------------------------------------
(* What the modules that extend ImOutbox do to the table.                  *)

\* What the table calls delivered the platform has taken some part of.
LEMMA DeliveredIsTaken ==
  ASSUME OutboxInv, NEW m \in Message, outbox[m].status = "delivered"
  PROVE  taken[m] # {}
<1>1. taken[m] = 1..PartsOf(m) /\ PartsOf(m) \in 1..Parts
  BY PartsOfMessage DEF OutboxInv, DeliveredInFull
<1>2. 1 \in 1..PartsOf(m)
  BY <1>1, OutboxAssumption
<1> QED
  BY <1>1, <1>2

\* Rows are abandoned, and nothing else happens.
LEMMA AbandonStays ==
  ASSUME OutboxInv, NEW S, outbox' = Abandon(outbox, S),
         UNCHANGED <<flight, receipts, taken, binding, bound, gate>>
  PROVE  OutboxInv'
<1>1. outbox' \in [Message -> Row] /\ UnsettledIsCurrent' /\ DeliveredInFull'
  BY AbandonKeeps
<1>2. ReceiptsAreOfTaken' /\ SendsFirstUnsent' /\ AnswerIsOfTaken'
  BY DEF OutboxInv, ReceiptsAreOfTaken, SendsFirstUnsent, AnswerIsOfTaken, FirstUnsent, PartsOf
<1>3. OutboxTypeOK'
  BY <1>1 DEF OutboxInv, OutboxTypeOK, Row
<1> QED
  BY <1>1, <1>2, <1>3 DEF OutboxInv

\* A row is added under the binding there is.
LEMMA EnqueueKeeps ==
  ASSUME OutboxInv, NEW m \in Message, bound, outbox' = Enqueued(outbox, m, binding),
         UNCHANGED <<flight, receipts, taken, binding, bound, gate>>
  PROVE  OutboxInv'
<1>1. [status |-> "pending", attempts |-> 0, generation |-> binding] \in Row
  <2>1. 0 \in 0..MaxClaims /\ binding \in 0..MaxGeneration
    BY OutboxAssumption DEF OutboxInv, OutboxTypeOK
  <2> QED
    BY <2>1 DEF Row
<1>2. outbox' \in [Message -> Row]
  BY <1>1 DEF OutboxInv, OutboxTypeOK, Row, Enqueued
<1>3. \A k \in Message :
        outbox'[k] = IF k = m
                       THEN [status |-> "pending", attempts |-> 0, generation |-> binding]
                       ELSE outbox[k]
  BY DEF OutboxInv, OutboxTypeOK, Enqueued
<1>4. UnsettledIsCurrent' /\ DeliveredInFull'
  BY <1>3 DEF OutboxInv, UnsettledIsCurrent, DeliveredInFull, Unsettled, Current, PartsOf
<1>5. ReceiptsAreOfTaken' /\ SendsFirstUnsent' /\ AnswerIsOfTaken'
  BY DEF OutboxInv, ReceiptsAreOfTaken, SendsFirstUnsent, AnswerIsOfTaken, FirstUnsent, PartsOf
<1>6. OutboxTypeOK'
  BY <1>2 DEF OutboxInv, OutboxTypeOK, Row
<1> QED
  BY <1>4, <1>5, <1>6 DEF OutboxInv

\* A step that leaves the outbox alone.
LEMMA OutboxStutters ==
  ASSUME OutboxInv, UNCHANGED outboxVars
  PROVE  OutboxInv'
  BY GateKeeps DEF outboxVars, OutboxInv, OutboxTypeOK

\* A step of the flush.
LEMMA FlushKeeps ==
  ASSUME OutboxInv, NEW stopped,
         \/ ClaimPendingOutbox(stopped)
         \/ \E m \in Message : AuthorizeOutbox(m, stopped)
         \/ PlatformTakes \/ SendSucceeds \/ SendFails
  PROVE  OutboxInv'
  BY ClaimKeeps, AuthorizeKeeps, TakesKeeps, SendSucceedsKeeps, SendFailsKeeps

-----------------------------------------------------------------------------
\* A part that has a receipt is not sent again: what is sent next is the first
\* part without one.
LEMMA OnlyUnsentIsTaken ==
  ASSUME OutboxInv, PlatformTakes
  PROVE  flight'.part > receipts[flight.sending]
<1>1. flight.sending \in Message /\ flight.part = receipts[flight.sending] + 1
  BY DEF OutboxInv, OutboxTypeOK, Batches, PlatformTakes, SendsFirstUnsent, FirstUnsent
<1>2. receipts[flight.sending] \in Nat /\ flight'.part = flight.part
  BY <1>1 DEF OutboxInv, OutboxTypeOK, Batches, PlatformTakes
<1> QED
  BY <1>1, <1>2

\* Only the platform's taking of a part puts an answer on the way.
LEMMA OthersAnswerNothing ==
  ASSUME OutboxInv, NEW stopped,
         \/ ClaimPendingOutbox(stopped)
         \/ \E m \in Message : AuthorizeOutbox(m, stopped)
         \/ SendSucceeds \/ SendFails \/ OutboxCrash
         \/ UNCHANGED flight
  PROVE  flight'.has => flight.has
<1>1. CASE ClaimPendingOutbox(stopped)
  BY <1>1 DEF ClaimPendingOutbox, Idle
<1>2. CASE \E m \in Message : AuthorizeOutbox(m, stopped)
  <2>1. flight \in Batches /\ ~flight.has
    BY <1>2 DEF OutboxInv, OutboxTypeOK, Batches, AuthorizeOutbox, AnswerIsOfTaken
  <2>2. PICK m \in Message : AuthorizeOutbox(m, stopped)
    BY <1>2
  <2>3. \/ flight' = Idle
        \/ flight' = [flight EXCEPT !.batch = @ \ {m}]
        \/ flight' = [[flight EXCEPT !.batch = @ \ {m}] EXCEPT !.sending = m,
                                                              !.part = FirstUnsent(m)]
    BY <2>2 DEF AuthorizeOutbox
  <2> QED
    BY <2>1, <2>3, AtEase DEF Batches
<1>3. CASE SendSucceeds
  BY <1>3 DEF SendSucceeds
<1>4. CASE SendFails \/ OutboxCrash
  <2>1. flight.batch \subseteq Message
    BY DEF OutboxInv, OutboxTypeOK
  <2> QED
    BY <1>4, <2>1, AtEase DEF SendFails, OutboxCrash, NextOfBatch
<1> QED
  BY <1>1, <1>2, <1>3, <1>4

-----------------------------------------------------------------------------
(* What a step of the outbox does to one row.                              *)

\* A row is not reopened, and only one that was open is delivered; what the
\* platform has taken stays taken.
Advances(m) ==
  /\ Unsettled(outbox'[m]) => Unsettled(outbox[m])
  /\ outbox'[m].status = "delivered" => outbox[m].status = "delivered" \/ Unsettled(outbox[m])
  /\ taken[m] \subseteq taken'[m]

LEMMA ClaimAdvances ==
  ASSUME OutboxInv, NEW stopped, ClaimPendingOutbox(stopped), NEW m \in Message
  PROVE  Advances(m)
<1> DEFINE outdated == {k \in Message : ~Current(outbox[k])}
           live == Abandon(outbox, (stopped \cap Reminder) \cup outdated)
<1>1. PICK batch \in SUBSET Claimable(live) :
        outbox' = [k \in Message |->
          IF k \in batch \cap Reminder THEN [live[k] EXCEPT !.attempts = @ + 1] ELSE live[k]]
  BY DEF ClaimPendingOutbox
<1>2. outbox \in [Message -> Row]
  BY DEF OutboxInv, OutboxTypeOK, Row
<1>3. live \in [Message -> Row] /\ (live[m] = outbox[m] \/ live[m].status = "abandoned")
  BY <1>2, Abandoned
<1> HIDE DEF live
<1>4. outbox'[m].status = live[m].status
  BY <1>1, <1>3 DEF Row
<1> QED
  BY <1>3, <1>4 DEF Advances, Unsettled, ClaimPendingOutbox

LEMMA AuthorizeAdvances ==
  ASSUME OutboxInv, NEW k \in Message, NEW stopped, AuthorizeOutbox(k, stopped),
         NEW m \in Message
  PROVE  Advances(m)
<1> DEFINE live == Abandon(outbox, stopped \cap Reminder)
<1>1. \/ outbox' = outbox \/ outbox' = live \/ outbox' = Acknowledged(live, k, TRUE)
  BY DEF AuthorizeOutbox
<1>2. outbox \in [Message -> Row]
  BY DEF OutboxInv, OutboxTypeOK, Row
<1>3. /\ live \in [Message -> Row]
      /\ \A j \in Message : live[j] = outbox[j] \/ live[j].status = "abandoned"
  BY <1>2, Abandoned
<1> HIDE DEF live
<1>4. CASE outbox' = Acknowledged(live, k, TRUE)
  <2>1. \/ outbox'[m] = live[m]
        \/ Unsettled(live[m]) /\ outbox'[m].status = "delivered"
    BY <1>3, <1>4 DEF Acknowledged, Row
  <2> QED
    BY <1>3, <2>1 DEF Advances, Unsettled, AuthorizeOutbox
<1> QED
  BY <1>1, <1>3, <1>4 DEF Advances, Unsettled, AuthorizeOutbox

LEMMA SendAdvances ==
  ASSUME OutboxInv, PlatformTakes \/ SendSucceeds \/ SendFails, NEW m \in Message
  PROVE  Advances(m)
<1>1. outbox \in [Message -> Row] /\ flight.sending \in Message \cup {Nothing}
  BY DEF OutboxInv, OutboxTypeOK, Row
<1>2. CASE PlatformTakes
  <2>1. taken[m] \subseteq taken'[m]
    BY <1>2 DEF PlatformTakes, OutboxInv, OutboxTypeOK
  <2> QED
    BY <1>2, <2>1 DEF Advances, PlatformTakes
<1>3. CASE SendSucceeds \/ SendFails
  <2>1. \/ outbox' = outbox
        \/ \E delivered \in BOOLEAN : outbox' = Acknowledged(outbox, flight.sending, delivered)
    BY <1>3 DEF SendSucceeds, SendFails
  <2>2. flight.sending \in Message
    BY <1>1, <1>3 DEF OutboxInv, AnswerIsOfTaken, SendSucceeds, SendFails
  <2>3. outbox'[m] = outbox[m] \/ Unsettled(outbox[m])
    BY <1>1, <2>1, <2>2, AcknowledgedRows
  <2>4. UNCHANGED taken
    BY <1>3 DEF SendSucceeds, SendFails
  <2> QED
    BY <2>3, <2>4 DEF Advances
<1> QED
  BY <1>2, <1>3

LEMMA BindingAdvances ==
  ASSUME OutboxInv,
         \/ StartBinding \/ Rebind \/ BeginDisconnect \/ Revoke \/ FailDisconnect
         \/ ClearProvider \/ EndDisconnect \/ OutboxCrash,
         NEW m \in Message
  PROVE  Advances(m)
<1>1. outbox \in [Message -> Row]
  BY DEF OutboxInv, OutboxTypeOK, Row
<1>2. outbox' = outbox \/ outbox' = Abandon(outbox, Message)
  BY DEF StartBinding, Rebind, BeginDisconnect, Revoke, FailDisconnect, ClearProvider,
         EndDisconnect, OutboxCrash
<1>3. outbox'[m] = outbox[m] \/ outbox'[m].status = "abandoned"
  BY <1>1, <1>2, Abandoned
<1>4. UNCHANGED taken
  BY DEF StartBinding, Rebind, BeginDisconnect, Revoke, FailDisconnect, ClearProvider,
         EndDisconnect, OutboxCrash
<1> QED
  BY <1>3, <1>4 DEF Advances, Unsettled
=============================================================================
