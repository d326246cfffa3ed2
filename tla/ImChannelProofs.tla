-------------------------- MODULE ImChannelProofs --------------------------
(***************************************************************************)
(* Proofs about ImChannel for any events, any numbers of parts, bindings,  *)
(* deliveries, attempts and restarts.                                      *)
(***************************************************************************)
EXTENDS ImChannel, ImOutboxProofs

-----------------------------------------------------------------------------
(* The inductive invariant.                                                *)

\* The event that is being answered is one that is claimed.
HandledIsProcessing ==
  worker.phase = "handling" => /\ worker.event \in Message
                               /\ inbound[worker.event].status = "processing"

\* The model has not worked yet on an event that it may be given.
UnworkedMayStart ==
  \A e \in Message :
    /\ MayStart(e) \/ inbound[e].status = "processing" => worked[e] = 0
    /\ worked[e] <= 1

Entry == [status : {"none", "pending", "dead"}, connection : 0..MaxGeneration]
Event == [status : {"none", "processing", "completed", "failed"},
          generation : 0..MaxGeneration, attempts : 0..MaxStarts,
          error : {"none", "profile", "other"}]

Worker == [event : Message \cup {Nothing}, connection : 0..MaxGeneration,
           phase : {"rest", "validating", "handling", "replied"}, awaited : BOOLEAN]

\* What TypeOK says of the variables of this module.
ChannelTyped ==
  /\ spool \in [Message -> Entry]
  /\ inbound \in [Message -> Event]
  /\ worker \in Worker
  /\ arrivals \in 0..MaxArrivals
  /\ worked \in [Message -> Nat]
  /\ crashes \in 0..MaxCrashes

Inductive == ChannelTyped /\ OutboxInv /\ HandledIsProcessing /\ UnworkedMayStart

LEMMA Types ==
  TypeOK <=> OutboxTypeOK /\ ChannelTyped
  BY DEF TypeOK, ChannelTyped, Entry, Event, Worker

LEMMA Starts ==
  ASSUME Init
  PROVE  Inductive
<1>1. OutboxInv
  BY OutboxStarts DEF Init
<1>2. /\ 0 \in 0..MaxGeneration /\ 0 \in 0..MaxStarts /\ 0 \in 0..MaxArrivals
      /\ 0 \in 0..MaxCrashes
  BY OutboxAssumption, ChannelAssumption
<1>3. ChannelTyped
  BY <1>2 DEF Init, ChannelTyped, Entry, Event, Worker, NoEntry, NoEvent, AtRest
<1>4. HandledIsProcessing /\ UnworkedMayStart
  BY DEF Init, HandledIsProcessing, UnworkedMayStart, AtRest
<1> QED
  BY <1>1, <1>3, <1>4 DEF Inductive

-----------------------------------------------------------------------------
(* The worker.                                                             *)

\* What the spool is once an entry is buried or removed, or all are.
LEMMA Buried ==
  ASSUME ChannelTyped, NEW e \in Message
  PROVE  /\ Dead(e) \in [Message -> Entry]
         /\ [spool EXCEPT ![e] = NoEntry] \in [Message -> Entry]
         /\ [d \in Message |-> NoEntry] \in [Message -> Entry]
<1>1. 0 \in 0..MaxGeneration
  BY OutboxAssumption
<1> QED
  BY <1>1 DEF ChannelTyped, Dead, Entry, NoEntry

\* The worker has let its entry go.
LEMMA Resting ==
  AtRest \in Worker /\ AtRest.phase # "handling" /\ AtRest.phase = "rest"
<1>1. 0 \in 0..MaxGeneration
  BY OutboxAssumption
<1> QED
  BY <1>1 DEF AtRest, Worker

\* A step that leaves the events and the work on them alone.
LEMMA EventsStutter ==
  ASSUME Inductive,
         \/ worker'.phase # "handling"
         \/ worker'.phase = worker.phase /\ worker'.event = worker.event,
         UNCHANGED <<inbound, worked>>
  PROVE  HandledIsProcessing' /\ UnworkedMayStart'
  BY DEF Inductive, HandledIsProcessing, UnworkedMayStart, MayStart

LEMMA EnqueueEventKeeps ==
  ASSUME Inductive, NEW e \in Message, NEW connection \in 1..MaxGeneration,
         Enqueue(e, connection)
  PROVE  Inductive'
<1>1. UNCHANGED <<outboxVars, inbound, worker, worked, crashes>>
      /\ arrivals' = arrivals + 1 /\ arrivals < MaxArrivals
      /\ spool' = [spool EXCEPT ![e] = [status |-> "pending", connection |-> connection]]
  BY DEF Enqueue
<1>2. OutboxInv'
  BY <1>1, OutboxStutters DEF Inductive
<1>3. ChannelTyped /\ connection \in 0..MaxGeneration
  BY OutboxAssumption DEF Inductive
<1>4. ChannelTyped'
  BY <1>1, <1>3, ChannelAssumption DEF ChannelTyped, Entry
<1>5. HandledIsProcessing' /\ UnworkedMayStart'
  BY <1>1, EventsStutter
<1> QED
  BY <1>2, <1>4, <1>5 DEF Inductive

\* A step of the worker that leaves the events alone and does not begin one.
LEMMA WorkerKeeps ==
  ASSUME Inductive, worker' \in Worker, worker'.phase # "handling",
         spool' \in [Message -> Entry],
         UNCHANGED <<outboxVars, inbound, arrivals, worked, crashes>>
  PROVE  Inductive'
<1>1. OutboxInv'
  BY OutboxStutters DEF Inductive
<1>2. ChannelTyped'
  BY DEF Inductive, ChannelTyped
<1>3. HandledIsProcessing' /\ UnworkedMayStart'
  BY EventsStutter
<1> QED
  BY <1>1, <1>2, <1>3 DEF Inductive

LEMMA PickKeeps ==
  ASSUME Inductive, NEW e \in Message, PickEntry(e)
  PROVE  Inductive'
<1>1. ChannelTyped
  BY DEF Inductive
<1>2. spool[e].connection \in 0..MaxGeneration /\ spool' \in [Message -> Entry]
  BY <1>1 DEF ChannelTyped, Entry, PickEntry
<1>3. worker' \in Worker /\ worker'.phase # "handling"
  BY <1>2 DEF PickEntry, AtRest, Worker
<1> QED
  BY <1>2, <1>3, WorkerKeeps DEF PickEntry

LEMMA FailBeforeClaimKeeps ==
  ASSUME Inductive, NEW e \in Message, FailBeforeClaim(e)
  PROVE  Inductive'
<1>1. ChannelTyped
  BY DEF Inductive
<1>2. spool' \in [Message -> Entry]
  BY <1>1, Buried DEF ChannelTyped, FailBeforeClaim
<1> QED
  BY <1>2, Resting, WorkerKeeps DEF FailBeforeClaim

\* What is claimed is an event the model has not worked on.
LEMMA StartKeeps ==
  ASSUME Inductive, NEW e \in Message, At(e, "validating"), Start(e),
         UNCHANGED <<outboxVars, arrivals, worked, crashes>>
  PROVE  Inductive'
<1>1. OutboxInv'
  BY OutboxStutters DEF Inductive
<1>2. ChannelTyped /\ binding \in 0..MaxGeneration
  BY OutboxAssumption DEF Inductive, OutboxInv, OutboxTypeOK
<1>3. /\ MayStart(e) /\ inbound[e].attempts < MaxStarts /\ spool' = spool
      /\ inbound' = [inbound EXCEPT ![e] =
           [status |-> "processing", generation |-> binding,
            attempts |-> inbound[e].attempts + 1, error |-> "none"]]
      /\ worker' = [worker EXCEPT !.phase = "handling"]
  BY DEF Start
<1>4. worker' \in Worker /\ worker'.event = e
  BY <1>2, <1>3 DEF ChannelTyped, Worker, At
<1>5. inbound[e].attempts + 1 \in 0..MaxStarts
  BY <1>2, <1>3, ChannelAssumption DEF ChannelTyped, Event
<1>6. ChannelTyped'
  BY <1>2, <1>3, <1>4, <1>5 DEF ChannelTyped, Event
<1>7. \A d \in Message :
        inbound'[d] = IF d = e THEN [status |-> "processing", generation |-> binding,
                                     attempts |-> inbound[e].attempts + 1, error |-> "none"]
                      ELSE inbound[d]
  BY <1>2, <1>3 DEF ChannelTyped
<1>8. HandledIsProcessing'
  BY <1>4, <1>7 DEF HandledIsProcessing
<1>9. UnworkedMayStart'
  BY <1>3, <1>7 DEF Inductive, UnworkedMayStart, MayStart
<1> QED
  BY <1>1, <1>6, <1>8, <1>9 DEF Inductive

LEMMA ReceiveKeeps ==
  ASSUME Inductive, NEW e \in Message, ReceiveInboundEvent(e)
  PROVE  Inductive'
<1>1. At(e, "validating") /\ UNCHANGED <<outboxVars, arrivals, worked, crashes>>
  BY DEF ReceiveInboundEvent
<1>2. CASE Start(e)
  BY <1>1, <1>2, StartKeeps
<1>3. CASE ~Start(e)
  <2>1. /\ \/ spool' = spool \/ spool' = Dead(e) \/ spool' = [spool EXCEPT ![e] = NoEntry]
        /\ worker' = AtRest /\ UNCHANGED inbound
    BY <1>3 DEF ReceiveInboundEvent
  <2>2. ChannelTyped
    BY DEF Inductive
  <2>3. spool' \in [Message -> Entry]
    BY <2>1, <2>2, Buried DEF ChannelTyped
  <2> QED
    BY <1>1, <2>1, <2>3, Resting, WorkerKeeps
<1> QED
  BY <1>2, <1>3

\* The end of the work on an event: the event is settled, the worker lets go.
LEMMA EndOfWork ==
  ASSUME Inductive, NEW e \in Message, At(e, "handling"),
         worker'.phase # "handling",
         inbound' \in [Message -> Event],
         \A d \in Message \ {e} : inbound'[d] = inbound[d],
         \/ inbound'[e].status = "completed" /\ Worked(e)
         \/ inbound'[e].status = "failed" /\ inbound'[e].error = "other" /\ Worked(e)
         \/ inbound'[e].status = "failed" /\ UNCHANGED worked
  PROVE  /\ worked' \in [Message -> Nat]
         /\ HandledIsProcessing' /\ UnworkedMayStart'
<1>1. worked \in [Message -> Nat] /\ worked[e] = 0
  BY DEF Inductive, ChannelTyped, HandledIsProcessing, UnworkedMayStart, At
<1>2. /\ worked' \in [Message -> Nat]
      /\ \A d \in Message \ {e} : worked'[d] = worked[d]
      /\ \/ worked'[e] = 0
         \/ worked'[e] = 1 /\ inbound'[e].status # "none" /\ inbound'[e].status # "processing"
            /\ ~(inbound'[e].status = "failed" /\ inbound'[e].error = "profile")
  BY <1>1 DEF Worked
<1>3. UnworkedMayStart'
  BY <1>2 DEF Inductive, UnworkedMayStart, MayStart
<1>4. HandledIsProcessing'
  BY DEF HandledIsProcessing
<1> QED
  BY <1>2, <1>3, <1>4

LEMMA CompleteInboundKeeps ==
  ASSUME Inductive, NEW e \in Message, CompleteInboundEvent(e)
  PROVE  Inductive'
<1>1. /\ At(e, "handling") /\ Worked(e)
      /\ UNCHANGED <<flight, receipts, taken, binding, bound, gate, arrivals, crashes>>
  BY DEF CompleteInboundEvent
<1>2. ChannelTyped
  BY DEF Inductive
<1>3. CASE bound /\ inbound[e].generation = binding
  <2>1. /\ inbound' = [inbound EXCEPT ![e].status = "completed"]
        /\ outbox' = Enqueued(outbox, e, binding)
        /\ worker' = [worker EXCEPT !.phase = "replied", !.awaited = FALSE]
        /\ spool' = spool
    BY <1>3 DEF CompleteInboundEvent
  <2>2. /\ inbound' \in [Message -> Event] /\ inbound'[e].status = "completed"
        /\ \A d \in Message \ {e} : inbound'[d] = inbound[d]
    BY <1>2, <2>1 DEF ChannelTyped, Event
  <2>3. worker' \in Worker /\ worker'.phase # "handling"
    BY <1>2, <2>1 DEF ChannelTyped, Worker
  <2>4. worked' \in [Message -> Nat] /\ HandledIsProcessing' /\ UnworkedMayStart'
    BY <1>1, <2>2, <2>3, EndOfWork
  <2>5. ChannelTyped'
    BY <1>1, <1>2, <2>1, <2>2, <2>3, <2>4 DEF ChannelTyped
  <2>6. OutboxInv'
    BY <1>1, <1>3, <2>1, EnqueueKeeps DEF Inductive
  <2> QED
    BY <2>4, <2>5, <2>6 DEF Inductive
<1>4. CASE ~(bound /\ inbound[e].generation = binding)
  <2>1. /\ inbound' = [inbound EXCEPT ![e].status = "failed", ![e].error = "other"]
        /\ spool' = Dead(e) /\ worker' = AtRest /\ outbox' = outbox
    BY <1>4 DEF CompleteInboundEvent
  <2>2. /\ inbound' \in [Message -> Event]
        /\ inbound'[e].status = "failed" /\ inbound'[e].error = "other"
        /\ \A d \in Message \ {e} : inbound'[d] = inbound[d]
    BY <1>2, <2>1 DEF ChannelTyped, Event
  <2>3. worker' \in Worker /\ worker'.phase # "handling"
    BY <2>1, Resting
  <2>4. worked' \in [Message -> Nat] /\ HandledIsProcessing' /\ UnworkedMayStart'
    BY <1>1, <2>2, <2>3, EndOfWork
  <2>5. ChannelTyped'
    BY <1>1, <1>2, <2>1, <2>2, <2>3, <2>4, Buried DEF ChannelTyped
  <2>6. OutboxInv'
    BY <1>1, <2>1, OutboxStutters DEF Inductive, outboxVars
  <2> QED
    BY <2>4, <2>5, <2>6 DEF Inductive
<1> QED
  BY <1>3, <1>4

LEMMA FailInboundKeeps ==
  ASSUME Inductive, NEW e \in Message, NEW error \in {"profile", "other"},
         FailInboundEvent(e, error)
  PROVE  Inductive'
<1>1. /\ At(e, "handling") /\ worker' = AtRest
      /\ inbound' = [inbound EXCEPT ![e].status = "failed", ![e].error = error]
      /\ IF error = "profile" THEN UNCHANGED worked ELSE Worked(e)
      /\ spool' = spool \/ spool' = Dead(e)
      /\ UNCHANGED <<outboxVars, arrivals, crashes>>
  BY DEF FailInboundEvent
<1>2. ChannelTyped
  BY DEF Inductive
<1>3. /\ inbound' \in [Message -> Event]
      /\ inbound'[e].status = "failed" /\ inbound'[e].error = error
      /\ \A d \in Message \ {e} : inbound'[d] = inbound[d]
  BY <1>1, <1>2 DEF ChannelTyped, Event
<1>4. worker' \in Worker /\ worker'.phase # "handling"
  BY <1>1, Resting
<1>5. worked' \in [Message -> Nat] /\ HandledIsProcessing' /\ UnworkedMayStart'
  BY <1>1, <1>3, <1>4, EndOfWork
<1>6. ChannelTyped'
  BY <1>1, <1>2, <1>3, <1>4, <1>5, Buried DEF ChannelTyped
<1>7. OutboxInv'
  BY <1>1, OutboxStutters DEF Inductive
<1> QED
  BY <1>5, <1>6, <1>7 DEF Inductive

LEMMA CompleteEntryKeeps ==
  ASSUME Inductive, NEW e \in Message, CompleteEntry(e)
  PROVE  Inductive'
<1>1. ChannelTyped
  BY DEF Inductive
<1>2. spool' \in [Message -> Entry]
  BY <1>1, Buried DEF CompleteEntry
<1> QED
  BY <1>2, Resting, WorkerKeeps DEF CompleteEntry

-----------------------------------------------------------------------------
(* The end of the process, the binding and the flush.                      *)

\* What the next start makes of an event.
LEMMA RecoveredEvents ==
  ASSUME ChannelTyped
  PROVE  /\ Recovered \in [Message -> Event]
         /\ \A e \in Message :
              IF inbound[e].status = "processing"
                THEN Recovered[e].status = "failed" /\ Recovered[e].error = "other"
                ELSE Recovered[e] = inbound[e]
  BY DEF ChannelTyped, Recovered, Event

LEMMA CrashKeeps ==
  ASSUME Inductive, Crash
  PROVE  Inductive'
<1>1. /\ crashes < MaxCrashes /\ crashes' = crashes + 1 /\ OutboxCrash
      /\ inbound' = Recovered /\ worker' = AtRest /\ UNCHANGED <<spool, arrivals>>
      /\ worked' = [e \in Message |-> IF At(e, "handling") THEN worked[e] + 1 ELSE worked[e]]
  BY DEF Crash
<1>2. OutboxInv'
  BY <1>1, OutboxCrashKeeps DEF Inductive
<1>3. ChannelTyped
  BY DEF Inductive
<1>4. worked' \in [Message -> Nat]
  BY <1>1, <1>3 DEF ChannelTyped
<1>5. ChannelTyped'
  <2>1. worker' \in Worker
    BY <1>1, Resting
  <2>2. crashes' \in 0..MaxCrashes
    BY <1>1, <1>3, ChannelAssumption DEF ChannelTyped
  <2> QED
    BY <1>1, <1>3, <1>4, <2>1, <2>2, RecoveredEvents DEF ChannelTyped
<1>6. HandledIsProcessing'
  BY <1>1 DEF HandledIsProcessing, AtRest
<1>7. UnworkedMayStart'
  <2> SUFFICES ASSUME NEW e \in Message
               PROVE  /\ (MayStart(e) \/ inbound[e].status = "processing")' => worked'[e] = 0
                      /\ worked'[e] <= 1
    BY DEF UnworkedMayStart
  <2>1. /\ worked[e] <= 1 /\ worked[e] \in Nat
        /\ MayStart(e) \/ inbound[e].status = "processing" => worked[e] = 0
    BY <1>3 DEF Inductive, UnworkedMayStart, ChannelTyped
  <2>2. CASE inbound[e].status = "processing"
    <3>1. inbound'[e].status = "failed" /\ inbound'[e].error = "other"
      BY <1>1, <1>3, <2>2, RecoveredEvents
    <3>2. worked'[e] \in {0, 1}
      BY <1>1, <2>1, <2>2
    <3> QED
      BY <3>1, <3>2 DEF MayStart
  <2>3. CASE inbound[e].status # "processing"
    <3>1. inbound'[e] = inbound[e]
      BY <1>1, <1>3, <2>3, RecoveredEvents
    <3>2. ~At(e, "handling")
      BY <2>3 DEF Inductive, HandledIsProcessing, At
    <3>3. worked'[e] = worked[e]
      BY <1>1, <3>2
    <3> QED
      BY <2>1, <3>1, <3>3 DEF MayStart
  <2> QED
    BY <2>2, <2>3
<1> QED
  BY <1>2, <1>5, <1>6, <1>7 DEF Inductive

\* A step of the outbox alone.
LEMMA ChannelStutters ==
  ASSUME Inductive, OutboxInv', UNCHANGED channelVars
  PROVE  Inductive'
<1>1. ChannelTyped'
  BY DEF Inductive, ChannelTyped, channelVars
<1>2. HandledIsProcessing' /\ UnworkedMayStart'
  BY EventsStutter DEF channelVars
<1> QED
  BY <1>1, <1>2 DEF Inductive

LEMMA DisconnectKeeps ==
  ASSUME Inductive, Disconnect
  PROVE  Inductive'
<1>1. OutboxInv'
  BY BindingKeeps DEF Disconnect, Inductive
<1>2. CASE UNCHANGED channelVars
  BY <1>1, <1>2, ChannelStutters
<1>3. CASE /\ worker' = [worker EXCEPT !.awaited = (@ \/ worker.phase = "handling")]
           /\ UNCHANGED <<spool, inbound, arrivals, worked, crashes>>
  <2>1. worker' \in Worker /\ worker'.phase = worker.phase /\ worker'.event = worker.event
    BY <1>3 DEF Inductive, ChannelTyped, Worker
  <2>2. ChannelTyped'
    BY <1>3, <2>1 DEF Inductive, ChannelTyped
  <2>3. HandledIsProcessing' /\ UnworkedMayStart'
    BY <1>3, <2>1, EventsStutter
  <2> QED
    BY <1>1, <2>2, <2>3 DEF Inductive
<1>4. CASE /\ spool' = [e \in Message |-> NoEntry]
           /\ UNCHANGED <<inbound, worker, arrivals, worked, crashes>>
  <2>1. ChannelTyped /\ NoEntry \in Entry
    BY OutboxAssumption DEF Inductive, NoEntry, Entry
  <2>2. ChannelTyped'
    BY <1>4, <2>1 DEF ChannelTyped
  <2>3. HandledIsProcessing' /\ UnworkedMayStart'
    BY <1>4, EventsStutter
  <2> QED
    BY <1>1, <2>2, <2>3 DEF Inductive
<1> QED
  BY <1>2, <1>3, <1>4 DEF Disconnect

LEMMA StepKeeps ==
  ASSUME Inductive, [Next]_vars
  PROVE  Inductive'
<1>1. ASSUME NEW e \in Message,
             \/ \E connection \in 1..MaxGeneration : Enqueue(e, connection)
             \/ PickEntry(e) \/ FailBeforeClaim(e)
             \/ ReceiveInboundEvent(e) \/ CompleteInboundEvent(e)
             \/ FailInboundEvent(e, "profile") \/ FailInboundEvent(e, "other")
             \/ CompleteEntry(e)
      PROVE  Inductive'
  BY <1>1, EnqueueEventKeeps, PickKeeps, FailBeforeClaimKeeps, ReceiveKeeps,
     CompleteInboundKeeps, FailInboundKeeps, CompleteEntryKeeps
<1>2. CASE Flush
  BY <1>2, FlushKeeps, ChannelStutters DEF Flush, Inductive
<1>3. CASE (StartBinding \/ Rebind) /\ UNCHANGED channelVars
  BY <1>3, BindingKeeps, ChannelStutters DEF Inductive
<1>4. CASE UNCHANGED vars
  BY <1>4, OutboxStutters, ChannelStutters DEF vars, Inductive
<1> QED
  BY <1>1, <1>2, <1>3, <1>4, DisconnectKeeps, CrashKeeps DEF Next

-----------------------------------------------------------------------------
(* The theorems.                                                           *)

\* The events, the worker and the outbox are as the invariant says, always.
THEOREM InductiveHolds == Spec => []Inductive
<1>1. Init => Inductive
  BY Starts
<1>2. Inductive /\ [Next]_vars => Inductive'
  BY StepKeeps
<1> QED
  BY <1>1, <1>2, PTL DEF Spec

\* Every variable stays within its type: an event is started at most MaxStarts
\* times and carries a generation the provider has had.
THEOREM TypeCorrect == Spec => []TypeOK
<1>1. Inductive => TypeOK
  BY Types DEF Inductive, OutboxInv
<1> QED
  BY <1>1, InductiveHolds, PTL

\* The model works at most once on an event, whatever the platform repeats, the
\* worker retries and the process loses.
THEOREM EventsAreWorkedOnce == Spec => []WorkedOnce
<1>1. Inductive => WorkedOnce
  BY DEF Inductive, UnworkedMayStart, WorkedOnce
<1> QED
  BY <1>1, InductiveHolds, PTL

\* What the table calls delivered the platform has taken, every part of it.
THEOREM DeliveryIsComplete == Spec => []DeliveredInFull
<1>1. Inductive => DeliveredInFull
  BY DEF Inductive, OutboxInv
<1> QED
  BY <1>1, InductiveHolds, PTL

\* A row that is still to be sent is of the binding that stands.
THEOREM RowsAreCurrent == Spec => []UnsettledIsCurrent
<1>1. Inductive => UnsettledIsCurrent
  BY DEF Inductive, OutboxInv
<1> QED
  BY <1>1, InductiveHolds, PTL

\* No part with a receipt is sent again.
THEOREM ReceiptsAreHeeded == Spec => ReceiptStopsSending
<1>1. Inductive /\ [Next]_vars
        => [flight'.has /\ ~flight.has => flight.part > receipts[flight.sending]]_vars
  <2> SUFFICES ASSUME Inductive, Next, flight'.has, ~flight.has
               PROVE  flight.part > receipts[flight.sending]
    BY OutboxStutters DEF vars, outboxVars
  <2>1. OutboxInv
    BY DEF Inductive
  <2>2. ~OutboxCrash /\ ~(UNCHANGED flight)
    BY <2>1, OthersAnswerNothing
  <2>3. Flush
    BY <2>2 DEF Next, Enqueue, PickEntry, FailBeforeClaim, ReceiveInboundEvent,
                CompleteInboundEvent, FailInboundEvent, CompleteEntry, Crash, Disconnect,
                StartBinding, Rebind, BeginDisconnect, Revoke, FailDisconnect,
                ClearProvider, EndDisconnect, outboxVars
  <2>4. PlatformTakes
    BY <2>1, <2>3, OthersAnswerNothing DEF Flush
  <2>5. flight'.part = flight.part
    BY <2>4 DEF PlatformTakes, OutboxInv, OutboxTypeOK, Inductive
  <2> QED
    BY <2>1, <2>4, <2>5, OnlyUnsentIsTaken
<1> QED
  BY <1>1, InductiveHolds, PTL DEF Spec, ReceiptStopsSending
=============================================================================
