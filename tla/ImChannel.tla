----------------------------- MODULE ImChannel ------------------------------
(***************************************************************************)
(* A chat with the companion over an instant messenger: the platform       *)
(* repeats events; the bundled gateway keeps them in a durable spool and   *)
(* one worker hands them to the service (im/local-gateway.ts,              *)
(* im/local-spool.ts); the service claims each in im_inbound_events, has   *)
(* the model answer, and completes it together with its reply's row in     *)
(* im_outbox (im/service.ts, im/repository.ts), which ImOutbox sends.      *)
(*                                                                         *)
(* Spool, events and rows survive a crash.  The owner's direct chat with a *)
(* character chosen for the provider is modelled: events of others, of     *)
(* groups and of unrouted providers are refused before they are claimed.   *)
(* A message of ImOutbox is the event it answers.  The connections of the  *)
(* provider are numbered like its bindings: each has an id of its own.     *)
(***************************************************************************)
EXTENDS ImOutbox

CONSTANTS
  MaxArrivals,     \* bound: events the platform delivers, repetitions included
  MaxStarts,       \* bound: attempts of an event
  MaxCrashes       \* bound: restarts of the process

ASSUME ChannelAssumption ==
  /\ Reminder = {}
  /\ MaxArrivals \in Nat /\ MaxStarts \in Nat /\ MaxCrashes \in Nat

VARIABLES
  spool,       \* the spool's entry of each event
  inbound,     \* the row of each event in im_inbound_events
  worker,      \* the entry the worker is at, and how far
  arrivals,    \* deliveries by the platform
  worked,      \* history: times the model has worked on each event
  crashes

channelVars == <<spool, inbound, worker, arrivals, worked, crashes>>
vars == <<outboxVars, channelVars>>

NoEntry == [status |-> "none", connection |-> 0]
NoEvent == [status |-> "none", generation |-> 0, attempts |-> 0, error |-> "none"]
AtRest == [event |-> Nothing, connection |-> 0, phase |-> "rest", awaited |-> FALSE]

TypeOK ==
  /\ OutboxTypeOK
  /\ spool \in [Message -> [status : {"none", "pending", "dead"},
                            connection : 0..MaxGeneration]]
  /\ inbound \in [Message -> [status : {"none", "processing", "completed", "failed"},
                              generation : 0..MaxGeneration,
                              attempts : 0..MaxStarts,
                              error : {"none", "profile", "other"}]]
  /\ worker \in [event : Message \cup {Nothing}, connection : 0..MaxGeneration,
                 phase : {"rest", "validating", "handling", "replied"},
                 awaited : BOOLEAN]
  /\ arrivals \in 0..MaxArrivals
  /\ worked \in [Message -> Nat]
  /\ crashes \in 0..MaxCrashes

Init ==
  /\ OutboxInit
  /\ spool = [e \in Message |-> NoEntry]
  /\ inbound = [e \in Message |-> NoEvent]
  /\ worker = AtRest
  /\ arrivals = 0
  /\ worked = [e \in Message |-> 0]
  /\ crashes = 0

-----------------------------------------------------------------------------
\* The connector's callback, which asks for no binding: an event whose key is in
\* the spool is known.  The connection is one there has been (a callback that
\* downloads may outlive it), or the next, of a code that is confirmed and that
\* the service has still to learn of.
Enqueue(e, connection) ==
  /\ arrivals < MaxArrivals /\ spool[e] = NoEntry
  /\ connection <= binding \/ (~bound /\ gate = "open" /\ connection = binding + 1)
  /\ arrivals' = arrivals + 1
  /\ spool' = [spool EXCEPT ![e] = [status |-> "pending", connection |-> connection]]
  /\ UNCHANGED <<outboxVars, inbound, worker, worked, crashes>>

\* deadLetter, when the entry is still there.
Dead(e) == IF spool[e] = NoEntry THEN spool
           ELSE [spool EXCEPT ![e].status = "dead"]

\* Mutant of MayStart: an event that failed is handed to the model again.
MayStartAgain(e) == inbound[e].status \in {"none", "failed"}

\* claimInboundEvent grants a new event; processInboundEvent takes a failed one
\* up again when it failed for want of the assistant's profile only.
MayStart(e) ==
  \/ inbound[e].status = "none"
  \/ inbound[e].status = "failed" /\ inbound[e].error = "profile"

Start(e) ==
  /\ MayStart(e) /\ inbound[e].attempts < MaxStarts
  /\ inbound' = [inbound EXCEPT ![e] =
       [status |-> "processing", generation |-> binding,
        attempts |-> @.attempts + 1, error |-> "none"]]
  /\ worker' = [worker EXCEPT !.phase = "handling"]
  /\ UNCHANGED spool

At(e, phase) == worker.event = e /\ worker.phase = phase

\* The worker takes a due entry, while the provider is not blocked, and reads its
\* attachments.  (It takes ten at a time: those the spool has lost by their turn
\* are like those it loses while their attachments are read.)
PickEntry(e) ==
  /\ worker = AtRest /\ ~Blocked /\ spool[e].status = "pending"
  /\ worker' = [AtRest EXCEPT !.event = e, !.connection = spool[e].connection,
                              !.phase = "validating"]
  /\ UNCHANGED <<outboxVars, spool, inbound, arrivals, worked, crashes>>

\* The attachments cannot be read, or the service is paused: the entry is buried
\* for an error known to be permanent, and kept for another try for any other.
FailBeforeClaim(e) ==
  /\ At(e, "validating")
  /\ spool' = spool \/ spool' = Dead(e)
  /\ worker' = AtRest
  /\ UNCHANGED <<outboxVars, inbound, arrivals, worked, crashes>>

\* IM_BINDING_NOT_FOUND, which is no permanent error: the entry of a connection the
\* service does not know, yet or any more, is kept for another try.
Unknown == ~(bound /\ worker.connection = binding)

\* The event was claimed under a former binding: a conflict, which is permanent.
ClaimedBefore(e) == inbound[e] # NoEvent /\ inbound[e].generation # binding

\* Mutant of ReceiveInboundEvent: an event that failed before is not an error the
\* worker knows to be permanent.
ReceiveRetryingFailed(e) ==
  /\ At(e, "validating")
  /\ \/ /\ ~Unknown /\ ~ClaimedBefore(e) /\ Start(e)
     \/ /\ \/ Unknown /\ UNCHANGED spool
           \/ ~Unknown /\ ClaimedBefore(e) /\ spool' = Dead(e)
           \/ /\ ~Unknown /\ ~ClaimedBefore(e)
              /\ inbound[e].status = "failed" /\ ~MayStart(e) /\ UNCHANGED spool
           \/ /\ ~Unknown /\ ~ClaimedBefore(e) /\ inbound[e].status = "completed"
              /\ spool' = [spool EXCEPT ![e] = NoEntry]
        /\ worker' = AtRest /\ UNCHANGED inbound
  /\ UNCHANGED <<outboxVars, arrivals, worked, crashes>>

\* The service is handed the event, whatever the gate is by now: it is claimed, or
\* refused; one that failed before is buried and one that is completed removed.
ReceiveInboundEvent(e) ==
  /\ At(e, "validating")
  /\ \/ /\ ~Unknown /\ ~ClaimedBefore(e) /\ Start(e)
     \/ /\ \/ Unknown /\ UNCHANGED spool
           \/ ~Unknown /\ ClaimedBefore(e) /\ spool' = Dead(e)
           \/ /\ ~Unknown /\ ~ClaimedBefore(e)
              /\ inbound[e].status = "failed" /\ ~MayStart(e) /\ spool' = Dead(e)
           \/ /\ ~Unknown /\ ~ClaimedBefore(e) /\ inbound[e].status = "completed"
              /\ spool' = [spool EXCEPT ![e] = NoEntry]
        /\ worker' = AtRest /\ UNCHANGED inbound
  /\ UNCHANGED <<outboxVars, arrivals, worked, crashes>>

Worked(e) == worked' = [worked EXCEPT ![e] = @ + 1]

\* The model has answered: the event and its reply are stored together, unless
\* the binding has changed under the model.
CompleteInboundEvent(e) ==
  /\ At(e, "handling")
  /\ Worked(e)
  /\ IF bound /\ inbound[e].generation = binding
       THEN /\ inbound' = [inbound EXCEPT ![e].status = "completed"]
            /\ outbox' = Enqueued(outbox, e, inbound[e].generation)
            /\ worker' = [worker EXCEPT !.phase = "replied", !.awaited = FALSE]
            /\ UNCHANGED spool
       ELSE /\ inbound' = [inbound EXCEPT ![e].status = "failed", ![e].error = "other"]
            /\ spool' = Dead(e)
            /\ worker' = AtRest
            /\ UNCHANGED outbox
  /\ UNCHANGED <<flight, receipts, taken, binding, bound, gate, arrivals, crashes>>

\* The handler throws, before (no profile) or after the model's work; the entry
\* stays in the spool for another try, unless the error is a permanent one.
FailInboundEvent(e, error) ==
  /\ At(e, "handling")
  /\ inbound' = [inbound EXCEPT ![e].status = "failed", ![e].error = error]
  /\ IF error = "profile"
       THEN inbound[e].attempts < MaxStarts /\ UNCHANGED <<spool, worked>>
       ELSE Worked(e) /\ (spool' = spool \/ spool' = Dead(e))
  /\ worker' = AtRest
  /\ UNCHANGED <<outboxVars, arrivals, crashes>>

\* The worker has the receipt and removes the entry.
CompleteEntry(e) ==
  /\ At(e, "replied")
  /\ spool' = [spool EXCEPT ![e] = NoEntry]
  /\ worker' = AtRest
  /\ UNCHANGED <<outboxVars, inbound, arrivals, worked, crashes>>

\* Mutant of Recovered: an interrupted event is forgotten at the start.
RecoveredAfresh ==
  [e \in Message |-> IF inbound[e].status = "processing" THEN NoEvent ELSE inbound[e]]

\* recoverInterruptedInboundEvents, when the service is constructed.
Recovered ==
  [e \in Message |-> IF inbound[e].status = "processing"
                       THEN [inbound[e] EXCEPT !.status = "failed", !.error = "other"]
                       ELSE inbound[e]]

\* The process ends and is started again; the model may have worked by then.
Crash ==
  /\ crashes < MaxCrashes
  /\ crashes' = crashes + 1
  /\ OutboxCrash
  /\ inbound' = Recovered
  /\ worker' = AtRest
  /\ worked' = [e \in Message |->
       IF At(e, "handling") THEN worked[e] + 1 ELSE worked[e]]
  /\ UNCHANGED <<spool, arrivals>>

\* The disconnection waits for an event that is being answered when it begins, not
\* for one whose attachments are being read, and clears the provider's entries.
Disconnect ==
  \/ /\ BeginDisconnect
     /\ worker' = [worker EXCEPT !.awaited = (@ \/ worker.phase = "handling")]
     /\ UNCHANGED <<spool, inbound, arrivals, worked, crashes>>
  \/ Revoke /\ UNCHANGED channelVars
  \/ FailDisconnect /\ ~worker.awaited /\ UNCHANGED channelVars
  \/ /\ ClearProvider /\ ~worker.awaited
     /\ spool' = [e \in Message |-> NoEntry]
     /\ UNCHANGED <<inbound, worker, arrivals, worked, crashes>>
  \/ EndDisconnect /\ UNCHANGED channelVars

Flush ==
  /\ \/ ClaimPendingOutbox({})
     \/ \E m \in Message : AuthorizeOutbox(m, {})
     \/ PlatformTakes
     \/ SendSucceeds
     \/ SendFails
  /\ UNCHANGED channelVars

Next ==
  \/ \E e \in Message : \/ \E connection \in 1..MaxGeneration : Enqueue(e, connection)
                        \/ PickEntry(e)
                        \/ FailBeforeClaim(e)
                        \/ ReceiveInboundEvent(e)
                        \/ CompleteInboundEvent(e)
                        \/ FailInboundEvent(e, "profile")
                        \/ FailInboundEvent(e, "other")
                        \/ CompleteEntry(e)
  \/ Flush
  \/ (StartBinding \/ Rebind) /\ UNCHANGED channelVars
  \/ Disconnect
  \/ Crash

Spec == Init /\ [][Next]_vars

\* The worker's timer and the flush's keep running, every due entry is taken in its
\* turn, the handler ends, what fails before the claim does not fail for ever, and a
\* platform that is asked again and again answers in the end.
Fairness ==
  /\ WF_vars(\E e \in Message : \/ ReceiveInboundEvent(e)
                                \/ CompleteInboundEvent(e)
                                \/ FailInboundEvent(e, "other")
                                \/ CompleteEntry(e))
  /\ \A e \in Message : SF_vars(PickEntry(e)) /\ SF_vars(ReceiveInboundEvent(e))
  /\ SF_vars(/\ ClaimPendingOutbox({}) /\ flight'.batch = Claimable(outbox)
             /\ UNCHANGED channelVars)
  /\ WF_vars((\E m \in Message : AuthorizeOutbox(m, {})) /\ UNCHANGED channelVars)
  /\ SF_vars(PlatformTakes /\ UNCHANGED channelVars)
  /\ SF_vars(SendSucceeds /\ UNCHANGED channelVars)

FairSpec == Spec /\ Fairness

-----------------------------------------------------------------------------
(* Properties.                                                             *)

\* The model works on an event at most once, however often the platform repeats
\* it, the worker retries it and the process restarts in the middle of it: what
\* the model did (it speaks, remembers, acts) cannot be undone, so an event whose
\* end is unknown is failed, not repeated.
WorkedOnce == \A e \in Message : worked[e] <= 1

\* A part the spool has a receipt for is not sent again: not by a retry of the
\* message and not after a restart.
ReceiptStopsSending ==
  [][flight'.has /\ ~flight.has => flight.part > receipts[flight.sending]]_vars

\* The entry is of the connection there is, and the worker may take it.
InForce(e) == bound /\ spool[e].connection = binding /\ ~Blocked

\* What the spool holds for the connection there is comes to rest: it is answered,
\* refused or buried, over failures, restarts and a binding that is learned late.
\* (An entry of any other connection is tried again and again, to no end.)
EventIsSettled ==
  \A e \in Message : spool[e].status = "pending" /\ InForce(e)
                       ~> spool[e].status # "pending" \/ ~InForce(e)

\* While the gateway can send, a reply is delivered or given up.
ReplyIsSettled ==
  \A e \in Message : Unsettled(outbox[e]) ~> ~Unsettled(outbox[e]) \/ gate # "open"
=============================================================================
