------------------------------ MODULE ImOutbox ------------------------------
(***************************************************************************)
(* The outgoing half of instant messaging: the im_outbox table             *)
(* (im/repository.ts), and the flush of the bundled gateway                *)
(* (im/local-gateway.ts) that claims rows, asks for authorisation, sends   *)
(* each part of a message to the platform, records a receipt for the part  *)
(* in its durable spool and acknowledges the row.                          *)
(*                                                                         *)
(* The table and the receipts survive a crash; the flush does not.  One    *)
(* provider is modelled.  A gateway flushes one batch at a time, so a      *)
(* lease is only ever claimed again when its holder is gone, and the token *)
(* of a row differs from its holder's only once the row is abandoned.      *)
(* What a row waits for before its next attempt (retryDelay, the minute of *)
(* an orphaned lease) may end at any moment, so that the attempts of a     *)
(* reply, which only lengthen that delay, are not counted.                 *)
(*                                                                         *)
(* `stopped' is the set of reminders that the schedule no longer wants     *)
(* sent; the modules that extend this one say which.                       *)
(***************************************************************************)
EXTENDS Naturals, FiniteSets

CONSTANTS
  Message,         \* rows of im_outbox, by what they answer or announce
  Reminder,        \* those that carry a schedule notification
  Parts,           \* text and attachments of a message that is not a reminder
  MaxClaims,       \* claims of a reminder (three in the code)
  MaxGeneration,   \* bound: bindings of the provider
  Nothing          \* no message

ASSUME OutboxAssumption ==
  /\ Reminder \subseteq Message /\ Nothing \notin Message
  /\ Parts \in Nat \ {0} /\ MaxClaims \in Nat \ {0} /\ MaxGeneration \in Nat \ {0}

VARIABLES
  outbox,      \* the row of each message
  flight,      \* the flush: rows of its batch, the row it sends, what the platform has
  receipts,    \* parts of each message the spool has a receipt for
  taken,       \* history: parts of each message the platform has ever taken
  binding,     \* generation of the newest binding
  bound,       \* that binding still stands
  gate         \* whether the gateway takes and sends, or how far a disconnection is

outboxVars == <<outbox, flight, receipts, taken, binding, bound, gate>>

\* open: it takes and sends.  A disconnection blocks it: closing until the connector
\* has revoked its credential, cleared once the spool has forgotten the provider,
\* shut when it is over or has failed.  severed: a crash came after the revocation
\* and before the binding was deleted; nothing is blocked, but nothing can be sent.
Gates == {"open", "closing", "revoked", "cleared", "shut", "severed"}
Blocked == gate \in {"closing", "revoked", "cleared", "shut"}

NoRow == [status |-> "none", attempts |-> 0, generation |-> 0]
Idle == [batch |-> {}, sending |-> Nothing, part |-> 0, has |-> FALSE]
PartsOf(m) == IF m \in Reminder THEN 1 ELSE Parts

OutboxTypeOK ==
  /\ outbox \in [Message -> [status : {"none", "pending", "failed", "delivered",
                                       "abandoned"},
                             attempts : 0..MaxClaims,
                             generation : 0..MaxGeneration]]
  /\ flight \in [batch : SUBSET Message, sending : Message \cup {Nothing},
                 part : 0..Parts, has : BOOLEAN]
  /\ receipts \in [Message -> 0..Parts]
  /\ taken \in [Message -> SUBSET (1..Parts)]
  /\ binding \in 1..MaxGeneration
  /\ bound \in BOOLEAN
  /\ gate \in Gates

OutboxInit ==
  /\ outbox = [m \in Message |-> NoRow]
  /\ flight = Idle
  /\ receipts = [m \in Message |-> 0]
  /\ taken = [m \in Message |-> {}]
  /\ binding = 1 /\ bound = TRUE
  /\ gate = "open"

-----------------------------------------------------------------------------
(* Rows.                                                                   *)

Unsettled(row) == row.status \in {"pending", "failed"}

\* The table with the unsettled rows among S abandoned.
Abandon(rows, S) ==
  [m \in Message |-> IF m \in S /\ Unsettled(rows[m])
                       THEN [rows[m] EXCEPT !.status = "abandoned"]
                       ELSE rows[m]]

Enqueued(rows, m, generation) ==
  [rows EXCEPT ![m] =
     [status |-> "pending", attempts |-> 0, generation |-> generation]]

\* The row belongs to the binding there is now.
Current(row) == bound /\ row.generation = binding

\* Mutant of Claimable: a row that failed once is not tried again.
ClaimablePending(rows) ==
  {m \in Message : /\ rows[m].status = "pending" /\ Current(rows[m])
                   /\ m \in Reminder => rows[m].attempts < MaxClaims}

Claimable(rows) ==
  {m \in Message : /\ Unsettled(rows[m]) /\ Current(rows[m])
                   /\ m \in Reminder => rows[m].attempts < MaxClaims}

\* acknowledgeOutbox: the caller holds the row's lease, or nothing changes.
Acknowledged(rows, m, delivered) ==
  IF Unsettled(rows[m]) /\ Current(rows[m])
    THEN [rows EXCEPT ![m].status = IF delivered THEN "delivered" ELSE "failed"]
    ELSE rows

-----------------------------------------------------------------------------
(* The flush.                                                              *)

\* Claim what may be claimed; the batch is what is due of it.
ClaimPendingOutbox(stopped) ==
  /\ flight = Idle /\ bound /\ gate = "open"
  /\ LET outdated == {m \in Message : ~Current(outbox[m])}
         live == Abandon(outbox, (stopped \cap Reminder) \cup outdated)
     IN \E batch \in SUBSET Claimable(live) :
          /\ outbox' = [m \in Message |->
               IF m \in batch \cap Reminder
                 THEN [live[m] EXCEPT !.attempts = @ + 1]
                 ELSE live[m]]
          /\ flight' = [Idle EXCEPT !.batch = batch]
  /\ UNCHANGED <<receipts, taken, binding, bound, gate>>

\* Mutant of FirstUnsent: the receipts of an earlier attempt are not read.
FirstPart(m) == 1

\* The part the next call sends: those with a receipt are skipped.
FirstUnsent(m) == receipts[m] + 1

\* Take a row of the batch: give the batch up during a disconnection; skip a row
\* that lost its lease; acknowledge one whose parts all have receipts; else send.
AuthorizeOutbox(m, stopped) ==
  /\ m \in flight.batch /\ flight.sending = Nothing
  /\ IF gate # "open"
       THEN flight' = Idle /\ UNCHANGED outbox
       ELSE LET live == Abandon(outbox, stopped \cap Reminder)
                rest == [flight EXCEPT !.batch = @ \ {m}]
            IN IF ~(Unsettled(live[m]) /\ Current(live[m]))
                 THEN outbox' = live /\ flight' = rest
               ELSE IF receipts[m] = PartsOf(m)
                 THEN outbox' = Acknowledged(live, m, TRUE) /\ flight' = rest
               ELSE /\ outbox' = live
                    /\ flight' = [rest EXCEPT !.sending = m, !.part = FirstUnsent(m)]
  /\ UNCHANGED <<receipts, taken, binding, bound, gate>>

\* The platform takes the part; its answer is still on the way.
PlatformTakes ==
  /\ flight.sending # Nothing /\ ~flight.has
  /\ flight' = [flight EXCEPT !.has = TRUE]
  /\ taken' = [taken EXCEPT ![flight.sending] = @ \cup {flight.part}]
  /\ UNCHANGED <<outbox, receipts, binding, bound, gate>>

NextOfBatch == [Idle EXCEPT !.batch = flight.batch]

\* Mutant of SendSucceeds: the message counts as sent with its first part.
SendSucceedsAtOnce ==
  /\ flight.has
  /\ receipts' = [receipts EXCEPT ![flight.sending] = flight.part]
  /\ flight' = NextOfBatch
  /\ outbox' = Acknowledged(outbox, flight.sending, TRUE)
  /\ UNCHANGED <<taken, binding, bound, gate>>

\* The answer of the platform: a receipt, then the next part or the acknowledgement.
SendSucceeds ==
  /\ flight.has
  /\ LET m == flight.sending
     IN /\ receipts' = [receipts EXCEPT ![m] = flight.part]
        /\ IF flight.part < PartsOf(m)
             THEN /\ flight' = [flight EXCEPT !.part = @ + 1, !.has = FALSE]
                  /\ UNCHANGED outbox
             ELSE /\ flight' = NextOfBatch
                  /\ outbox' = Acknowledged(outbox, m, TRUE)
  /\ UNCHANGED <<taken, binding, bound, gate>>

\* No answer, or a refusal; the platform may have taken the part all the same.
SendFails ==
  /\ flight.sending # Nothing
  /\ outbox' = Acknowledged(outbox, flight.sending, FALSE)
  /\ flight' = NextOfBatch
  /\ UNCHANGED <<receipts, taken, binding, bound, gate>>

\* The process ends: the flush is gone; a receipt may just have been written.  The
\* gateway forgets that it was blocked; a credential that was revoked is gone.
OutboxCrash ==
  /\ flight' = Idle
  /\ gate' = IF gate \in {"revoked", "cleared", "severed"} THEN "severed" ELSE "open"
  /\ \/ UNCHANGED receipts
     \/ /\ flight.has
        /\ receipts' = [receipts EXCEPT ![flight.sending] = flight.part]
  /\ UNCHANGED <<outbox, taken, binding, bound>>

-----------------------------------------------------------------------------
(* The binding.                                                            *)

\* The owner asks for a code to scan, which is refused while a binding stands.
StartBinding ==
  /\ ~bound /\ gate = "shut"
  /\ gate' = "open"
  /\ UNCHANGED <<outbox, flight, receipts, taken, binding, bound>>

\* The service learns that the code was confirmed: upsertConnection, under a new
\* generation.
Rebind ==
  /\ ~bound /\ gate = "open" /\ binding < MaxGeneration
  /\ binding' = binding + 1 /\ bound' = TRUE
  /\ outbox' = Abandon(outbox, Message)
  /\ UNCHANGED <<flight, receipts, taken, gate>>

\* The gateway stops taking and sending for the provider.
BeginDisconnect ==
  /\ bound /\ gate \in {"open", "shut", "severed"}
  /\ gate' = IF gate = "severed" THEN "revoked" ELSE "closing"
  /\ UNCHANGED <<outbox, flight, receipts, taken, binding, bound>>

\* The connector revokes its credential.
Revoke ==
  /\ gate = "closing"
  /\ gate' = "revoked"
  /\ UNCHANGED <<outbox, flight, receipts, taken, binding, bound>>

\* The platform refuses to disconnect: the binding stands, the gateway stays shut.
FailDisconnect ==
  /\ gate = "closing" /\ flight.sending = Nothing
  /\ gate' = "shut"
  /\ UNCHANGED <<outbox, flight, receipts, taken, binding, bound>>

\* What was in flight has ended: the spool forgets the provider's receipts.
ClearProvider ==
  /\ gate = "revoked" /\ flight.sending = Nothing
  /\ receipts' = [m \in Message |-> 0]
  /\ gate' = "cleared"
  /\ UNCHANGED <<outbox, flight, taken, binding, bound>>

\* deleteConnection: the binding goes, with the rows that were still to be sent.
EndDisconnect ==
  /\ gate = "cleared"
  /\ outbox' = Abandon(outbox, Message)
  /\ bound' = FALSE /\ gate' = "shut"
  /\ UNCHANGED <<flight, receipts, taken, binding>>

-----------------------------------------------------------------------------
(* Properties.                                                             *)

\* What the table calls delivered the platform has taken in full, part by part,
\* over however many attempts and restarts.
DeliveredInFull ==
  \A m \in Message : outbox[m].status = "delivered" => taken[m] = 1..PartsOf(m)

\* A row still to be sent is of the binding there is: neither a new binding nor
\* an answer that outlived its own leaves one for another account's chat.
UnsettledIsCurrent ==
  \A m \in Message : Unsettled(outbox[m]) => Current(outbox[m])
=============================================================================
