-------------------------- MODULE MessageLifecycle --------------------------
(***************************************************************************)
(* What the private inbox promises about the messages of a session,        *)
(* without the timers, locks, turns and crashes that keep the promise:     *)
(* messages wait, are taken in batches, one batch at a time, and all       *)
(* messages of a batch get the same answer.                                *)
(***************************************************************************)
EXTENDS FiniteSets

CONSTANT MessageId

VARIABLES
  status,  \* where each message stands
  paused   \* the user has stopped the queue

vars == <<status, paused>>

Finished == {"completed", "failed", "cancelled"}

InStatus(s) == {m \in MessageId : status[m] = s}
Batch == InStatus("processing")

Init ==
  /\ status = [m \in MessageId |-> "absent"]
  /\ paused = FALSE

\* A new message also restarts a stopped queue.
Receive(m) ==
  /\ status[m] = "absent"
  /\ status' = [status EXCEPT ![m] = "queued"]
  /\ paused' = FALSE

Retract(m) ==
  /\ status[m] = "queued"
  /\ status' = [status EXCEPT ![m] = "absent"]
  /\ UNCHANGED paused

\* Messages are taken only while the queue runs and no batch is open.
Take(S) ==
  /\ ~paused
  /\ Batch = {}
  /\ S \subseteq InStatus("queued")
  /\ status' = [m \in MessageId |-> IF m \in S THEN "processing" ELSE status[m]]
  /\ UNCHANGED paused

\* The whole batch gets one answer.
Finish(result) ==
  /\ Batch # {}
  /\ status' = [m \in MessageId |-> IF m \in Batch THEN result ELSE status[m]]
  /\ UNCHANGED paused

\* A finished message is corrected: it waits again, and the queue may resume.
Reopen(m) ==
  /\ Batch = {}
  /\ status[m] \in Finished
  /\ status' = [status EXCEPT ![m] = "queued"]
  /\ paused' \in {paused, FALSE}

Pause ==
  /\ paused' = TRUE
  /\ UNCHANGED status

Resume ==
  /\ paused' = FALSE
  /\ UNCHANGED status

Next ==
  \/ \E m \in MessageId : Receive(m) \/ Retract(m) \/ Reopen(m)
  \/ \E S \in SUBSET MessageId : Take(S)
  \/ \E result \in Finished : Finish(result)
  \/ Pause
  \/ Resume

Spec == Init /\ [][Next]_vars
=============================================================================
