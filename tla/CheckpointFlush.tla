--------------------------- MODULE CheckpointFlush --------------------------
(***************************************************************************)
(* Before a session is compacted the kernel waits until the coordinator    *)
(* has done its work (flushDurableTurnCoordinators in domain/kernel.ts,    *)
(* drain in memory-coordinator/coordinator.ts).  The coordinator remembers *)
(* one loop, the one the timer started last, and none once that one has    *)
(* ended; a drain arms the timer and waits for the loop remembered, until  *)
(* the timer is not armed and no loop is remembered.                       *)
(*                                                                         *)
(* This module adds both to the steps of MemoryJobs.                       *)
(***************************************************************************)
EXTENDS MemoryJobs

CONSTANTS
  Session       \* sessions that may be compacted

VARIABLES
  processing,   \* the loop the coordinator remembers, or 0
  drains        \* what each session waits for

flushVars == <<vars, processing, drains>>

NoDrain == [waiting |-> FALSE, on |-> 0, before |-> {}]

FlushTypeOK ==
  /\ processing \in 0..Loops
  /\ drains \in [Session -> [waiting : BOOLEAN, on : 0..Loops, before : SUBSET Turn]]

FlushInit == Init /\ processing = 0 /\ drains = [s \in Session |-> NoDrain]

Started(l) == loops[l] = NoLoop /\ loops'[l] # NoLoop
Over(l) == loops[l] # NoLoop /\ loops'[l] = NoLoop

\* The loop that ends is forgotten if it is the one remembered, and whoever waits
\* for it goes on; the end of the process ends all.
Remembers ==
  /\ processing' = IF \E l \in Loop : Started(l)
                     THEN CHOOSE l \in Loop : Started(l)
                   ELSE IF processing # 0 /\ Over(processing) THEN 0
                   ELSE processing
  /\ drains' = [s \in Session |->
       IF ~up' THEN NoDrain
       ELSE IF drains[s].on # 0 /\ Over(drains[s].on) THEN [drains[s] EXCEPT !.on = 0]
       ELSE drains[s]]

\* A session begins to wait.
BeginDrain(s) ==
  /\ up /\ drains[s] = NoDrain
  /\ scheduled' = TRUE
  /\ drains' = [drains EXCEPT ![s] =
       [waiting |-> TRUE, on |-> processing,
        before |-> {t \in Turn : job[t].status \in Outstanding}]]
  /\ UNCHANGED <<job, up, loops, retries, breaks, order, memories, revised,
                 cut, processing>>

\* The loop it waited for is over, and so is a turn of the event loop.
GoOnDraining(s) ==
  /\ drains[s].waiting /\ drains[s].on = 0
  /\ drains' = [drains EXCEPT ![s] =
       IF scheduled \/ processing # 0 THEN [@ EXCEPT !.on = processing] ELSE NoDrain]
  /\ UNCHANGED <<vars, processing>>

\* What the event loop does at once is done here before anything else, so that what
\* is refuted needs no unlikely delay: a loop that is done with a job takes the next
\* one, and timers without a delay fire in the order in which they were armed.
AtOnce == \A l \in Loop : loops[l].phase # "next"
Prompt == \A s \in Session : drains[s].waiting => drains[s].on # 0

FlushNext ==
  \/ /\ \/ \E l \in Loop : loops[l].phase = "next" /\ (Work(l) \/ LoopStep(l))
        \/ /\ AtOnce /\ \E l \in Loop : StartLoop(l)
           /\ UNCHANGED <<order, memories, revised, cut>>
        \/ AtOnce /\ Prompt /\ Next
     /\ Remembers
  \/ AtOnce /\ Prompt /\ \E s \in Session : BeginDrain(s)
  \/ AtOnce /\ ~scheduled /\ \E s \in Session : GoOnDraining(s)

FlushSpec == FlushInit /\ [][FlushNext]_flushVars

\* Whoever has waited for the coordinator finds done what was outstanding when the
\* waiting began, so that the transcript it compacts has been looked at.
DrainWaits ==
  [][\A s \in Session :
       drains[s].waiting /\ ~drains'[s].waiting /\ up' =>
         \A t \in drains[s].before : job[t].status \notin Outstanding]_flushVars
=============================================================================
