----------------------------- MODULE LeasedJobs -----------------------------
(***************************************************************************)
(* The durable jobs that follow a turn of conversation: the rows of        *)
(* memory_extraction_jobs (memory-coordinator/repository.ts), the claims   *)
(* with a lease on them, and the processing loops of a coordinator         *)
(* (memory-coordinator/coordinator.ts; post-turn/coordinator.ts has the    *)
(* same protocol).  A loop lists what may be run, claims one job after the *)
(* other and awaits the model between a claim and its end; a timer may     *)
(* start another loop in the meantime.                                     *)
(*                                                                         *)
(* What a job does with the model's answer is left to the modules that     *)
(* extend this one.  The rows survive a crash; the loops do not.           *)
(* A claim's token is its attempt: each claim counts one, so the two       *)
(* change together.                                                        *)
(***************************************************************************)
EXTENDS Naturals, FiniteSets

CONSTANTS
  Turns,        \* turns that leave a job, numbered as they end
  Loops,        \* bound: loops of the coordinator at the same time
  MaxRetries,   \* attempts after which a failed job is not taken up again
  MaxBreaks     \* bound: ends of the process, and leases that run out under it

ASSUME JobsAssumption ==
  /\ Turns \in Nat /\ Loops \in Nat \ {0}
  /\ MaxRetries \in Nat /\ MaxBreaks \in Nat

VARIABLES
  job,          \* the row of each turn's job
  up,           \* the process runs
  scheduled,    \* the timer that starts a loop is armed
  loops,        \* the loops
  retries,      \* history: retries the user has asked for
  breaks        \* the breaks so far

jobsVars == <<job, up, scheduled, loops, retries, breaks>>

Turn == 1..Turns
Loop == 1..Loops
Outstanding == {"pending", "running"}

NoJob == [status |-> "none", attempts |-> 0, mine |-> FALSE, lapsed |-> FALSE,
          count |-> 0]
NoLoop == [phase |-> "none", list |-> {}, turn |-> 0, attempt |-> 0]

JobsTypeOK ==
  /\ job \in [Turn -> [status : {"none", "pending", "running", "completed", "failed",
                                 "skipped"},
                       attempts : Nat, mine : BOOLEAN, lapsed : BOOLEAN, count : Nat]]
  /\ up \in BOOLEAN /\ scheduled \in BOOLEAN
  /\ loops \in [Loop -> [phase : {"none", "next", "model"}, list : SUBSET Turn,
                         turn : 0..Turns, attempt : Nat]]
  /\ retries \in [Turn -> Nat]
  /\ breaks \in 0..MaxBreaks

JobsInit ==
  /\ job = [t \in Turn |-> NoJob]
  /\ up = TRUE /\ scheduled = TRUE
  /\ loops = [l \in Loop |-> NoLoop]
  /\ retries = [t \in Turn |-> 0]
  /\ breaks = 0

-----------------------------------------------------------------------------
(* Rows.                                                                   *)

\* Mutant of Claimable: a loop claims whatever it had listed and is not completed.
ClaimableAsListed(row) == row.status # "completed"

Claimable(row) == row.status = "pending" \/ (row.status = "running" /\ row.lapsed)

\* listRunnable
Runnable(rows) == {t \in Turn : Claimable(rows[t])}

Claimed(row) == [row EXCEPT !.status = "running", !.attempts = @ + 1,
                            !.mine = TRUE, !.lapsed = FALSE]

Ended(row, status, count) ==
  [row EXCEPT !.status = status, !.count = count, !.mine = FALSE, !.lapsed = FALSE]

Returned(row) == [row EXCEPT !.status = "pending", !.mine = FALSE, !.lapsed = FALSE]

First(S) == CHOOSE t \in S : \A u \in S : t <= u

\* The loop's claim is the one the row has.
Holds(l) == LET row == job[loops[l].turn]
            IN row.status = "running" /\ row.attempts = loops[l].attempt

AtHead(l) == First(loops[l].list)

\* The loop l is done with the job at the head of its list.
Proceed(l) ==
  [loops EXCEPT ![l] = [NoLoop EXCEPT !.phase = "next",
                                      !.list = loops[l].list \ {AtHead(l)}]]

\* The loop l awaits the model for the job at the head of its list.
Await(l) ==
  [loops EXCEPT ![l].phase = "model", ![l].turn = AtHead(l),
                ![l].attempt = job[AtHead(l)].attempts + 1]

-----------------------------------------------------------------------------
(* Jobs come in.                                                           *)

\* A turn has ended: its job, and the timer.
EnqueueTurn(t) ==
  /\ up /\ job[t].status = "none" /\ \A u \in Turn : u < t => job[u].status # "none"
  /\ job' = [job EXCEPT ![t].status = "pending"]
  /\ scheduled' = TRUE
  /\ UNCHANGED <<up, loops, retries, breaks>>

\* The user takes a failed job up again.
Retry(t) ==
  /\ up /\ job[t].status = "failed" /\ job[t].attempts < MaxRetries
  /\ job' = [job EXCEPT ![t].status = "pending"]
  /\ scheduled' = TRUE
  /\ retries' = [retries EXCEPT ![t] = @ + 1]
  /\ UNCHANGED <<up, loops, breaks>>

-----------------------------------------------------------------------------
(* The loops.                                                              *)

\* The timer fires, whether or not another loop is at work.
StartLoop(l) ==
  /\ up /\ scheduled /\ loops[l] = NoLoop
  /\ \A k \in Loop : k < l => loops[k] # NoLoop
  /\ scheduled' = FALSE
  /\ loops' = [loops EXCEPT ![l] = [NoLoop EXCEPT !.phase = "next",
                                                  !.list = Runnable(job)]]
  /\ UNCHANGED <<job, up, retries, breaks>>

AtNext(l) == up /\ loops[l].phase = "next" /\ loops[l].list # {}
AtModel(l) == up /\ loops[l].phase = "model"

\* The claim is refused: another loop has had the job since it was listed.
PassOver(l) ==
  /\ AtNext(l) /\ ~Claimable(job[AtHead(l)])
  /\ loops' = Proceed(l)
  /\ UNCHANGED <<job, up, scheduled, retries, breaks>>

\* The heartbeat of a claim renews its lease.  (Once it fails, it fails for good:
\* what it then notes, claimLost, is that the loop no longer holds the claim.)
Heartbeat(l) ==
  /\ AtModel(l) /\ Holds(l) /\ job[loops[l].turn].lapsed
  /\ job' = [job EXCEPT ![loops[l].turn].lapsed = FALSE]
  /\ UNCHANGED <<up, scheduled, loops, retries, breaks>>

\* The model has answered (or failed) and the claim is another's by now.
ClaimIsLost(l) ==
  /\ AtModel(l) /\ ~Holds(l)
  /\ loops' = Proceed(l)
  /\ UNCHANGED <<job, up, scheduled, retries, breaks>>

\* The model fails, or what it answers cannot be read.
AnalysisFails(l) ==
  /\ AtModel(l) /\ Holds(l)
  /\ job' = [job EXCEPT ![loops[l].turn] = Ended(@, "failed", 0)]
  /\ loops' = Proceed(l)
  /\ UNCHANGED <<up, scheduled, retries, breaks>>

\* The list is done: another loop when there is more.
EndLoop(l) ==
  /\ up /\ loops[l].phase = "next" /\ loops[l].list = {}
  /\ scheduled' = (scheduled \/ Runnable(job) # {})
  /\ loops' = [loops EXCEPT ![l] = NoLoop]
  /\ UNCHANGED <<job, up, retries, breaks>>

-----------------------------------------------------------------------------
(* Time and the process.                                                   *)

\* Thirty seconds without a heartbeat: the machine slept, or the process is gone.
LeaseRunsOut(t) ==
  /\ job[t].status = "running" /\ ~job[t].lapsed
  /\ IF up /\ job[t].mine THEN breaks < MaxBreaks /\ breaks' = breaks + 1
                          ELSE UNCHANGED breaks
  /\ job' = [job EXCEPT ![t].lapsed = TRUE]
  /\ UNCHANGED <<up, scheduled, loops, retries>>

\* Nothing of the process is left but the rows.
Gone ==
  /\ up /\ breaks < MaxBreaks
  /\ up' = FALSE /\ breaks' = breaks + 1
  /\ scheduled' = FALSE
  /\ loops' = [l \in Loop |-> NoLoop]
  /\ UNCHANGED retries

\* A graceful end releases the claims of its owner.
Dispose ==
  /\ Gone
  /\ job' = [t \in Turn |-> IF job[t].status = "running" /\ job[t].mine
                              THEN Returned(job[t]) ELSE job[t]]

Crash == Gone /\ job' = [t \in Turn |-> [job[t] EXCEPT !.mine = FALSE]]

\* Mutant of Start: what an earlier process left is returned, and no timer is armed.
StartUnscheduled ==
  /\ ~up /\ up' = TRUE
  /\ job' = [t \in Turn |-> IF job[t].status = "running" /\ job[t].lapsed
                              THEN Returned(job[t]) ELSE job[t]]
  /\ UNCHANGED <<scheduled, loops, retries, breaks>>

\* The coordinator is constructed: claims that have run out are returned.
Start ==
  /\ ~up /\ up' = TRUE
  /\ job' = [t \in Turn |-> IF job[t].status = "running" /\ job[t].lapsed
                              THEN Returned(job[t]) ELSE job[t]]
  /\ scheduled' = TRUE
  /\ UNCHANGED <<loops, retries, breaks>>
=============================================================================
