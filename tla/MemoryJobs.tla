----------------------------- MODULE MemoryJobs -----------------------------
(***************************************************************************)
(* What the memory coordinator does with a job (processJob in              *)
(* memory-coordinator/coordinator.ts, with the part of                     *)
(* memory-coordinator/lifecycle.ts it calls): an order to remember or to   *)
(* forget is carried out at once, any other turn is given to the model,    *)
(* whose candidates are stored one by one, each under a key made of the    *)
(* turn and its place in the answer.  The kernel lets a turn be edited or  *)
(* retracted only when its job has changed nothing.                        *)
(*                                                                         *)
(* A candidate is proposed, that is, stored for the user to confirm; the   *)
(* observations made of trusted quotes of the user are not modelled, nor   *)
(* that a confirmed memory supersedes another with its key: each fact has  *)
(* a key of its own.  The search of a forget order is lexical: any set of  *)
(* confirmed memories.                                                     *)
(***************************************************************************)
EXTENDS LeasedJobs, Sequences

CONSTANTS
  Fact,         \* what a memory may say
  Orders,       \* what the turns may be: each remember, forget or conversation
  Said,         \* the fact an order to remember is about
  MaxCandidates \* bound: candidates of an answer

ASSUME MemoryAssumption ==
  /\ Orders \subseteq [Turn -> {"remember", "forget", "conversation"}]
  /\ Said \in [Turn -> Fact]
  /\ MaxCandidates \in Nat

VARIABLES
  order,        \* what each turn is
  memories,     \* the memories stored, by key
  revised,      \* turns that were edited or retracted
  cut           \* history: turns whose answer was applied in part

vars == <<jobsVars, order, memories, revised, cut>>

Answer == UNION {[1..n -> Fact] : n \in 0..MaxCandidates}

TypeOK ==
  /\ JobsTypeOK
  /\ memories \subseteq [turn : Turn, index : 0..MaxCandidates, fact : Fact,
                         attempt : Nat, validity : {"pending", "active", "deleted"}]
  /\ order \in Orders
  /\ revised \subseteq Turn /\ cut \subseteq Turn

Init == JobsInit /\ order \in Orders /\ memories = {} /\ revised = {} /\ cut = {}

-----------------------------------------------------------------------------
Active == {m \in memories : m.validity = "active"}

\* Mutant of Known: what the user had deleted is not known any more.
KnownUnlessDeleted(t, i) ==
  \E m \in memories : m.turn = t /\ m.index = i /\ m.validity # "deleted"

\* findMemoryByIdempotencyKey, whatever has become of the memory since.
Known(t, i) == \E m \in memories : m.turn = t /\ m.index = i

\* captureAuthorized: confirmed at once, unless it is known or stored already.
Remembered(t, attempt) ==
  IF Known(t, 0) \/ \E m \in Active : m.fact = Said[t]
    THEN memories
    ELSE memories \cup {[turn |-> t, index |-> 0, fact |-> Said[t],
                         attempt |-> attempt, validity |-> "active"]}

Forgotten(m) == (memories \ {m}) \cup {[m EXCEPT !.validity = "deleted"]}

\* propose, for the first n candidates of an answer.
Proposed(t, answer, n, attempt) ==
  memories \cup {[turn |-> t, index |-> i, fact |-> answer[i],
                  attempt |-> attempt, validity |-> "pending"] :
                 i \in {j \in 1..n : ~Known(t, j)}}

\* The job at the head of the list is claimed and ends in the same step.
ClaimAndEnd(l, status, count) ==
  /\ job' = [job EXCEPT ![AtHead(l)] = Ended(Claimed(@), status, count)]
  /\ loops' = Proceed(l)
  /\ UNCHANGED <<up, scheduled, retries, breaks,
                 order, revised, cut>>

MayClaim(l) == AtNext(l) /\ Claimable(job[AtHead(l)])

\* The module was switched off since the turn.
SkipClaimed(l) ==
  /\ MayClaim(l) /\ ClaimAndEnd(l, "skipped", 0)
  /\ UNCHANGED memories

\* The job throws before it has done anything: its turn is not to be found, of
\* another conversation or too long, or the fact it is to remember is refused.
FailClaimed(l) ==
  /\ MayClaim(l) /\ ClaimAndEnd(l, "failed", 0)
  /\ UNCHANGED memories

Remember(l) ==
  /\ MayClaim(l) /\ order[AtHead(l)] = "remember"
  /\ memories' = Remembered(AtHead(l), job[AtHead(l)].attempts + 1)
  /\ ClaimAndEnd(l, "completed", 1)

\* One match is forgotten, several are the user's to choose from.
Forget(l) ==
  /\ MayClaim(l) /\ order[AtHead(l)] = "forget"
  /\ \/ UNCHANGED memories /\ ClaimAndEnd(l, "completed", 0)
     \/ \E m \in Active : memories' = Forgotten(m) /\ ClaimAndEnd(l, "completed", 1)
     \/ Cardinality(Active) > 1 /\ UNCHANGED memories /\ ClaimAndEnd(l, "failed", 0)

\* A turn of conversation: the model is asked.
AskModel(l) ==
  /\ MayClaim(l) /\ order[AtHead(l)] = "conversation"
  /\ job' = [job EXCEPT ![AtHead(l)] = Claimed(@)]
  /\ loops' = Await(l)
  /\ UNCHANGED <<up, scheduled, retries, breaks,
                 order, memories, revised, cut>>

EndAsked(l, status, count) ==
  /\ job' = [job EXCEPT ![loops[l].turn] = Ended(@, status, count)]
  /\ loops' = Proceed(l)
  /\ UNCHANGED <<up, scheduled, retries, breaks,
                 order, revised>>

\* Mutant of StillMine: the claim is not looked at after the model's work.
StillMineAnyway(l) == AtModel(l)

\* After the model's work the claim is renewed, if it is still the loop's.
StillMine(l) == AtModel(l) /\ Holds(l)

\* The candidates are stored and the job ends.
ApplyAnswer(l, answer) ==
  /\ StillMine(l)
  /\ memories' = Proposed(loops[l].turn, answer, Len(answer), loops[l].attempt)
  /\ EndAsked(l, "completed", Len(answer))
  /\ UNCHANGED cut

\* Storing a candidate throws after n of them: the job has failed, with no result.
ApplyInPart(l, answer, n) ==
  /\ StillMine(l) /\ n < Len(answer)
  /\ memories' = Proposed(loops[l].turn, answer, n, loops[l].attempt)
  /\ EndAsked(l, "failed", 0)
  /\ cut' = cut \cup {loops[l].turn}

\* The module was switched off during the model's work.
SkipAnswered(l) ==
  /\ StillMine(l)
  /\ EndAsked(l, "skipped", 0)
  /\ UNCHANGED <<memories, cut>>

\* The process ends while a job's effects are being stored: some of them are, and
\* the job is still running.
CrashInApply(l) ==
  /\ Crash
  /\ \E answer \in Answer : \E n \in 1..Len(answer) :
       /\ StillMine(l)
       /\ memories' = Proposed(loops[l].turn, answer, n, loops[l].attempt)
       /\ cut' = cut \cup {loops[l].turn}
  /\ UNCHANGED <<order, revised>>

\* The process ends between an order's effect and the end of its job.
CrashInOrder(l) ==
  /\ MayClaim(l) /\ Gone
  /\ LET t == AtHead(l)
     IN /\ job' = [u \in Turn |-> [IF u = t THEN Claimed(job[u]) ELSE job[u]
                                     EXCEPT !.mine = FALSE]]
        /\ \/ order[t] = "remember" /\ memories' = Remembered(t, job[t].attempts + 1)
           \/ order[t] = "forget" /\ \E m \in Active : memories' = Forgotten(m)
        /\ cut' = cut \cup {t}
  /\ UNCHANGED <<order, revised>>

-----------------------------------------------------------------------------
\* Mutant of MayRevise: a job that is being worked on has no result either.
MayReviseWhileRunning(t) ==
  job[t].status \notin {"none", "pending"} /\ job[t].count = 0

\* assertLatestTurnRevisionSafe, as far as memory is concerned.
MayRevise(t) ==
  job[t].status \notin {"none"} \cup Outstanding /\ job[t].count = 0

\* The user edits or retracts the turn.
Revise(t) ==
  /\ up /\ t \notin revised /\ MayRevise(t)
  /\ revised' = revised \cup {t}
  /\ UNCHANGED <<jobsVars, order, memories, cut>>

\* The user confirms a proposed memory.
Confirm(m) ==
  /\ up /\ m.validity = "pending"
  /\ memories' = (memories \ {m}) \cup {[m EXCEPT !.validity = "active"]}
  /\ UNCHANGED <<jobsVars, order, revised, cut>>

\* The user rejects, archives or deletes a memory.
Reject(m) ==
  /\ up /\ m.validity # "deleted"
  /\ memories' = Forgotten(m)
  /\ UNCHANGED <<jobsVars, order, revised, cut>>

Work(l) ==
  \/ SkipClaimed(l)
  \/ FailClaimed(l)
  \/ Remember(l)
  \/ Forget(l)
  \/ AskModel(l)
  \/ SkipAnswered(l)
  \/ \E answer \in Answer :
       \/ ApplyAnswer(l, answer)
       \/ \E n \in 0..(MaxCandidates - 1) : ApplyInPart(l, answer, n)

LoopStep(l) ==
  (PassOver(l) \/ ClaimIsLost(l) \/ AnalysisFails(l) \/ EndLoop(l))
    /\ UNCHANGED <<order, memories, revised, cut>>

Outside ==
  /\ \/ \E t \in Turn : EnqueueTurn(t) \/ Retry(t) \/ LeaseRunsOut(t)
     \/ \E l \in Loop : StartLoop(l) \/ Heartbeat(l)
     \/ Dispose
     \/ Crash
     \/ Start
  /\ UNCHANGED <<order, memories, revised, cut>>

Next ==
  \/ \E l \in Loop : Work(l) \/ LoopStep(l) \/ CrashInApply(l) \/ CrashInOrder(l)
  \/ Outside
  \/ \E t \in Turn : Revise(t)
  \/ \E m \in memories : Confirm(m) \/ Reject(m)

Spec == Init /\ [][Next]_vars

\* The timer fires, a loop goes on, and the model answers or fails in the end.
Fairness ==
  /\ \A l \in Loop : WF_vars(Work(l) \/ LoopStep(l))
  /\ WF_vars((\E l \in Loop : StartLoop(l)) /\ UNCHANGED <<order, memories, revised, cut>>)

FairSpec == Spec /\ Fairness

-----------------------------------------------------------------------------
(* Properties.                                                             *)

\* A job is given to the model once, and once more for each retry the user asks
\* for and each interruption: two loops that list the same job, or a list that is
\* out of date, make no further call.
NoHiddenCalls ==
  \A t \in Turn : job[t].attempts <= 1 + retries[t] + breaks

\* What is stored of a turn comes from one answer of the model, unless the storing
\* was cut short: a loop that lost its claim while it waited stores nothing.
OneAnswerPerTurn ==
  \A m, n \in memories :
    m.turn = n.turn /\ m.attempt # n.attempt => m.turn \in cut

\* A key is never stored twice, and what was forgotten is not stored again by the
\* job that had stored it, whatever interrupts the job.
NoKeyTwice ==
  \A m, n \in memories : m.turn = n.turn /\ m.index = n.index => m = n

\* A turn that was edited or retracted leaves no memory, unless its job was cut
\* short or the user has had it tried again.
RevisedLeavesNothing ==
  \A m \in memories :
    m.turn \in revised => m.turn \in cut \/ retries[m.turn] > 0

\* A job that waits is taken up while the process runs, whatever the process
\* before this one had left.
PendingIsTaken ==
  \A t \in Turn : job[t].status = "pending" /\ up ~> job[t].status # "pending" \/ ~up

\* While the process runs, a job that waits has the timer armed for it, or a loop
\* under way that looks again when it ends, although its list may be older.
WaitingIsScheduled ==
  up /\ (\E t \in Turn : job[t].status = "pending") =>
    scheduled \/ \E l \in Loop : loops[l].phase # "none"

\* Refuted.  A turn that was edited or retracted leaves no memory.
RevisionIsSafe == \A m \in memories : m.turn \notin revised
=============================================================================
