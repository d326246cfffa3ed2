--------------------------- MODULE InboxBatching ---------------------------
(***************************************************************************)
(* When a queued burst is claimed: the delays that schedule computes in    *)
(* src/inbox/coordinator.ts from the first and last queued message, the    *)
(* composer's typing heartbeats, the caps and the turn that just ended.    *)
(* PrivateInbox treats an armed timer as one that may fire at any moment;  *)
(* here it carries the time it is due, and fires on time.                  *)
(***************************************************************************)
EXTENDS Integers, FiniteSets, FiniteSetsExt, Functions

CONSTANTS
  Message,
  InitialWait, QuietWindow, TypingWindow, MaximumWait, AfterTurnQuiet,
  MaxMessages,     \* maximumMessagesPerBurst
  MaxCharacters,   \* maximumCharactersPerBurst
  Length,          \* the characters a message may have
  MaxTime,         \* bound: the clock
  MaxCorrections,  \* bound: claimed messages that are edited
  MaxRestarts      \* bound: restarts

Delays == {InitialWait, QuietWindow, TypingWindow, MaximumWait, AfterTurnQuiet}

ASSUME DelayAssumption ==
  /\ Delays \subseteq Nat
  /\ InitialWait <= MaximumWait /\ QuietWindow <= MaximumWait
ASSUME CapAssumption ==
  /\ {MaxMessages, MaxCharacters} \subseteq Nat \ {0}
  /\ IsFiniteSet(Message) /\ Length \subseteq Nat
ASSUME CountAssumption ==
  /\ MaxTime \in Nat /\ MaxCorrections \in Nat /\ MaxRestarts \in Nat

VARIABLES
  now,
  place,       \* "new", "queued", "running" or "done", for each message
  size,        \* characters of each message's text
  createdAt,   \* the row's created_at
  updatedAt,   \* the row's updated_at
  first,       \* firstQueuedAt, NoTime when the map has no entry
  last,        \* lastQueuedAt
  typing,      \* typingUntil
  timer,       \* when the armed timer is due, NoTime when none is armed
  paused,
  corrections, restarts,
  renewedAt    \* history: when a message or an edit last gave others that waited a new window

rows == <<place, size, createdAt, updatedAt>>
counters == <<corrections, restarts>>
batchingVars == <<now, rows, first, last, typing, timer, paused, counters, renewedAt>>

NoTime == -1
Time == 0..MaxTime

Queue == {m \in Message : place[m] = "queued"}
Running == \E m \in Message : place[m] = "running"

Characters(S) == SumFunctionOnSet(size, S)
CapReached ==
  Cardinality(Queue) >= MaxMessages \/ Characters(Queue) >= MaxCharacters

BatchingInit ==
  /\ now = 0
  /\ place = [m \in Message |-> "new"]
  /\ size = [m \in Message |-> 0]
  /\ createdAt = [m \in Message |-> 0]
  /\ updatedAt = [m \in Message |-> 0]
  /\ first = NoTime /\ last = NoTime /\ typing = NoTime /\ timer = NoTime
  /\ paused = FALSE
  /\ corrections = 0 /\ restarts = 0 /\ renewedAt = 0

-----------------------------------------------------------------------------
Larger(a, b) == IF a >= b THEN a ELSE b
Smaller(a, b) == IF a <= b THEN a ELSE b
Remaining(until) == Larger(0, until - now)

\* Mutant of Delay: every change defers the claim, without a maximum.
DelayWithoutMaximum(full, from, latest, typed, minimum) ==
  LET settle == Larger(Remaining(from + InitialWait), Remaining(latest + minimum))
  IN IF full THEN 0 ELSE Larger(settle, Remaining(typed))

\* Mutant of Delay: typing is bounded by the maximum, too.
DelayTypingCapped(full, from, latest, typed, minimum) ==
  LET settle == Larger(Remaining(from + InitialWait), Remaining(latest + minimum))
  IN IF full THEN 0
     ELSE Smaller(Larger(settle, Remaining(typed)), Remaining(from + MaximumWait))

\* The delay schedule computes for a queue whose window began at `from`, whose
\* newest change was at `latest`, with typing until `typed`.
Delay(full, from, latest, typed, minimum) ==
  LET settle == Larger(Remaining(from + InitialWait), Remaining(latest + minimum))
      normal == Smaller(settle, Remaining(from + MaximumWait))
  IN IF full THEN 0 ELSE Larger(normal, Remaining(typed))

\* schedule(minimum), when first, last and typing held the given entries.
Schedule(minimum, first0, last0, typing0) ==
  LET from == IF first0 # NoTime THEN first0
              ELSE Min({createdAt'[m] : m \in Queue'} \cup {now})
      latest == IF last0 # NoTime THEN last0
                ELSE Max({updatedAt'[m] : m \in Queue'})
  IN IF paused' \/ Running'
       THEN /\ first' = first0 /\ last' = last0 /\ typing' = typing0
            /\ UNCHANGED timer
     ELSE IF Queue' = {}
       THEN /\ first' = NoTime /\ last' = NoTime /\ typing' = NoTime
            /\ timer' = NoTime
     ELSE /\ first' = from /\ last' = latest
          /\ typing' = IF typing0 <= now THEN NoTime ELSE typing0
          /\ timer' = now + Delay(CapReached', from, latest, typing0, minimum)

\* m has a text of some length.
Texted(m) == \E n \in Length : size' = [size EXCEPT ![m] = n]

-----------------------------------------------------------------------------
Enqueue(m) ==
  /\ place[m] = "new"
  /\ place' = [place EXCEPT ![m] = "queued"]
  /\ Texted(m)
  /\ createdAt' = [createdAt EXCEPT ![m] = now]
  /\ updatedAt' = [updatedAt EXCEPT ![m] = now]
  /\ paused' = FALSE
  /\ Schedule(QuietWindow, IF first = NoTime THEN now ELSE first, now, typing)
  /\ renewedAt' = IF first = NoTime /\ Queue # {} THEN now ELSE renewedAt
  /\ UNCHANGED <<now, counters>>

\* The same message once more, after a lost answer.
EnqueueAgain(m) ==
  /\ place[m] = "queued"
  /\ UNCHANGED <<now, rows, paused, counters, renewedAt>>
  /\ Schedule(QuietWindow, first, last, typing)

UpdateQueued(m) ==
  /\ place[m] = "queued"
  /\ Texted(m)
  /\ updatedAt' = [updatedAt EXCEPT ![m] = now]
  /\ UNCHANGED <<now, place, createdAt, paused, counters, renewedAt>>
  /\ Schedule(QuietWindow, first, now, typing)

\* The row is deleted; the id may be sent again.
RetractQueued(m) ==
  /\ place[m] = "queued"
  /\ place' = [place EXCEPT ![m] = "new"]
  /\ size' = [size EXCEPT ![m] = 0]
  /\ createdAt' = [createdAt EXCEPT ![m] = 0]
  /\ updatedAt' = [updatedAt EXCEPT ![m] = 0]
  /\ UNCHANGED <<now, paused, counters, renewedAt>>
  /\ Schedule(QuietWindow, first, last, typing)

NoteTyping ==
  /\ UNCHANGED <<now, rows, paused, counters, renewedAt>>
  /\ Schedule(QuietWindow, first, last, now + TypingWindow)

Pause ==
  /\ paused' = TRUE
  /\ timer' = NoTime
  /\ UNCHANGED <<now, rows, first, last, typing, counters, renewedAt>>

Resume ==
  /\ paused
  /\ paused' = FALSE
  /\ UNCHANGED <<now, rows, counters, renewedAt>>
  /\ Schedule(AfterTurnQuiet, first, last, typing)

\* The oldest messages, until the next is one too many or too long for the burst.
IsBurst(S) ==
  /\ S # {} /\ Cardinality(S) <= MaxMessages
  /\ Cardinality(S) > 1 => Characters(S) <= MaxCharacters
  /\ \A m \in S, n \in Queue \ S : createdAt[m] <= createdAt[n]
  /\ S # Queue =>
       \E next \in Queue \ S :
         /\ \A n \in Queue \ S : createdAt[next] <= createdAt[n]
         /\ \/ Cardinality(S) = MaxMessages
            \/ Characters(S \cup {next}) > MaxCharacters

\* The timer is due: the burst starts a turn.
ClaimBurst ==
  /\ timer = now
  /\ timer' = NoTime
  /\ \E S \in SUBSET Queue :
       /\ IsBurst(S)
       /\ place' = [m \in Message |-> IF m \in S THEN "running" ELSE place[m]]
  /\ first' = NoTime /\ last' = NoTime
  /\ UNCHANGED <<now, size, createdAt, updatedAt, typing, paused, counters, renewedAt>>

\* The turn ends; flush schedules what arrived in the meantime.
TurnEnds ==
  /\ Running
  /\ place' = [m \in Message |-> IF place[m] = "running" THEN "done" ELSE place[m]]
  /\ UNCHANGED <<now, size, createdAt, updatedAt, paused, counters, renewedAt>>
  /\ IF Queue # {}
       THEN Schedule(AfterTurnQuiet, first, last, typing)
       ELSE /\ typing' = NoTime
            /\ UNCHANGED <<first, last, timer>>

\* An edit puts a finished message back: edited restarts both windows, and the
\* hold's release schedules the queue.
RequeueEdited(m) ==
  /\ place[m] = "done" /\ ~Running
  /\ corrections < MaxCorrections
  /\ corrections' = corrections + 1
  /\ renewedAt' = now
  /\ place' = [place EXCEPT ![m] = "queued"]
  /\ Texted(m)
  /\ updatedAt' = [updatedAt EXCEPT ![m] = now]
  /\ paused' = FALSE
  /\ UNCHANGED <<now, createdAt, restarts>>
  /\ Schedule(AfterTurnQuiet, now, now, typing)

\* A restart fails the running burst, forgets the windows and starts afresh
\* from the times in the rows.
Restart ==
  /\ restarts < MaxRestarts
  /\ restarts' = restarts + 1
  /\ place' = [m \in Message |-> IF place[m] = "running" THEN "done" ELSE place[m]]
  /\ UNCHANGED <<now, size, createdAt, updatedAt, paused, corrections, renewedAt>>
  /\ IF paused
       THEN first' = NoTime /\ last' = NoTime /\ typing' = NoTime /\ timer' = NoTime
       ELSE Schedule(0, NoTime, NoTime, NoTime)

\* Time passes; a timer that is due fires first.
Tick ==
  /\ now < MaxTime
  /\ timer # now
  /\ now' = now + 1
  /\ UNCHANGED <<rows, first, last, typing, timer, paused, counters, renewedAt>>

BatchingNext ==
  \/ \E m \in Message : Enqueue(m) \/ EnqueueAgain(m) \/ UpdateQueued(m)
                        \/ RetractQueued(m) \/ RequeueEdited(m)
  \/ NoteTyping \/ Pause \/ Resume
  \/ ClaimBurst \/ TurnEnds \/ Restart
  \/ Tick

BatchingSpec == BatchingInit /\ [][BatchingNext]_batchingVars

-----------------------------------------------------------------------------
(* Properties *)

Oldest == Min({createdAt[m] : m \in Queue})

\* Every variable stays in its range, and no timer is overdue.
BatchingTypeOK ==
  /\ now \in Time
  /\ place \in [Message -> {"new", "queued", "running", "done"}]
  /\ size \in [Message -> Nat]
  /\ createdAt \in [Message -> Time] /\ updatedAt \in [Message -> Time]
  /\ {first, last} \subseteq Time \cup {NoTime}
  /\ typing \in Nat \cup {NoTime} /\ paused \in BOOLEAN
  /\ timer = NoTime \/ (timer \in Nat /\ timer >= now)
  /\ corrections \in 0..MaxCorrections /\ restarts \in 0..MaxRestarts
  /\ renewedAt \in Time

\* schedule's maximum: however often the user sends, changes or resumes, the oldest
\* queued message is claimed within the maximum wait, unless the user is still
\* typing.  The wait counts from when it was sent, or from when a message or an
\* edit opened a new window for those that a burst had left behind.
WaitIsBounded ==
  timer # NoTime =>
    \/ timer = now
    \/ timer <= Larger(Oldest, renewedAt) + MaximumWait
    \/ timer <= typing

\* A heartbeat keeps deferring the claim, whatever happened between it and the
\* end of the quiet time it asked for, unless the caps are reached.
TypingDefersClaim ==
  [][ClaimBurst => CapReached \/ typing <= now]_batchingVars

\* A full burst is due at once, however the cap was reached and even while the
\* user types.
FullBurstIsDue ==
  Queue # {} /\ CapReached /\ ~paused /\ ~Running => timer = now

\* "The default accumulation grace is 1.5 seconds" (docs/development-spec.md):
\* nothing is claimed earlier than that after the oldest queued message, unless
\* the caps are reached.
GraceIsKept ==
  [][ClaimBurst => CapReached \/ now >= Oldest + InitialWait]_batchingVars

\* "a 7-second hard maximum" (docs/development-spec.md): the oldest queued
\* message of an idle, running queue waits no longer than the maximum.
HardMaximum ==
  timer # NoTime => timer = now \/ timer <= Oldest + MaximumWait
=============================================================================
