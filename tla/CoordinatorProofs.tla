-------------------------- MODULE CoordinatorProofs --------------------------
(***************************************************************************)
(* Proofs about the two coordinators that run on timers.  InboxBatching,   *)
(* for any messages, sizes, delays and caps; and MemoryJobs, for any       *)
(* number of turns, loops, retries and breaks, any facts and any answers   *)
(* of the model.                                                           *)
(***************************************************************************)
EXTENDS InboxBatching, MemoryJobs, SequenceTheorems, WellFoundedInduction, TLAPS

-----------------------------------------------------------------------------
(* InboxBatching: the least and the largest of some instants.              *)

LEMMA LeastInstant ==
  ASSUME NEW S, S \subseteq Nat, S # {}
  PROVE  Min(S) \in S /\ \A x \in S : Min(S) <= x
<1>1. PICK n \in S : \A m \in S : ~(<<m, n>> \in OpToRel(<, Nat))
  BY NatLessThanWellFounded, WFMin, Zenon
<1>2. \A m \in S : <<m, n>> \in OpToRel(<, Nat) <=> m < n
  BY DEF OpToRel
<1>3. \A m \in S : ~(m < n)
  BY <1>1, <1>2, Zenon
<1>4. \A m \in S : n <= m
  BY <1>3
<1> QED
  BY <1>4 DEF Min

LEMMA LargestInstant ==
  ASSUME NEW S, NEW t \in Nat, S \subseteq 0..t, S # {}
  PROVE  Max(S) \in S
<1> DEFINE left == {t - x : x \in S}
<1>0. \A x \in S : x \in Nat /\ x <= t
  OBVIOUS
<1>1. left \subseteq Nat /\ left # {}
  <2>1. PICK x \in S : TRUE
    OBVIOUS
  <2>2. t - x \in left
    BY <2>1
  <2> QED
    BY <1>0, <2>2
<1>2. Min(left) \in left /\ \A y \in left : Min(left) <= y
  <2> HIDE DEF left
  <2> QED
    BY <1>1, LeastInstant
<1>3. PICK x \in S : \A y \in S : t - x <= t - y
  BY <1>2
<1>4. \A y \in S : x >= y
  BY <1>0, <1>3
<1> QED
  BY <1>4 DEF Max

-----------------------------------------------------------------------------
(* InboxBatching: the inductive invariant.                                 *)

\* Nothing that is remembered lies in the future.
PastTimes ==
  /\ first <= now /\ last <= now /\ renewedAt <= now
  /\ \A m \in Message : createdAt[m] <= now /\ updatedAt[m] <= now

\* A timer is armed exactly when there is something to claim and nothing forbids it.
ArmedWhenDue ==
  timer # NoTime <=> Queue # {} /\ ~paused /\ ~Running

\* The window began before what waits was sent, or was opened anew for it.
WindowIsOpen ==
  /\ first # NoTime =>
       \A m \in Queue : first <= createdAt[m] \/ first <= renewedAt
  /\ timer # NoTime => first # NoTime

\* The armed timer is due at the end of the window, or when the typing ends, not
\* before that, and at once if the burst is full.
TimerFits ==
  timer # NoTime =>
    /\ timer = now \/ timer <= first + MaximumWait \/ timer <= typing
    /\ IF CapReached THEN timer = now ELSE typing <= timer

Batched == BatchingTypeOK /\ PastTimes /\ ArmedWhenDue /\ WindowIsOpen /\ TimerFits

LEMMA DelayNumbers ==
  /\ InitialWait \in Nat /\ QuietWindow \in Nat /\ TypingWindow \in Nat
  /\ MaximumWait \in Nat /\ AfterTurnQuiet \in Nat
  BY DelayAssumption DEF Delays

\* schedule, of rows and windows that lie in the past, leaves the timer and the
\* windows as they have to be.
LEMMA ScheduleFits ==
  ASSUME now \in Time, now' = now, NEW minimum \in Nat,
         NEW first0 \in Time \cup {NoTime}, first0 <= now,
         NEW last0 \in Time \cup {NoTime}, last0 <= now,
         NEW typing0 \in Nat \cup {NoTime},
         place' \in [Message -> {"new", "queued", "running", "done"}],
         createdAt' \in [Message -> Time], updatedAt' \in [Message -> Time],
         \A m \in Message : createdAt'[m] <= now /\ updatedAt'[m] <= now,
         paused' \in BOOLEAN, renewedAt' \in Time,
         paused' \/ Running' => timer = NoTime,
         first0 # NoTime =>
           \A m \in Queue' : first0 <= createdAt'[m] \/ first0 <= renewedAt',
         Schedule(minimum, first0, last0, typing0)
  PROVE  /\ first' \in Time \cup {NoTime} /\ first' <= now
         /\ last' \in Time \cup {NoTime} /\ last' <= now
         /\ typing' \in Nat \cup {NoTime}
         /\ timer' = NoTime \/ (timer' \in Nat /\ timer' >= now)
         /\ ArmedWhenDue' /\ WindowIsOpen' /\ TimerFits'
<1> DEFINE from == IF first0 # NoTime THEN first0
                   ELSE Min({createdAt'[m] : m \in Queue'} \cup {now})
           latest == IF last0 # NoTime THEN last0
                     ELSE Max({updatedAt'[m] : m \in Queue'})
           delay == Delay(CapReached', from, latest, typing0, minimum)
<1> USE DelayNumbers
<1>1. Queue' = {m \in Message : place'[m] = "queued"}
  BY DEF Queue
<1>2. now \in Nat /\ MaxTime \in Nat /\ Time \subseteq Nat /\ NoTime \notin Nat
  BY CountAssumption DEF Time, NoTime
<1>3. CASE paused' \/ Running'
  <2>1. UNCHANGED timer /\ first' = first0 /\ last' = last0 /\ typing' = typing0
    BY <1>1, <1>3 DEF Schedule
  <2> QED
    BY <1>1, <1>3, <2>1 DEF ArmedWhenDue, WindowIsOpen, TimerFits
<1>4. CASE ~paused' /\ ~Running' /\ Queue' = {}
  <2>1. timer' = NoTime /\ first' = NoTime /\ last' = NoTime /\ typing' = NoTime
    BY <1>1, <1>4 DEF Schedule
  <2> QED
    BY <1>1, <1>2, <1>4, <2>1 DEF ArmedWhenDue, WindowIsOpen, TimerFits, NoTime
<1>5. CASE ~paused' /\ ~Running' /\ Queue' # {}
  <2>1. /\ first' = from /\ last' = latest
        /\ typing' = IF typing0 <= now THEN NoTime ELSE typing0
        /\ timer' = now + delay
    BY <1>1, <1>5 DEF Schedule
  <2>2. from \in Time /\ from <= now /\ \A m \in Queue' : first0 = NoTime => from <= createdAt'[m]
    <3> DEFINE S == {createdAt'[m] : m \in Queue'} \cup {now}
    <3>0. \A m \in Queue' : createdAt'[m] \in Time /\ createdAt'[m] <= now
      BY <1>1
    <3>1. now \in S /\ S \subseteq Time /\ \A x \in S : x <= now
      BY <1>2, <3>0
    <3> HIDE DEF S
    <3>2. Min(S) \in S /\ \A x \in S : Min(S) <= x
      BY <1>2, <3>1, LeastInstant
    <3>3. from = IF first0 # NoTime THEN first0 ELSE Min(S)
      BY DEF S
    <3>4. \A m \in Queue' : createdAt'[m] \in S
      BY DEF S
    <3> HIDE DEF from
    <3> QED
      BY <3>1, <3>2, <3>3, <3>4
  <2>3. latest \in Time /\ latest <= now
    <3> DEFINE S == {updatedAt'[m] : m \in Queue'}
    <3>0. \A m \in Queue' : updatedAt'[m] \in Time /\ updatedAt'[m] <= now
      BY <1>1
    <3>1. S \subseteq 0..now /\ S # {} /\ S \subseteq Time
      BY <1>2, <1>5, <3>0 DEF Time
    <3>2. Max(S) \in S
      BY <3>1, <1>2, LargestInstant
    <3> QED
      BY <3>1, <3>2
  <2> HIDE DEF from, latest
  <2>4. /\ delay \in Nat
        /\ delay = 0 \/ delay <= from + MaximumWait - now \/ delay = typing0 - now
        /\ IF CapReached' THEN delay = 0 ELSE delay >= typing0 - now
    <3>1. from \in Nat /\ latest \in Nat /\ typing0 \in Int
      BY <1>2, <2>2, <2>3 DEF NoTime
    <3> QED
      BY <1>2, <3>1 DEF Delay, Larger, Smaller, Remaining
  <2>5. timer' \in Nat /\ timer' >= now /\ timer' # NoTime
    BY <1>2, <2>1, <2>4
  <2>6. first' # NoTime /\ first' \in Nat
    BY <1>2, <2>1, <2>2
  <2>7. WindowIsOpen'
    <3> SUFFICES ASSUME NEW m \in Queue'
                 PROVE  from <= createdAt'[m] \/ from <= renewedAt'
      BY <1>1, <2>1, <2>6 DEF WindowIsOpen
    <3>1. CASE first0 = NoTime
      BY <3>1, <2>2
    <3>2. CASE first0 # NoTime
      BY <3>2, <1>1 DEF from
    <3> QED
      BY <3>1, <3>2
  <2>8. typing' \in Nat \cup {NoTime} /\ (typing' <= timer' \/ CapReached')
    BY <1>2, <2>1, <2>4, <2>5 DEF NoTime
  <2>9. TimerFits'
    <3>1. timer' = now' \/ timer' <= first' + MaximumWait \/ timer' <= typing'
      <4>1. CASE delay = 0
        BY <4>1, <1>2, <2>1
      <4>2. CASE delay <= from + MaximumWait - now
        BY <4>2, <1>2, <2>1, <2>2, <2>4
      <4>3. CASE delay = typing0 - now /\ delay # 0
        BY <4>3, <1>2, <2>1, <2>4 DEF NoTime
      <4> QED
        BY <4>1, <4>2, <4>3, <2>4
    <3>2. IF CapReached' THEN timer' = now' ELSE typing' <= timer'
      BY <1>2, <2>1, <2>4, <2>8
    <3> QED
      BY <3>1, <3>2 DEF TimerFits
  <2>10. ArmedWhenDue'
    BY <1>1, <1>5, <2>5 DEF ArmedWhenDue
  <2> QED
    BY <1>2, <2>1, <2>2, <2>3, <2>5, <2>7, <2>8, <2>9, <2>10 DEF NoTime
<1> QED
  BY <1>3, <1>4, <1>5

LEMMA InitBatched == BatchingInit => Batched
<1> SUFFICES ASSUME BatchingInit PROVE Batched
  OBVIOUS
<1>1. 0 \in Time
  BY CountAssumption DEF Time
<1>2. Queue = {}
  BY DEF BatchingInit, Queue
<1>3. BatchingTypeOK
  <2>1. createdAt \in [Message -> Time] /\ updatedAt \in [Message -> Time]
        /\ size \in [Message -> Nat]
        /\ place \in [Message -> {"new", "queued", "running", "done"}]
    BY <1>1 DEF BatchingInit
  <2>2. corrections \in 0..MaxCorrections /\ restarts \in 0..MaxRestarts
    BY CountAssumption DEF BatchingInit
  <2> QED
    BY <1>1, <2>1, <2>2 DEF BatchingInit, BatchingTypeOK
<1> QED
  BY <1>2, <1>3
  DEF BatchingInit, Batched, PastTimes, ArmedWhenDue, WindowIsOpen, TimerFits, NoTime

LEMMA TextsHaveLengths ==
  ASSUME size \in [Message -> Nat], NEW m \in Message, Texted(m)
  PROVE  size' \in [Message -> Nat]
  BY CapAssumption DEF Texted

\* What the user does to the queue.
LEMMA UserSteps ==
  ASSUME Batched, NEW m \in Message,
         Enqueue(m) \/ EnqueueAgain(m) \/ UpdateQueued(m) \/ RetractQueued(m)
           \/ RequeueEdited(m)
  PROVE  Batched'
<1> USE DEF Batched, BatchingTypeOK, PastTimes
<1>0. size' \in [Message -> Nat]
  <2>1. CASE EnqueueAgain(m)
    BY <2>1 DEF EnqueueAgain, rows
  <2>2. CASE RetractQueued(m)
    BY <2>2 DEF RetractQueued
  <2>3. CASE Texted(m)
    BY <2>3, TextsHaveLengths
  <2> QED
    BY <2>1, <2>2, <2>3 DEF Enqueue, UpdateQueued, RequeueEdited
<1>1. now \in Nat /\ now \in Time /\ 0 \in Time /\ 0 <= now /\ NoTime <= now /\ now # NoTime
  BY CountAssumption DEF Time, NoTime
<1> USE DelayNumbers
<1>2. CASE Enqueue(m)
  <2> DEFINE first0 == IF first = NoTime THEN now ELSE first
  <2>1. Schedule(QuietWindow, first0, now, typing) /\ now' = now
    BY <1>2 DEF Enqueue
  <2>2. /\ place' \in [Message -> {"new", "queued", "running", "done"}]
        /\ createdAt' \in [Message -> Time] /\ updatedAt' \in [Message -> Time]
        /\ \A n \in Message : createdAt'[n] <= now /\ updatedAt'[n] <= now
        /\ ~paused' /\ paused' \in BOOLEAN
        /\ renewedAt' \in Time /\ renewedAt' <= now
        /\ corrections' \in 0..MaxCorrections /\ restarts' \in 0..MaxRestarts
    <3>1. /\ place' = [place EXCEPT ![m] = "queued"]
          /\ createdAt' = [createdAt EXCEPT ![m] = now]
          /\ updatedAt' = [updatedAt EXCEPT ![m] = now]
          /\ ~paused' /\ paused' \in BOOLEAN /\ renewedAt' \in {now, renewedAt}
          /\ corrections' = corrections /\ restarts' = restarts
      BY <1>2 DEF Enqueue, counters
    <3>2. \A n \in Message : createdAt'[n] <= now /\ updatedAt'[n] <= now
      BY <1>1, <3>1
    <3> QED
      BY <1>1, <3>1, <3>2
  <2>3. Running' => timer = NoTime
    BY <1>2 DEF Enqueue, Running, ArmedWhenDue
  <2>4. \A n \in Queue' : first0 <= createdAt'[n] \/ first0 <= renewedAt'
    <3> SUFFICES ASSUME NEW n \in Queue' PROVE first0 <= createdAt'[n] \/ first0 <= renewedAt'
      OBVIOUS
    <3>1. CASE n = m
      <4>1. createdAt'[m] = now
        BY <1>2 DEF Enqueue
      <4>2. first0 <= now
        BY <1>1
      <4> QED
        BY <3>1, <4>1, <4>2
    <3>2. CASE n # m
      <4>1. n \in Queue /\ createdAt'[n] = createdAt[n]
        BY <3>2, <1>2 DEF Enqueue, Queue
      <4>2. first # NoTime => renewedAt' = renewedAt
        BY <1>2 DEF Enqueue
      <4>3. first = NoTime => renewedAt' = now
        BY <1>2, <4>1 DEF Enqueue
      <4> QED
        BY <1>1, <4>1, <4>2, <4>3 DEF WindowIsOpen
    <3> QED
      BY <3>1, <3>2
  <2>5. first0 \in Time \cup {NoTime} /\ first0 <= now
    BY <1>1
  <2> HIDE DEF first0
  <2> QED
    BY <1>0, <1>1, <2>1, <2>2, <2>3, <2>4, <2>5, ScheduleFits
<1>3. CASE UpdateQueued(m)
  <2>1. Schedule(QuietWindow, first, now, typing) /\ now' = now
    BY <1>3 DEF UpdateQueued
  <2>2. /\ UNCHANGED <<place, createdAt, paused, renewedAt, counters>>
        /\ updatedAt' = [updatedAt EXCEPT ![m] = now]
    BY <1>3 DEF UpdateQueued
  <2>3. paused' \/ Running' => timer = NoTime
    BY <2>2 DEF Running, ArmedWhenDue
  <2>4. first # NoTime =>
          \A n \in Queue' : first <= createdAt'[n] \/ first <= renewedAt'
    BY <2>2 DEF Queue, WindowIsOpen
  <2>5. /\ place' \in [Message -> {"new", "queued", "running", "done"}]
        /\ createdAt' \in [Message -> Time] /\ updatedAt' \in [Message -> Time]
        /\ paused' \in BOOLEAN /\ renewedAt' \in Time /\ renewedAt' <= now
        /\ corrections' = corrections /\ restarts' = restarts
    BY <1>1, <2>2 DEF counters
  <2>6. \A n \in Message : createdAt'[n] <= now /\ updatedAt'[n] <= now
    <3> SUFFICES ASSUME NEW n \in Message
                 PROVE  createdAt'[n] <= now /\ updatedAt'[n] <= now
      OBVIOUS
    <3>1. createdAt'[n] <= now
      BY <2>2
    <3>2. updatedAt'[n] <= now
      BY <1>1, <2>2
    <3> QED
      BY <3>1, <3>2
  <2>7. /\ first \in Time \cup {NoTime} /\ first <= now
        /\ now \in Time \cup {NoTime} /\ now <= now
        /\ QuietWindow \in Nat /\ typing \in Nat \cup {NoTime}
    BY <1>1
  <2> QED
    BY <1>0, <1>1, <2>1, <2>3, <2>4, <2>5, <2>6, <2>7, ScheduleFits
<1>4. CASE RetractQueued(m)
  <2>1. Schedule(QuietWindow, first, last, typing) /\ now' = now
    BY <1>4 DEF RetractQueued
  <2>2. /\ place' \in [Message -> {"new", "queued", "running", "done"}]
        /\ createdAt' \in [Message -> Time] /\ updatedAt' \in [Message -> Time]
        /\ \A n \in Message : createdAt'[n] <= now /\ updatedAt'[n] <= now
        /\ paused' = paused /\ renewedAt' = renewedAt /\ UNCHANGED counters
    BY <1>1, <1>4 DEF RetractQueued
  <2>3. paused' \/ Running' => timer = NoTime
    BY <2>2, <1>4 DEF RetractQueued, Running, ArmedWhenDue
  <2>4. first # NoTime =>
          \A n \in Queue' : first <= createdAt'[n] \/ first <= renewedAt'
    BY <1>4 DEF RetractQueued, Queue, WindowIsOpen
  <2> QED
    BY <1>0, <1>1, <2>1, <2>2, <2>3, <2>4, ScheduleFits DEF counters
<1>5. CASE RequeueEdited(m)
  <2>1. Schedule(AfterTurnQuiet, now, now, typing) /\ now' = now
    BY <1>5 DEF RequeueEdited
  <2>2. /\ place' \in [Message -> {"new", "queued", "running", "done"}]
        /\ createdAt' = createdAt /\ updatedAt' \in [Message -> Time]
        /\ \A n \in Message : createdAt'[n] <= now /\ updatedAt'[n] <= now
        /\ ~paused' /\ paused' \in BOOLEAN /\ renewedAt' = now
        /\ corrections' \in 0..MaxCorrections /\ restarts' = restarts
    <3>1. /\ place' = [place EXCEPT ![m] = "queued"] /\ createdAt' = createdAt
          /\ updatedAt' = [updatedAt EXCEPT ![m] = now]
          /\ ~paused' /\ paused' \in BOOLEAN /\ renewedAt' = now
          /\ corrections < MaxCorrections /\ corrections' = corrections + 1
          /\ restarts' = restarts
      BY <1>5 DEF RequeueEdited
    <3>2. corrections' \in 0..MaxCorrections
      BY <3>1, CountAssumption
    <3>3. \A n \in Message : updatedAt'[n] <= now
      BY <1>1, <3>1
    <3> QED
      BY <1>1, <3>1, <3>2, <3>3
  <2>3. ~Running'
    BY <1>5 DEF RequeueEdited, Running
  <2>4. \A n \in Queue' : now <= createdAt'[n] \/ now <= renewedAt'
    BY <1>1, <2>2
  <2> QED
    BY <1>0, <1>1, <2>1, <2>2, <2>3, <2>4, ScheduleFits
<1>6. CASE EnqueueAgain(m)
  <2>1. Schedule(QuietWindow, first, last, typing)
        /\ UNCHANGED <<now, rows, paused, counters, renewedAt>>
    BY <1>6 DEF EnqueueAgain
  <2>2. paused' \/ Running' => timer = NoTime
    BY <2>1 DEF Running, ArmedWhenDue, rows
  <2>3. first # NoTime =>
          \A n \in Queue' : first <= createdAt'[n] \/ first <= renewedAt'
    BY <2>1 DEF Queue, WindowIsOpen, rows
  <2> QED
    BY <1>0, <1>1, <2>1, <2>2, <2>3, ScheduleFits DEF counters, rows
<1> QED
  BY <1>2, <1>3, <1>4, <1>5, <1>6

\* What changes the queue's state, and the turns.
LEMMA QueueSteps ==
  ASSUME Batched, NoteTyping \/ Pause \/ Resume \/ ClaimBurst \/ TurnEnds \/ Restart \/ Tick
  PROVE  Batched'
<1> USE DEF Batched, BatchingTypeOK, PastTimes
<1>1. now \in Nat /\ now \in Time /\ 0 \in Time /\ 0 <= now /\ NoTime <= now /\ now # NoTime
  BY CountAssumption DEF Time, NoTime
<1> USE DelayNumbers
<1>2. CASE NoteTyping
  <2>1. Schedule(QuietWindow, first, last, now + TypingWindow) /\ UNCHANGED <<now, rows, paused, counters, renewedAt>>
    BY <1>2 DEF NoteTyping
  <2>2. paused' \/ Running' => timer = NoTime
    BY <2>1 DEF Running, ArmedWhenDue, rows
  <2>3. first # NoTime =>
          \A n \in Queue' : first <= createdAt'[n] \/ first <= renewedAt'
    BY <2>1 DEF Queue, WindowIsOpen, rows
  <2>4. now + TypingWindow \in Nat \cup {NoTime}
    BY <1>1
  <2> QED
    BY <1>1, <2>1, <2>2, <2>3, <2>4, ScheduleFits DEF counters, rows
<1>3. CASE Pause
  BY <1>1, <1>3
  DEF Pause, rows, counters, ArmedWhenDue, WindowIsOpen, TimerFits, Queue, Running
<1>4. CASE Resume
  <2>1. /\ Schedule(AfterTurnQuiet, first, last, typing)
        /\ UNCHANGED <<now, rows, counters, renewedAt>> /\ paused /\ ~paused'
        /\ paused' \in BOOLEAN
    BY <1>4 DEF Resume
  <2>2. paused' \/ Running' => timer = NoTime
    BY <2>1 DEF ArmedWhenDue
  <2>3. first # NoTime =>
          \A n \in Queue' : first <= createdAt'[n] \/ first <= renewedAt'
    BY <2>1 DEF Queue, WindowIsOpen, rows
  <2> QED
    BY <1>1, <2>1, <2>2, <2>3, ScheduleFits DEF counters, rows
<1>5. CASE ClaimBurst
  <2>1. PICK S \in SUBSET Queue :
          /\ IsBurst(S)
          /\ place' = [m \in Message |-> IF m \in S THEN "running" ELSE place[m]]
    BY <1>5 DEF ClaimBurst
  <2>2. PICK m \in S : TRUE
    BY <2>1 DEF IsBurst
  <2>3. place'[m] = "running" /\ m \in Message
    BY <2>1, <2>2 DEF Queue
  <2>4. Running'
    BY <2>3 DEF Running
  <2>5. place' \in [Message -> {"new", "queued", "running", "done"}]
    BY <2>1
  <2> QED
    BY <1>1, <1>5, <2>4, <2>5
    DEF ClaimBurst, counters, ArmedWhenDue, WindowIsOpen, TimerFits
<1>6. CASE TurnEnds
  <2>1. /\ place' \in [Message -> {"new", "queued", "running", "done"}]
        /\ UNCHANGED <<now, size, createdAt, updatedAt, paused, counters, renewedAt>>
        /\ Queue' = Queue /\ ~Running' /\ timer = NoTime
    BY <1>6 DEF TurnEnds, Queue, Running, ArmedWhenDue
  <2>2. CASE Queue # {}
    <3>1. Schedule(AfterTurnQuiet, first, last, typing)
      BY <1>6, <2>2 DEF TurnEnds
    <3>2. first # NoTime =>
            \A n \in Queue' : first <= createdAt'[n] \/ first <= renewedAt'
      BY <2>1 DEF WindowIsOpen
    <3> QED
      BY <1>1, <2>1, <3>1, <3>2, ScheduleFits DEF counters
  <2>3. CASE Queue = {}
    <3>1. typing' = NoTime /\ UNCHANGED <<first, last, timer>>
      BY <1>6, <2>3 DEF TurnEnds
    <3> QED
      BY <2>1, <2>3, <3>1 DEF counters, ArmedWhenDue, WindowIsOpen, TimerFits
  <2> QED
    BY <2>2, <2>3
<1>7. CASE Restart
  <2>1. /\ place' \in [Message -> {"new", "queued", "running", "done"}]
        /\ UNCHANGED <<now, size, createdAt, updatedAt, paused, corrections, renewedAt>>
        /\ restarts' \in 0..MaxRestarts
        /\ Queue' = Queue /\ ~Running'
    BY <1>7, CountAssumption DEF Restart, Queue, Running
  <2>2. CASE ~paused
    <3>1. Schedule(0, NoTime, NoTime, NoTime)
      BY <1>7, <2>2 DEF Restart
    <3> QED
      BY <1>1, <2>1, <2>2, <3>1, ScheduleFits
  <2>3. CASE paused
    <3>1. first' = NoTime /\ last' = NoTime /\ typing' = NoTime /\ timer' = NoTime
      BY <1>7, <2>3 DEF Restart
    <3> QED
      BY <1>1, <2>1, <2>3, <3>1 DEF ArmedWhenDue, WindowIsOpen, TimerFits
  <2> QED
    BY <2>2, <2>3
<1>8. CASE Tick
  <2>1. /\ now' = now + 1 /\ now' \in Time /\ timer # now
        /\ UNCHANGED <<rows, first, last, typing, timer, paused, counters, renewedAt>>
    BY <1>1, <1>8, CountAssumption DEF Tick, Time
  <2>2. timer # NoTime => timer \in Nat /\ timer > now
    BY <1>1, <2>1
  <2>3. BatchingTypeOK'
    BY <1>1, <2>1, <2>2 DEF rows, counters
  <2>4. PastTimes'
    BY <1>1, <2>1, CountAssumption DEF rows, Time, NoTime
  <2>5. ArmedWhenDue' /\ WindowIsOpen'
    BY <2>1 DEF ArmedWhenDue, WindowIsOpen, Queue, Running, rows
  <2>6. TimerFits'
    <3>1. CapReached' = CapReached
      <4>1. Queue' = Queue /\ size' = size
        BY <2>1 DEF Queue, rows
      <4> QED
        BY <4>1 DEF CapReached, Characters
    <3> QED
      BY <2>1, <2>2, <3>1 DEF TimerFits
  <2> QED
    BY <2>3, <2>4, <2>5, <2>6
<1> QED
  BY <1>2, <1>3, <1>4, <1>5, <1>6, <1>7, <1>8

LEMMA BatchedHolds == BatchingSpec => []Batched
<1>1. Batched /\ [BatchingNext]_batchingVars => Batched'
  <2> SUFFICES ASSUME Batched, [BatchingNext]_batchingVars PROVE Batched'
    OBVIOUS
  <2>1. CASE UNCHANGED batchingVars
    <3>1. UNCHANGED <<now, place, size, createdAt, updatedAt, first, last, typing, timer, paused,
                      corrections, restarts, renewedAt>>
      BY <2>1 DEF batchingVars, rows, counters
    <3>2. Queue' = Queue /\ Running' = Running
      BY <3>1 DEF Queue, Running
    <3>3. CapReached' = CapReached
      BY <3>1, <3>2 DEF CapReached, Characters
    <3> QED
      BY <3>1, <3>2, <3>3
      DEF Batched, BatchingTypeOK, PastTimes, ArmedWhenDue, WindowIsOpen, TimerFits
  <2> QED
    BY <2>1, UserSteps, QueueSteps DEF BatchingNext
<1> QED
  BY <1>1, InitBatched, PTL DEF BatchingSpec

\* Windows, timer and typing stay in their ranges, and no timer is overdue.
THEOREM DelaysAreTyped == BatchingSpec => []BatchingTypeOK
  BY BatchedHolds, PTL DEF Batched

\* The oldest message is claimed within the maximum, counted from when it was sent
\* or its window was opened anew, unless the user is typing.
THEOREM WaitsAreBounded == BatchingSpec => []WaitIsBounded
<1>1. Batched => WaitIsBounded
  <2> SUFFICES ASSUME Batched, timer # NoTime, timer # now, ~(timer <= typing)
               PROVE  timer <= Larger(Oldest, renewedAt) + MaximumWait
    BY DEF WaitIsBounded
  <2> USE DelayNumbers
  <2>1. first \in Nat /\ timer \in Nat /\ renewedAt \in Nat
    BY CountAssumption DEF Batched, BatchingTypeOK, WindowIsOpen, Time
  <2>2. timer <= first + MaximumWait
    BY DEF Batched, TimerFits
  <2> DEFINE S == {createdAt[m] : m \in Queue}
  <2>3. \A m \in Queue : createdAt[m] \in Nat
    BY CountAssumption DEF Batched, BatchingTypeOK, Time, Queue
  <2>4. PICK m \in Queue : TRUE
    BY DEF Batched, ArmedWhenDue
  <2>5. S \subseteq Nat /\ S # {}
    BY <2>3, <2>4
  <2>6. Min(S) \in S
    <3> HIDE DEF S
    <3> QED
      BY <2>5, LeastInstant
  <2>7. PICK n \in Queue : Oldest = createdAt[n]
    BY <2>6 DEF Oldest
  <2>8. first <= createdAt[n] \/ first <= renewedAt
    BY DEF Batched, WindowIsOpen
  <2> QED
    BY <2>1, <2>2, <2>3, <2>7, <2>8 DEF Larger
<1> QED
  BY <1>1, BatchedHolds, PTL

\* While the user types nothing is claimed, unless the burst is full.
THEOREM TypingDefers == BatchingSpec => TypingDefersClaim
<1>1. Batched => [ClaimBurst => CapReached \/ typing <= now]_batchingVars
  BY DEF Batched, TimerFits, ClaimBurst, BatchingTypeOK, NoTime, Time
<1> QED
  BY <1>1, BatchedHolds, PTL DEF TypingDefersClaim, BatchingSpec

\* A full burst is due at once, whatever made it full and even while the user types.
THEOREM FullBurstsAreDue == BatchingSpec => []FullBurstIsDue
<1>1. Batched => FullBurstIsDue
  BY DEF Batched, ArmedWhenDue, TimerFits, FullBurstIsDue
<1> QED
  BY <1>1, BatchedHolds, PTL

-----------------------------------------------------------------------------
(* MemoryJobs: the inductive invariant.                                    *)

\* A row whose last claim has neither been taken back by a break nor been answered
\* by a retry: this one claim is the only one not yet accounted for.
Unaccounted(row) ==
  IF row.status \in {"none", "pending"} \/ (row.status = "running" /\ (~row.mine \/ row.lapsed))
    THEN 0 ELSE 1

CallsCounted ==
  \A t \in Turn : job[t].attempts <= retries[t] + breaks + Unaccounted(job[t])

\* No claim is a process's that is gone.
NothingHeldWhenDown ==
  ~up => \A t \in Turn : ~(job[t].status = "running" /\ job[t].mine)

\* What is stored is of a job that has ended with a result, or was cut short.
StoredIsResult ==
  \A m \in memories :
    m.turn \in cut \/ (job[m.turn].status = "completed" /\ job[m.turn].count > 0)

\* A turn that was revised has no job that could store anything, but by a retry.
RevisedIsOver ==
  \A t \in revised : retries[t] > 0 \/ job[t].status \in {"completed", "failed", "skipped"}

Typed ==
  /\ TypeOK
  /\ \A l \in Loop : loops[l].phase = "model" => loops[l].turn \in Turn

Calls == CallsCounted /\ NothingHeldWhenDown
Stores == NoKeyTwice /\ OneAnswerPerTurn /\ StoredIsResult /\ RevisedIsOver /\ RevisedLeavesNothing

Inductive == Typed /\ Calls /\ Stores

-----------------------------------------------------------------------------
(* Operators.                                                              *)

\* A loop always has a next job while its list is not empty.
LEMMA HasLeast ==
  ASSUME NEW S, S \subseteq Nat, S # {}
  PROVE  \E t \in S : \A u \in S : t <= u
<1> DEFINE R == {ss \in Nat \X Nat : ss[1] < ss[2]}
<1>1. IsWellFoundedOn(R, Nat)
  BY NatLessThanWellFounded DEF OpToRel
<1>2. PICK t \in S : \A u \in S : ~ (<<u, t>> \in R)
  <2> HIDE DEF R
  <2> QED BY <1>1, WFMin
<1>3. \A u \in S : u < t => <<u, t>> \in R
  OBVIOUS
<1>4. t \in Nat /\ \A u \in S : u \in Nat
  OBVIOUS
<1>5. \A u \in S : ~(u < t)
  BY <1>2, <1>3
<1> QED
  BY <1>4, <1>5

\* The job at the head of a list is one of the list.
LEMMA HeadIsListed ==
  ASSUME Typed, NEW l \in Loop, loops[l].list # {}
  PROVE  AtHead(l) \in loops[l].list /\ AtHead(l) \in Turn
<1>1. loops[l].list \subseteq Turn
  BY DEF Typed, TypeOK, JobsTypeOK
<1>2. Turn \subseteq Nat
  BY JobsAssumption DEF Turn
<1>3. \E t \in loops[l].list : \A u \in loops[l].list : t <= u
  BY <1>1, <1>2, HasLeast
<1> QED
  BY <1>1, <1>3 DEF AtHead, First

\* An answer is a sequence of as many facts as the bound allows.
LEMMA AnswerIsSequence ==
  ASSUME NEW answer \in Answer
  PROVE  Len(answer) \in 0..MaxCandidates /\ \A i \in 1..Len(answer) : answer[i] \in Fact
<1>1. PICK n \in 0..MaxCandidates : answer \in [1..n -> Fact]
  BY DEF Answer
<1>2. n \in Nat
  BY MemoryAssumption
<1>3. answer \in Seq(Fact)
  BY <1>1, <1>2, SeqDef
<1>4. Len(answer) = n
  BY <1>1, <1>2, <1>3, LenProperties
<1> QED
  BY <1>1, <1>4

Row == [status : {"none", "pending", "running", "completed", "failed", "skipped"},
        attempts : Nat, mine : BOOLEAN, lapsed : BOOLEAN, count : Nat]
LoopState == [phase : {"none", "next", "model"}, list : SUBSET Turn,
              turn : 0..Turns, attempt : Nat]
Memory == [turn : Turn, index : 0..MaxCandidates, fact : Fact, attempt : Nat,
           validity : {"pending", "active", "deleted"}]

RowsTyped == job \in [Turn -> Row] /\ retries \in [Turn -> Nat] /\ breaks \in 0..MaxBreaks
                /\ up \in BOOLEAN /\ scheduled \in BOOLEAN
LoopsTyped == /\ loops \in [Loop -> LoopState]
              /\ \A l \in Loop : loops[l].phase = "model" => loops[l].turn \in Turn
StoreTyped == memories \subseteq Memory /\ order \in Orders /\ revised \subseteq Turn /\ cut \subseteq Turn

\* The type invariant, by the part of the state it is about.
LEMMA TypedParts == Typed <=> RowsTyped /\ LoopsTyped /\ StoreTyped
  BY DEF Typed, TypeOK, JobsTypeOK, RowsTyped, LoopsTyped, StoreTyped, Row, LoopState, Memory

\* The first state is well typed.
LEMMA TypedInit == Init => Typed
<1> SUFFICES ASSUME Init PROVE Typed
  OBVIOUS
<1>1. RowsTyped
  BY JobsAssumption DEF Init, JobsInit, RowsTyped, Row, NoJob
<1>2. LoopsTyped
  BY JobsAssumption DEF Init, JobsInit, LoopsTyped, LoopState, NoLoop
<1>3. StoreTyped
  BY DEF Init, StoreTyped
<1> QED
  BY <1>1, <1>2, <1>3, TypedParts

Over == {"completed", "failed", "skipped"}

\* What the statements on a row make of it, and what that leaves unaccounted for.
LEMMA ClaimOfRow ==
  ASSUME NEW row \in Row
  PROVE  /\ Claimed(row) \in Row
         /\ Claimed(row).attempts = row.attempts + 1
         /\ Claimed(row).status = "running"
         /\ Unaccounted(Claimed(row)) = 1
         /\ Claimable(row) => Unaccounted(row) = 0 /\ row.status \in Outstanding
<1>1. row.attempts + 1 \in Nat
  BY DEF Row
<1>2. Claimed(row).status = "running" /\ Claimed(row).attempts = row.attempts + 1
        /\ Claimed(row).mine = TRUE /\ Claimed(row).lapsed = FALSE
  BY DEF Row, Claimed
<1>3. Claimed(row) \in Row
  BY <1>1 DEF Row, Claimed
<1>4. Unaccounted(Claimed(row)) = 1
  BY <1>2 DEF Unaccounted
<1>5. Claimable(row) => Unaccounted(row) = 0 /\ row.status \in Outstanding
  BY DEF Claimable, Unaccounted, Outstanding
<1> QED
  BY <1>2, <1>3, <1>4, <1>5

\* The same of the end of a job.
LEMMA EndOfRow ==
  ASSUME NEW row \in Row, NEW status \in Over, NEW count \in Nat
  PROVE  /\ Ended(row, status, count) \in Row
         /\ Ended(row, status, count).attempts = row.attempts
         /\ Ended(row, status, count).status = status
         /\ Ended(row, status, count).count = count
         /\ Unaccounted(Ended(row, status, count)) = 1
<1>1. Ended(row, status, count).status = status /\ Ended(row, status, count).count = count
        /\ Ended(row, status, count).attempts = row.attempts
  BY DEF Row, Ended
<1>2. Ended(row, status, count) \in Row
  BY DEF Row, Ended, Over
<1>3. Unaccounted(Ended(row, status, count)) = 1
  BY <1>1 DEF Unaccounted, Over
<1> QED
  BY <1>1, <1>2, <1>3

\* The same of a claim that is given back.
LEMMA ReturnOfRow ==
  ASSUME NEW row \in Row
  PROVE  /\ Returned(row) \in Row
         /\ Returned(row).attempts = row.attempts
         /\ Returned(row).status = "pending"
         /\ Unaccounted(Returned(row)) = 0
<1>1. Returned(row).status = "pending" /\ Returned(row).attempts = row.attempts
  BY DEF Row, Returned
<1>2. Returned(row) \in Row
  BY DEF Row, Returned
<1>3. Unaccounted(Returned(row)) = 0
  BY <1>1 DEF Unaccounted
<1> QED
  BY <1>1, <1>2, <1>3

\* What no step does to a row: a completed job stays what it is, a job that is over
\* is taken up again by a retry only.
RowsKept ==
  \A t \in Turn :
    /\ job[t].status = "completed" => job'[t].status = "completed" /\ job'[t].count = job[t].count
    /\ job[t].status \in Over => job'[t].status \in Over \/ retries'[t] > 0
    /\ retries[t] > 0 => retries'[t] > 0

RowsStep == RowsTyped' /\ Calls' /\ RowsKept

\* A step on one row while the process runs.
LEMMA OneRow ==
  ASSUME RowsTyped, Calls, up, scheduled' \in BOOLEAN, UNCHANGED <<up, retries, breaks>>,
         NEW t \in Turn, NEW row \in Row, job' = [job EXCEPT ![t] = row],
         row.attempts <= retries[t] + breaks + Unaccounted(row),
         job[t].status \notin Over
  PROVE  RowsStep
<1> USE DEF RowsTyped
<1>1. job' \in [Turn -> Row]
  OBVIOUS
<1>2. job'[t] = row /\ \A u \in Turn : u # t => job'[u] = job[u]
  OBVIOUS
<1>3. RowsTyped'
  BY <1>1
<1>4. CallsCounted'
  <2> SUFFICES ASSUME NEW u \in Turn
               PROVE  job'[u].attempts <= retries[u] + breaks + Unaccounted(job'[u])
    BY DEF CallsCounted, Unaccounted
  <2> QED
    BY <1>2 DEF Calls, CallsCounted
<1>5. NothingHeldWhenDown'
  BY DEF NothingHeldWhenDown
<1>6. RowsKept
  BY <1>2 DEF RowsKept, Over
<1> QED
  BY <1>3, <1>4, <1>5, <1>6 DEF RowsStep, Calls

\* A step that leaves the rows alone.
LEMMA NoRow ==
  ASSUME RowsTyped, Calls, scheduled' \in BOOLEAN, UNCHANGED <<job, up, retries, breaks>>
  PROVE  RowsStep
  BY DEF RowsTyped, Calls, CallsCounted, NothingHeldWhenDown, RowsStep, RowsKept, Unaccounted

\* Claimed and ended at once.
LEMMA ClaimAndEndRow ==
  ASSUME RowsTyped, Calls, up, UNCHANGED <<up, scheduled, retries, breaks>>,
         NEW t \in Turn, Claimable(job[t]), NEW status \in Over, NEW count \in Nat,
         job' = [job EXCEPT ![t] = Ended(Claimed(@), status, count)]
  PROVE  RowsStep
<1> DEFINE row == Ended(Claimed(job[t]), status, count)
<1>1. job[t] \in Row /\ retries[t] \in Nat /\ breaks \in Nat
  BY JobsAssumption DEF RowsTyped
<1>2. row \in Row /\ row.attempts = job[t].attempts + 1 /\ Unaccounted(row) = 1
  BY <1>1, ClaimOfRow, EndOfRow
<1>3. job[t].attempts <= retries[t] + breaks
  BY <1>1, ClaimOfRow DEF Calls, CallsCounted
<1>4. job[t].attempts \in Nat /\ job[t].status \notin Over
  BY <1>1, ClaimOfRow DEF Row, Over, Outstanding
<1>5. row.attempts <= retries[t] + breaks + Unaccounted(row)
  BY <1>1, <1>2, <1>3, <1>4
<1>6. job' = [job EXCEPT ![t] = row] /\ scheduled' \in BOOLEAN
  BY DEF RowsTyped
<1> HIDE DEF row
<1> QED
  BY <1>2, <1>4, <1>5, <1>6, OneRow

\* Claimed for the model.
LEMMA ClaimRow ==
  ASSUME RowsTyped, Calls, up, UNCHANGED <<up, scheduled, retries, breaks>>,
         NEW t \in Turn, Claimable(job[t]), job' = [job EXCEPT ![t] = Claimed(@)]
  PROVE  RowsStep
<1> DEFINE row == Claimed(job[t])
<1>1. job[t] \in Row /\ retries[t] \in Nat /\ breaks \in Nat
  BY JobsAssumption DEF RowsTyped
<1>2. row \in Row /\ row.attempts = job[t].attempts + 1 /\ Unaccounted(row) = 1
  BY <1>1, ClaimOfRow
<1>3. job[t].attempts <= retries[t] + breaks
  BY <1>1, ClaimOfRow DEF Calls, CallsCounted
<1>4. job[t].attempts \in Nat /\ job[t].status \notin Over
  BY <1>1, ClaimOfRow DEF Row, Over, Outstanding
<1>5. row.attempts <= retries[t] + breaks + Unaccounted(row)
  BY <1>1, <1>2, <1>3, <1>4
<1>6. job' = [job EXCEPT ![t] = row] /\ scheduled' \in BOOLEAN
  BY DEF RowsTyped
<1> HIDE DEF row
<1> QED
  BY <1>2, <1>4, <1>5, <1>6, OneRow

\* The end of a job the loop holds.
LEMMA EndRow ==
  ASSUME RowsTyped, Calls, up, UNCHANGED <<up, scheduled, retries, breaks>>,
         NEW t \in Turn, job[t].status = "running", NEW status \in Over, NEW count \in Nat,
         job' = [job EXCEPT ![t] = Ended(@, status, count)]
  PROVE  RowsStep
<1> DEFINE row == Ended(job[t], status, count)
<1>1. job[t] \in Row /\ retries[t] \in Nat /\ breaks \in Nat
  BY JobsAssumption DEF RowsTyped
<1>2. row \in Row /\ row.attempts = job[t].attempts /\ Unaccounted(row) = 1
  BY <1>1, EndOfRow
<1>3. job[t].attempts <= retries[t] + breaks + 1
  BY <1>1 DEF Calls, CallsCounted, Unaccounted, Row
<1>4. row.attempts <= retries[t] + breaks + Unaccounted(row)
  BY <1>1, <1>2, <1>3
<1>5. job' = [job EXCEPT ![t] = row] /\ scheduled' \in BOOLEAN
  BY DEF RowsTyped
<1> HIDE DEF row
<1> QED
  BY <1>2, <1>4, <1>5, OneRow DEF Over

\* A loop that has only a list is well typed, whatever it was before.
LEMMA LoopWithList ==
  ASSUME LoopsTyped, NEW l \in Loop, NEW S \in SUBSET Turn,
         loops' = [loops EXCEPT ![l] = [NoLoop EXCEPT !.phase = "next", !.list = S]]
  PROVE  LoopsTyped'
<1> DEFINE next == [NoLoop EXCEPT !.phase = "next", !.list = S]
<1>1. NoLoop \in LoopState
  BY JobsAssumption DEF LoopState, NoLoop
<1>2. next \in LoopState /\ next.phase = "next"
  BY <1>1 DEF LoopState
<1>3. loops' = [loops EXCEPT ![l] = next]
  OBVIOUS
<1> HIDE DEF next
<1> QED
  BY <1>2, <1>3 DEF LoopsTyped

\* A loop that goes on to its next job.
LEMMA LoopProceeds ==
  ASSUME LoopsTyped, NEW l \in Loop, loops' = Proceed(l)
  PROVE  LoopsTyped'
<1>1. loops[l].list \ {AtHead(l)} \in SUBSET Turn
  BY DEF LoopsTyped, LoopState
<1> QED
  BY <1>1, LoopWithList DEF Proceed

\* A loop that asks the model.
LEMMA LoopAwaits ==
  ASSUME LoopsTyped, RowsTyped, NEW l \in Loop, loops' = Await(l), AtHead(l) \in Turn
  PROVE  LoopsTyped'
<1>1. job[AtHead(l)].attempts + 1 \in Nat
  BY DEF RowsTyped, Row
<1>2. AtHead(l) \in 0..Turns
  BY JobsAssumption DEF Turn
<1> QED
  BY <1>1, <1>2 DEF Await, LoopsTyped, LoopState

\* A loop that ends, and the loops of a process that is gone.
LEMMA LoopsEnd ==
  ASSUME LoopsTyped, NEW l \in Loop,
         loops' = [loops EXCEPT ![l] = NoLoop] \/ loops' = [k \in Loop |-> NoLoop]
  PROVE  LoopsTyped'
<1>1. NoLoop \in LoopState /\ NoLoop.phase # "model"
  BY JobsAssumption DEF NoLoop, LoopState
<1> QED
  BY <1>1 DEF LoopsTyped

-----------------------------------------------------------------------------
(* The store.                                                              *)

\* An answer's facts are added under keys that are not known.
Added(added, t) ==
  /\ memories' = memories \cup added
  /\ \A m \in added : m.turn = t /\ ~Known(t, m.index)
  /\ \A m, n \in added : m.attempt = n.attempt /\ (m.index = n.index => m = n)

\* Memories that are added keep what is said of the store.
LEMMA StoresAdded ==
  ASSUME Typed, Stores, RowsKept, NEW added, NEW t \in Turn, Added(added, t),
         added \subseteq Memory, job[t].status \in Outstanding,
         UNCHANGED <<retries, revised>>, cut \subseteq cut',
         added = {} \/ t \in cut' \/ (job'[t].status = "completed" /\ job'[t].count > 0)
  PROVE  Stores'
<1>1. memories \subseteq Memory /\ revised \subseteq Turn
  BY TypedParts DEF StoreTyped
<1>2. \A m \in memories : m.turn \in Turn
  BY <1>1 DEF Memory
<1>3. \A m \in memories : m.turn = t => t \in cut
  BY DEF Stores, StoredIsResult, Outstanding
<1>4. t \in revised => retries[t] > 0
  BY DEF Stores, RevisedIsOver, Outstanding
<1>5. \A m \in memories' : m \in memories \/ m \in added
  BY DEF Added
<1>6. NoKeyTwice'
  <2> SUFFICES ASSUME NEW m \in memories', NEW n \in memories', m.turn = n.turn, m.index = n.index
               PROVE  m = n
    BY DEF NoKeyTwice
  <2> QED
    BY <1>5 DEF Stores, NoKeyTwice, Added, Known
<1>7. OneAnswerPerTurn'
  <2> SUFFICES ASSUME NEW m \in memories', NEW n \in memories', m.turn = n.turn,
                      m.attempt # n.attempt
               PROVE  m.turn \in cut
    BY DEF OneAnswerPerTurn
  <2> QED
    BY <1>3, <1>5 DEF Stores, OneAnswerPerTurn, Added
<1>8. StoredIsResult'
  <2> SUFFICES ASSUME NEW m \in memories', m.turn \notin cut'
               PROVE  job'[m.turn].status = "completed" /\ job'[m.turn].count > 0
    BY DEF StoredIsResult
  <2>1. CASE m \in memories
    BY <1>2, <2>1 DEF Stores, StoredIsResult, RowsKept
  <2>2. CASE m \in added
    BY <2>2 DEF Added
  <2> QED
    BY <1>5, <2>1, <2>2
<1>9. RevisedIsOver'
  BY <1>1 DEF Stores, RevisedIsOver, RowsKept, Over
<1>10. RevisedLeavesNothing'
  <2> SUFFICES ASSUME NEW m \in memories', m.turn \in revised, m.turn \notin cut'
               PROVE  retries[m.turn] > 0
    BY DEF RevisedLeavesNothing
  <2>1. CASE m \in memories
    BY <2>1 DEF Stores, RevisedLeavesNothing
  <2>2. CASE m \in added
    BY <1>4, <2>2 DEF Added
  <2> QED
    BY <1>5, <2>1, <2>2
<1> QED
  BY <1>6, <1>7, <1>8, <1>9, <1>10 DEF Stores

\* What becomes of a memory leaves its key, its turn and its answer.
LEMMA StoresAltered ==
  ASSUME Typed, Stores, RowsKept, NEW m \in memories, NEW validity,
         memories' = (memories \ {m}) \cup {[m EXCEPT !.validity = validity]},
         UNCHANGED revised, cut \subseteq cut'
  PROVE  Stores'
<1>1. memories \subseteq Memory /\ revised \subseteq Turn
  BY TypedParts DEF StoreTyped
<1> DEFINE new == [m EXCEPT !.validity = validity]
<1>2. new.turn = m.turn /\ new.index = m.index /\ new.attempt = m.attempt
  BY <1>1 DEF Memory
<1>3. memories' = (memories \ {m}) \cup {new}
  OBVIOUS
<1> HIDE DEF new
<1>4. \A n \in memories : n.turn \in Turn
  BY <1>1 DEF Memory
<1>5. \A n \in memories' : (n \in memories /\ n # m) \/ n = new
  BY <1>3
<1>6. NoKeyTwice'
  BY <1>2, <1>5 DEF Stores, NoKeyTwice
<1>7. OneAnswerPerTurn'
  BY <1>2, <1>5 DEF Stores, OneAnswerPerTurn
<1>8. StoredIsResult'
  BY <1>2, <1>4, <1>5 DEF Stores, StoredIsResult, RowsKept
<1>9. RevisedIsOver'
  BY <1>1 DEF Stores, RevisedIsOver, RowsKept, Over
<1>10. RevisedLeavesNothing'
  BY <1>2, <1>4, <1>5 DEF Stores, RevisedLeavesNothing, RowsKept
<1> QED
  BY <1>6, <1>7, <1>8, <1>9, <1>10 DEF Stores

\* A step that leaves the store alone.
LEMMA StoresLeft ==
  ASSUME Typed, Stores, RowsKept, UNCHANGED <<memories, revised>>, cut \subseteq cut'
  PROVE  Stores'
<1>1. memories \subseteq Memory /\ revised \subseteq Turn
  BY TypedParts DEF StoreTyped
<1>2. \A n \in memories : n.turn \in Turn
  BY <1>1 DEF Memory
<1>3. NoKeyTwice' /\ OneAnswerPerTurn'
  BY DEF Stores, NoKeyTwice, OneAnswerPerTurn
<1>4. StoredIsResult'
  BY <1>2 DEF Stores, StoredIsResult, RowsKept
<1>5. RevisedIsOver'
  BY <1>1 DEF Stores, RevisedIsOver, RowsKept, Over
<1>6. RevisedLeavesNothing'
  BY <1>2 DEF Stores, RevisedLeavesNothing, RowsKept
<1> QED
  BY <1>3, <1>4, <1>5, <1>6 DEF Stores

\* The candidates of an answer, as they are added.
LEMMA AnswerIsAdded ==
  ASSUME Typed, NEW t \in Turn, NEW attempt \in Nat, NEW answer \in Answer, NEW n \in 0..Len(answer),
         memories' = Proposed(t, answer, n, attempt)
  PROVE  \E added \in SUBSET Memory : Added(added, t) /\ (n = 0 => added = {})
<1>1. Len(answer) \in 0..MaxCandidates /\ \A i \in 1..Len(answer) : answer[i] \in Fact
  BY AnswerIsSequence
<1> DEFINE Candidate(i) == [turn |-> t, index |-> i, fact |-> answer[i], attempt |-> attempt,
                            validity |-> "pending"]
           fresh == {i \in 1..n : ~Known(t, i)}
           added == {Candidate(i) : i \in fresh}
<1>2. \A i \in 1..n : i \in 1..Len(answer) /\ i \in 0..MaxCandidates
  BY <1>1, MemoryAssumption
<1>3. \A i \in 1..n : Candidate(i) \in Memory
  BY <1>1, <1>2 DEF Memory
<1>4. added \in SUBSET Memory
  BY <1>3
<1>5. Added(added, t)
  BY DEF Added, Proposed
<1>6. n = 0 => added = {}
  OBVIOUS
<1> QED
  BY <1>4, <1>5, <1>6

\* What an order to remember adds.
LEMMA OrderIsAdded ==
  ASSUME Typed, NEW t \in Turn, NEW attempt \in Nat, memories' = Remembered(t, attempt)
  PROVE  \E added \in SUBSET Memory : Added(added, t)
<1> DEFINE new == [turn |-> t, index |-> 0, fact |-> Said[t], attempt |-> attempt,
                   validity |-> "active"]
<1>1. new \in Memory
  BY MemoryAssumption DEF Memory
<1>2. CASE memories' = memories
  <2>1. Added({}, t)
    BY <1>2 DEF Added
  <2> QED
    BY <2>1
<1>3. CASE ~Known(t, 0) /\ memories' = memories \cup {new}
  <2>1. Added({new}, t)
    BY <1>3 DEF Added
  <2> QED
    BY <1>1, <2>1
<1> QED
  BY <1>2, <1>3 DEF Remembered

\* A memory whose validity changes is a memory.
LEMMA AlteredIsTyped ==
  ASSUME StoreTyped, NEW m \in memories, NEW validity \in {"pending", "active", "deleted"},
         memories' = (memories \ {m}) \cup {[m EXCEPT !.validity = validity]},
         UNCHANGED <<order, revised>>, cut' \subseteq cut \cup Turn
  PROVE  StoreTyped'
<1>1. [m EXCEPT !.validity = validity] \in Memory
  BY DEF StoreTyped, Memory
<1>2. memories' \subseteq Memory
  BY <1>1 DEF StoreTyped
<1> QED
  BY <1>2 DEF StoreTyped

-----------------------------------------------------------------------------
(* The steps.                                                              *)

\* The invariant after a step, from its parts.
LEMMA Assembled ==
  ASSUME Inductive, RowsStep, LoopsTyped', StoreTyped', Stores'
  PROVE  Inductive'
  BY TypedParts DEF RowsStep, Inductive, Typed, TypeOK, JobsTypeOK, RowsTyped, LoopsTyped,
     StoreTyped, Row, LoopState, Memory

\* The hypotheses of the lemmas above, from the invariant.
LEMMA Parts ==
  ASSUME Inductive
  PROVE  /\ Typed /\ RowsTyped /\ LoopsTyped /\ StoreTyped /\ Calls /\ Stores
         /\ memories \subseteq Memory
         /\ \A l \in Loop : /\ AtNext(l) => AtHead(l) \in Turn
                            /\ StillMine(l) => /\ loops[l].turn \in Turn /\ up
                                               /\ loops[l].attempt \in Nat
                                               /\ job[loops[l].turn].status = "running"
<1>1. Typed /\ RowsTyped /\ LoopsTyped /\ StoreTyped /\ Calls /\ Stores
  BY TypedParts DEF Inductive
<1>2. memories \subseteq Memory
  BY <1>1 DEF StoreTyped
<1>3. ASSUME NEW l \in Loop, AtNext(l) PROVE AtHead(l) \in Turn
  BY <1>1, <1>3, HeadIsListed DEF AtNext
<1>4. ASSUME NEW l \in Loop, StillMine(l)
      PROVE  /\ loops[l].turn \in Turn /\ up /\ loops[l].attempt \in Nat
             /\ job[loops[l].turn].status = "running"
  BY <1>1, <1>4 DEF StillMine, AtModel, Holds, LoopsTyped, LoopState
<1> QED
  BY <1>1, <1>2, <1>3, <1>4

\* A step of a loop that claims a job and ends it at once.
LEMMA ClaimAndEndStep ==
  ASSUME Inductive, NEW l \in Loop, MayClaim(l), NEW status \in Over, NEW count \in Nat,
         ClaimAndEnd(l, status, count)
  PROVE  /\ RowsStep /\ LoopsTyped' /\ up
         /\ AtHead(l) \in Turn /\ job[AtHead(l)].status \in Outstanding
         /\ job'[AtHead(l)].status = status /\ job'[AtHead(l)].count = count
<1>1. Typed /\ RowsTyped /\ LoopsTyped /\ Calls /\ up /\ AtHead(l) \in Turn
  BY Parts DEF MayClaim, AtNext
<1>2. RowsStep
  BY <1>1, ClaimAndEndRow DEF MayClaim, ClaimAndEnd
<1>3. LoopsTyped'
  BY <1>1, LoopProceeds DEF ClaimAndEnd
<1>4. job[AtHead(l)] \in Row
  BY <1>1 DEF RowsTyped
<1>5. job[AtHead(l)].status \in Outstanding
  BY <1>4, ClaimOfRow DEF MayClaim
<1>6. job'[AtHead(l)] = Ended(Claimed(job[AtHead(l)]), status, count)
  BY <1>1 DEF ClaimAndEnd, RowsTyped
<1>7. job'[AtHead(l)].status = status /\ job'[AtHead(l)].count = count
  BY <1>4, <1>6, ClaimOfRow, EndOfRow
<1> QED
  BY <1>1, <1>2, <1>3, <1>5, <1>7

\* A step of a loop that ends the job it holds.
LEMMA EndAskedStep ==
  ASSUME Inductive, NEW l \in Loop, StillMine(l), NEW status \in Over, NEW count \in Nat,
         EndAsked(l, status, count)
  PROVE  /\ RowsStep /\ LoopsTyped'
         /\ job'[loops[l].turn].status = status /\ job'[loops[l].turn].count = count
<1>1. RowsTyped /\ LoopsTyped /\ Calls /\ up /\ loops[l].turn \in Turn
        /\ job[loops[l].turn].status = "running"
  BY Parts
<1>2. RowsStep
  BY <1>1, EndRow DEF EndAsked
<1>3. LoopsTyped'
  BY <1>1, LoopProceeds DEF EndAsked
<1>4. job[loops[l].turn] \in Row
  BY <1>1 DEF RowsTyped
<1>5. job'[loops[l].turn] = Ended(job[loops[l].turn], status, count)
  BY <1>1 DEF EndAsked, RowsTyped
<1> QED
  BY <1>2, <1>3, <1>4, <1>5, EndOfRow

\* The steps of a loop that claim a job: first those that store nothing.
LEMMA StepClaimedInVain ==
  ASSUME Inductive, NEW l \in Loop, SkipClaimed(l) \/ FailClaimed(l)
  PROVE  Inductive'
<1>1. RowsStep /\ LoopsTyped'
  BY ClaimAndEndStep DEF SkipClaimed, FailClaimed, Over
<1>2. StoreTyped'
  BY Parts DEF SkipClaimed, FailClaimed, ClaimAndEnd, StoreTyped
<1>3. Stores'
  BY <1>1, Parts, StoresLeft DEF SkipClaimed, FailClaimed, ClaimAndEnd, RowsStep
<1> QED
  BY <1>1, <1>2, <1>3, Assembled

\* An order to remember.
LEMMA StepRemember ==
  ASSUME Inductive, NEW l \in Loop, Remember(l)
  PROVE  Inductive'
<1> DEFINE t == AtHead(l)
<1>1. /\ RowsStep /\ LoopsTyped' /\ t \in Turn /\ job[t].status \in Outstanding
      /\ job'[t].status = "completed" /\ job'[t].count > 0
  BY ClaimAndEndStep DEF Remember, Over
<1>2. job[t].attempts + 1 \in Nat
  BY <1>1, Parts DEF RowsTyped, Row
<1>3. PICK added \in SUBSET Memory : Added(added, t)
  BY <1>1, <1>2, Parts, OrderIsAdded DEF Remember
<1>4. StoreTyped'
  BY <1>3, Parts DEF Added, Remember, ClaimAndEnd, StoreTyped
<1>5. Stores'
  BY <1>1, <1>3, Parts, StoresAdded DEF Remember, ClaimAndEnd, RowsStep
<1> QED
  BY <1>1, <1>4, <1>5, Assembled

\* An order to forget.
LEMMA StepForget ==
  ASSUME Inductive, NEW l \in Loop, Forget(l)
  PROVE  Inductive'
<1>1. CASE UNCHANGED memories /\ \E status \in Over : ClaimAndEnd(l, status, 0)
  <2>1. RowsStep /\ LoopsTyped'
    BY <1>1, ClaimAndEndStep DEF Forget
  <2>2. StoreTyped'
    BY <1>1, Parts DEF ClaimAndEnd, StoreTyped
  <2>3. Stores'
    BY <1>1, <2>1, Parts, StoresLeft DEF ClaimAndEnd, RowsStep
  <2> QED
    BY <2>1, <2>2, <2>3, Assembled
<1>2. CASE \E m \in Active : memories' = Forgotten(m) /\ ClaimAndEnd(l, "completed", 1)
  <2>1. PICK m \in memories : memories' = Forgotten(m)
    BY <1>2 DEF Active
  <2>2. RowsStep /\ LoopsTyped'
    BY <1>2, ClaimAndEndStep DEF Forget, Over
  <2>3. StoreTyped'
    BY <1>2, <2>1, Parts, AlteredIsTyped DEF Forgotten, ClaimAndEnd
  <2>4. Stores'
    BY <1>2, <2>1, <2>2, Parts, StoresAltered DEF Forgotten, ClaimAndEnd, RowsStep
  <2> QED
    BY <2>2, <2>3, <2>4, Assembled
<1> QED
  BY <1>1, <1>2 DEF Forget, Over

\* A conversation is given to the model.
LEMMA StepAskModel ==
  ASSUME Inductive, NEW l \in Loop, AskModel(l)
  PROVE  Inductive'
<1>1. RowsTyped /\ LoopsTyped /\ Calls /\ up /\ AtHead(l) \in Turn
  BY Parts DEF AskModel, MayClaim, AtNext
<1>2. RowsStep
  BY <1>1, ClaimRow DEF AskModel, MayClaim
<1>3. LoopsTyped'
  BY <1>1, LoopAwaits DEF AskModel
<1>4. StoreTyped'
  BY Parts DEF AskModel, StoreTyped
<1>5. Stores'
  BY <1>2, Parts, StoresLeft DEF AskModel, RowsStep
<1> QED
  BY <1>2, <1>3, <1>4, <1>5, Assembled

\* The step that drops an answer.
LEMMA StepSkipAnswered ==
  ASSUME Inductive, NEW l \in Loop, SkipAnswered(l)
  PROVE  Inductive'
<1>1. RowsStep /\ LoopsTyped'
  BY EndAskedStep DEF SkipAnswered, Over
<1>2. StoreTyped'
  BY Parts DEF SkipAnswered, EndAsked, StoreTyped
<1>3. Stores'
  BY <1>1, Parts, StoresLeft DEF SkipAnswered, EndAsked, RowsStep
<1> QED
  BY <1>1, <1>2, <1>3, Assembled

\* The steps that store what the model has answered.
LEMMA StepApplyAnswer ==
  ASSUME Inductive, NEW l \in Loop, NEW answer \in Answer, ApplyAnswer(l, answer)
  PROVE  Inductive'
<1> DEFINE t == loops[l].turn
<1>1. Len(answer) \in Nat /\ Len(answer) \in 0..Len(answer)
  BY AnswerIsSequence, MemoryAssumption
<1>2. t \in Turn /\ loops[l].attempt \in Nat /\ job[t].status \in Outstanding
  BY Parts DEF ApplyAnswer, Outstanding
<1>3. /\ RowsStep /\ LoopsTyped'
      /\ job'[t].status = "completed" /\ job'[t].count = Len(answer)
  BY <1>1, EndAskedStep DEF ApplyAnswer, Over
<1>4. PICK added \in SUBSET Memory : Added(added, t) /\ (Len(answer) = 0 => added = {})
  BY <1>1, <1>2, Parts, AnswerIsAdded DEF ApplyAnswer
<1>5. StoreTyped'
  BY <1>4, Parts DEF Added, ApplyAnswer, EndAsked, StoreTyped
<1>6. Stores'
  BY <1>1, <1>2, <1>3, <1>4, Parts, StoresAdded DEF ApplyAnswer, EndAsked, RowsStep
<1> QED
  BY <1>3, <1>5, <1>6, Assembled

\* The storing throws.
LEMMA StepApplyInPart ==
  ASSUME Inductive, NEW l \in Loop, NEW answer \in Answer, NEW n \in 0..(MaxCandidates - 1),
         ApplyInPart(l, answer, n)
  PROVE  Inductive'
<1> DEFINE t == loops[l].turn
<1>1. n \in 0..Len(answer)
  BY AnswerIsSequence, MemoryAssumption DEF ApplyInPart
<1>2. t \in Turn /\ loops[l].attempt \in Nat /\ job[t].status \in Outstanding
  BY Parts DEF ApplyInPart, Outstanding
<1>3. RowsStep /\ LoopsTyped'
  BY EndAskedStep DEF ApplyInPart, Over
<1>4. PICK added \in SUBSET Memory : Added(added, t)
  BY <1>1, <1>2, Parts, AnswerIsAdded DEF ApplyInPart
<1>5. StoreTyped'
  BY <1>2, <1>4, Parts DEF Added, ApplyInPart, EndAsked, StoreTyped
<1>6. Stores'
  BY <1>2, <1>3, <1>4, Parts, StoresAdded DEF ApplyInPart, EndAsked, RowsStep
<1> QED
  BY <1>3, <1>5, <1>6, Assembled

\* The steps that leave the store alone, once what they do to the rows is known.
LEMMA StoreUntouched ==
  ASSUME Inductive, RowsStep, LoopsTyped', UNCHANGED <<order, memories, revised, cut>>
  PROVE  Inductive'
<1>1. StoreTyped'
  BY Parts DEF StoreTyped
<1>2. Stores'
  BY Parts, StoresLeft DEF RowsStep
<1> QED
  BY <1>1, <1>2, Assembled

\* The steps of a loop that store nothing.
LEMMA StepLoop ==
  ASSUME Inductive, NEW l \in Loop, LoopStep(l)
  PROVE  Inductive'
<1>1. RowsTyped /\ LoopsTyped /\ Calls
  BY Parts
<1>2. UNCHANGED <<order, memories, revised, cut>>
  BY DEF LoopStep
<1>3. CASE PassOver(l) \/ ClaimIsLost(l)
  <2>1. RowsStep
    BY <1>1, <1>3, NoRow DEF PassOver, ClaimIsLost, RowsTyped
  <2>2. LoopsTyped'
    BY <1>1, <1>3, LoopProceeds DEF PassOver, ClaimIsLost
  <2> QED
    BY <1>2, <2>1, <2>2, StoreUntouched
<1>4. CASE AnalysisFails(l)
  <2>1. loops[l].turn \in Turn /\ job[loops[l].turn].status = "running"
    BY <1>1, <1>4 DEF AnalysisFails, AtModel, Holds, LoopsTyped
  <2>2. RowsStep
    BY <1>1, <1>4, <2>1, EndRow DEF AnalysisFails, AtModel, Over
  <2>3. LoopsTyped'
    BY <1>1, <1>4, LoopProceeds DEF AnalysisFails
  <2> QED
    BY <1>2, <2>2, <2>3, StoreUntouched
<1>5. CASE EndLoop(l)
  <2>1. RowsStep
    BY <1>1, <1>5, NoRow DEF EndLoop, RowsTyped
  <2>2. LoopsTyped'
    BY <1>1, <1>5, LoopsEnd DEF EndLoop
  <2> QED
    BY <1>2, <2>1, <2>2, StoreUntouched
<1> QED
  BY <1>3, <1>4, <1>5 DEF LoopStep

\* Rows that lose nothing but a lease or their owner, when the process is gone or
\* comes up: attempts stay, and what is no longer allowed for is counted as a break.
LEMMA AllRows ==
  ASSUME RowsTyped, Calls, scheduled' \in BOOLEAN, up' \in BOOLEAN, UNCHANGED retries,
         breaks' \in 0..MaxBreaks, breaks <= breaks', job' \in [Turn -> Row],
         \A t \in Turn :
           /\ job'[t].attempts = job[t].attempts
           /\ Unaccounted(job[t]) <= Unaccounted(job'[t]) + (breaks' - breaks)
           /\ ~up' => ~(job'[t].status = "running" /\ job'[t].mine)
           /\ job[t].status \in Over => job'[t].status = job[t].status /\ job'[t].count = job[t].count
  PROVE  RowsStep
<1>1. RowsTyped'
  BY DEF RowsTyped
<1>2. CallsCounted'
  <2> SUFFICES ASSUME NEW t \in Turn
               PROVE  job'[t].attempts <= retries'[t] + breaks' + Unaccounted(job'[t])
    BY DEF CallsCounted, Unaccounted
  <2>1. job[t].attempts <= retries[t] + breaks + Unaccounted(job[t])
    BY DEF Calls, CallsCounted
  <2>2. job[t].attempts \in Nat /\ retries[t] \in Nat /\ breaks \in Nat /\ breaks' \in Nat
    BY JobsAssumption DEF RowsTyped, Row
  <2>3. Unaccounted(job[t]) \in 0..1 /\ Unaccounted(job'[t]) \in 0..1
    BY DEF Unaccounted
  <2> QED
    BY <2>1, <2>2, <2>3
<1>3. NothingHeldWhenDown'
  BY DEF NothingHeldWhenDown
<1>4. RowsKept
  BY DEF RowsKept, Over
<1> QED
  BY <1>1, <1>2, <1>3, <1>4 DEF RowsStep, Calls

\* A row without its owner, and one that was given back.
LEMMA Disowned ==
  ASSUME NEW row \in Row
  PROVE  /\ [row EXCEPT !.mine = FALSE] \in Row
         /\ [row EXCEPT !.mine = FALSE].attempts = row.attempts
         /\ [row EXCEPT !.mine = FALSE].status = row.status
         /\ [row EXCEPT !.mine = FALSE].count = row.count
         /\ [row EXCEPT !.mine = FALSE].mine = FALSE
         /\ Unaccounted([row EXCEPT !.mine = FALSE]) \in 0..1
         /\ Unaccounted(row) \in 0..1
<1> DEFINE new == [row EXCEPT !.mine = FALSE]
<1>1. new \in Row
  BY DEF Row
<1>2. new.attempts = row.attempts /\ new.status = row.status /\ new.count = row.count /\ new.mine = FALSE
  BY DEF Row
<1> HIDE DEF new
<1>3. Unaccounted(new) \in 0..1 /\ Unaccounted(row) \in 0..1
  BY DEF Unaccounted
<1> QED
  BY <1>1, <1>2, <1>3 DEF new

\* The ends of the process, and its start.
LEMMA StepCrash ==
  ASSUME Inductive, Crash
  PROVE  RowsStep /\ LoopsTyped'
<1>1. RowsTyped /\ LoopsTyped /\ Calls
  BY Parts
<1>2. breaks' = breaks + 1 /\ breaks' \in 0..MaxBreaks /\ breaks \in Nat
  BY <1>1, JobsAssumption DEF Crash, Gone, RowsTyped
<1>3. \A t \in Turn : job[t] \in Row /\ job'[t] = [job[t] EXCEPT !.mine = FALSE]
  BY <1>1 DEF Crash, RowsTyped
<1>4. ASSUME NEW t \in Turn
      PROVE  /\ job'[t] \in Row /\ job'[t].attempts = job[t].attempts
             /\ Unaccounted(job[t]) <= Unaccounted(job'[t]) + 1
             /\ ~(job'[t].status = "running" /\ job'[t].mine)
             /\ job[t].status \in Over => job'[t].status = job[t].status /\ job'[t].count = job[t].count
  <2>1. /\ job'[t] \in Row /\ job'[t].attempts = job[t].attempts /\ job'[t].mine = FALSE
        /\ job'[t].status = job[t].status /\ job'[t].count = job[t].count
    <3>1. job[t] \in Row /\ job'[t] = [job[t] EXCEPT !.mine = FALSE]
      BY <1>3
    <3> QED
      BY <3>1, Disowned
  <2>2. Unaccounted(job[t]) \in 0..1 /\ Unaccounted(job'[t]) \in 0..1
    BY DEF Unaccounted
  <2> QED
    BY <2>1, <2>2
<1>5. job' \in [Turn -> Row]
  BY <1>4 DEF Crash
<1>6. RowsStep
  <2>1. breaks' - breaks = 1 /\ breaks <= breaks'
    BY <1>2
  <2>2. ~up' /\ up' \in BOOLEAN /\ scheduled' \in BOOLEAN /\ UNCHANGED retries
    BY DEF Crash, Gone
  <2> QED
    BY <1>1, <1>2, <1>4, <1>5, <2>1, <2>2, AllRows
<1>7. LoopsTyped'
  <2>1. Loops \in Nat /\ 1 \in Loop
    BY JobsAssumption DEF Loop
  <2> QED
    BY <1>1, <2>1, LoopsEnd DEF Crash, Gone
<1> QED
  BY <1>6, <1>7

\* A graceful end.
LEMMA StepDispose ==
  ASSUME Inductive, Dispose
  PROVE  RowsStep /\ LoopsTyped'
<1>1. RowsTyped /\ LoopsTyped /\ Calls
  BY Parts
<1>2. breaks' = breaks + 1 /\ breaks' \in 0..MaxBreaks /\ breaks \in Nat
  BY <1>1, JobsAssumption DEF Dispose, Gone, RowsTyped
<1>3. \A t \in Turn : job[t] \in Row
  BY <1>1 DEF RowsTyped
<1>4. ASSUME NEW t \in Turn
      PROVE  /\ job'[t] \in Row /\ job'[t].attempts = job[t].attempts
             /\ Unaccounted(job[t]) <= Unaccounted(job'[t]) + 1
             /\ ~(job'[t].status = "running" /\ job'[t].mine)
             /\ job[t].status \in Over => job'[t].status = job[t].status /\ job'[t].count = job[t].count
  <2>1. Unaccounted(job[t]) \in 0..1 /\ Unaccounted(job'[t]) \in 0..1
    BY DEF Unaccounted
  <2>2. CASE job[t].status = "running" /\ job[t].mine
    <3>1. job'[t] = Returned(job[t])
      BY <2>2 DEF Dispose
    <3> QED
      BY <1>3, <2>1, <2>2, <3>1, ReturnOfRow DEF Over
  <2>3. CASE ~(job[t].status = "running" /\ job[t].mine)
    <3>1. job'[t] = job[t]
      BY <2>3 DEF Dispose
    <3> QED
      BY <1>3, <2>1, <2>3, <3>1
  <2> QED
    BY <2>2, <2>3
<1>5. job' \in [Turn -> Row]
  BY <1>4 DEF Dispose
<1>6. RowsStep
  <2>1. breaks' - breaks = 1 /\ breaks <= breaks'
    BY <1>2
  <2>2. ~up' /\ up' \in BOOLEAN /\ scheduled' \in BOOLEAN /\ UNCHANGED retries
    BY DEF Dispose, Gone
  <2> QED
    BY <1>1, <1>2, <1>4, <1>5, <2>1, <2>2, AllRows
<1>7. LoopsTyped'
  <2>1. Loops \in Nat /\ 1 \in Loop
    BY JobsAssumption DEF Loop
  <2> QED
    BY <1>1, <2>1, LoopsEnd DEF Dispose, Gone
<1> QED
  BY <1>6, <1>7

\* The coordinator is constructed.
LEMMA StepStart ==
  ASSUME Inductive, Start
  PROVE  RowsStep /\ LoopsTyped'
<1>1. RowsTyped /\ LoopsTyped /\ Calls
  BY Parts
<1>2. breaks' = breaks /\ breaks' \in 0..MaxBreaks /\ breaks \in Nat
  BY <1>1, JobsAssumption DEF Start, RowsTyped
<1>3. \A t \in Turn : job[t] \in Row
  BY <1>1 DEF RowsTyped
<1>4. ASSUME NEW t \in Turn
      PROVE  /\ job'[t] \in Row /\ job'[t].attempts = job[t].attempts
             /\ Unaccounted(job[t]) <= Unaccounted(job'[t])
             /\ job[t].status \in Over => job'[t].status = job[t].status /\ job'[t].count = job[t].count
  <2>1. Unaccounted(job[t]) \in 0..1 /\ Unaccounted(job'[t]) \in 0..1
    BY DEF Unaccounted
  <2>2. CASE job[t].status = "running" /\ job[t].lapsed
    <3>1. job'[t] = Returned(job[t])
      BY <2>2 DEF Start
    <3>2. Unaccounted(job[t]) = 0
      BY <2>2 DEF Unaccounted
    <3> QED
      BY <1>3, <2>1, <2>2, <3>1, <3>2, ReturnOfRow DEF Over
  <2>3. CASE ~(job[t].status = "running" /\ job[t].lapsed)
    <3>1. job'[t] = job[t]
      BY <2>3 DEF Start
    <3> QED
      BY <1>3, <2>1, <2>3, <3>1
  <2> QED
    BY <2>2, <2>3
<1>5. job' \in [Turn -> Row]
  BY <1>4 DEF Start
<1>6. \A t \in Turn : Unaccounted(job[t]) <= Unaccounted(job'[t]) + (breaks' - breaks)
  <2> SUFFICES ASSUME NEW t \in Turn
               PROVE  Unaccounted(job[t]) <= Unaccounted(job'[t]) + (breaks' - breaks)
    OBVIOUS
  <2>1. Unaccounted(job'[t]) \in 0..1
    BY DEF Unaccounted
  <2> QED
    BY <1>2, <1>4, <2>1
<1>7. RowsStep
  BY <1>1, <1>2, <1>4, <1>5, <1>6, AllRows DEF Start
<1>8. LoopsTyped'
  BY <1>1 DEF Start, LoopsTyped
<1> QED
  BY <1>7, <1>8

\* The process ends while a job's effects are being stored.
LEMMA StepCrashInApply ==
  ASSUME Inductive, NEW l \in Loop, CrashInApply(l)
  PROVE  Inductive'
<1> DEFINE t == loops[l].turn
<1>1. RowsStep /\ LoopsTyped'
  BY StepCrash DEF CrashInApply
<1>2. PICK answer \in Answer : \E n \in 1..Len(answer) :
        /\ StillMine(l)
        /\ memories' = Proposed(t, answer, n, loops[l].attempt)
        /\ cut' = cut \cup {t}
  BY DEF CrashInApply
<1>3. PICK n \in 1..Len(answer) :
        /\ StillMine(l)
        /\ memories' = Proposed(t, answer, n, loops[l].attempt)
        /\ cut' = cut \cup {t}
  BY <1>2
<1>4. t \in Turn /\ loops[l].attempt \in Nat /\ job[t].status \in Outstanding
  BY <1>3, Parts DEF Outstanding
<1>5. n \in 0..Len(answer)
  BY <1>3, AnswerIsSequence, MemoryAssumption
<1>6. PICK added \in SUBSET Memory : Added(added, t)
  BY <1>3, <1>4, <1>5, Parts, AnswerIsAdded
<1>7. UNCHANGED <<order, revised, retries>>
  BY DEF CrashInApply, Crash, Gone
<1>8. StoreTyped'
  BY <1>3, <1>4, <1>6, <1>7, Parts DEF Added, StoreTyped
<1>9. Stores'
  BY <1>1, <1>3, <1>4, <1>6, <1>7, Parts, StoresAdded DEF RowsStep
<1> QED
  BY <1>1, <1>8, <1>9, Assembled

\* The process ends between an order and the end of its job.
LEMMA StepCrashInOrder ==
  ASSUME Inductive, NEW l \in Loop, CrashInOrder(l)
  PROVE  Inductive'
<1> DEFINE t == AtHead(l)
<1>1. RowsTyped /\ LoopsTyped /\ Calls /\ StoreTyped /\ t \in Turn
  BY Parts DEF CrashInOrder, MayClaim, AtNext
<1>2. breaks' = breaks + 1 /\ breaks' \in 0..MaxBreaks /\ breaks \in Nat
  BY <1>1, JobsAssumption DEF CrashInOrder, Gone, RowsTyped
<1>3. \A u \in Turn : job[u] \in Row
  BY <1>1 DEF RowsTyped
<1>4. job[t].status \in Outstanding
  BY <1>1, <1>3, ClaimOfRow DEF CrashInOrder, MayClaim
<1>5. job' = [u \in Turn |-> [IF u = t THEN Claimed(job[u]) ELSE job[u] EXCEPT !.mine = FALSE]]
  BY DEF CrashInOrder
<1>6. ASSUME NEW u \in Turn
      PROVE  /\ job'[u] \in Row
             /\ job'[u].attempts <= retries[u] + breaks' + Unaccounted(job'[u])
             /\ ~(job'[u].status = "running" /\ job'[u].mine)
             /\ job[u].status \in Over => job'[u].status = job[u].status /\ job'[u].count = job[u].count
  <2>1. Unaccounted(job[u]) \in 0..1 /\ Unaccounted(job'[u]) \in 0..1
    BY DEF Unaccounted
  <2>2. retries[u] \in Nat /\ job[u].attempts \in Nat
    BY <1>1, <1>3 DEF RowsTyped, Row
  <2>3. job[u].attempts <= retries[u] + breaks + Unaccounted(job[u])
    BY <1>1 DEF Calls, CallsCounted
  <2>4. CASE u = t
    <3>1. job'[u] = [Claimed(job[u]) EXCEPT !.mine = FALSE]
      BY <1>5, <2>4
    <3>2. Claimed(job[u]) \in Row /\ Claimed(job[u]).attempts = job[u].attempts + 1
            /\ Unaccounted(job[u]) = 0
      BY <1>3, <2>4, ClaimOfRow DEF CrashInOrder, MayClaim
    <3>3. job'[u] \in Row /\ job'[u].attempts = job[u].attempts + 1 /\ job'[u].mine = FALSE
      BY <3>1, <3>2, Disowned
    <3> QED
      BY <1>2, <1>4, <2>1, <2>2, <2>3, <2>4, <3>2, <3>3 DEF Outstanding, Over
  <2>5. CASE u # t
    <3>1. job'[u] = [job[u] EXCEPT !.mine = FALSE]
      BY <1>5, <2>5
    <3>2. /\ job'[u] \in Row /\ job'[u].attempts = job[u].attempts /\ job'[u].mine = FALSE
          /\ job'[u].status = job[u].status /\ job'[u].count = job[u].count
      BY <1>3, <3>1, Disowned
    <3> QED
      BY <1>2, <2>1, <2>2, <2>3, <3>2
  <2> QED
    BY <2>4, <2>5
<1>7. RowsStep
  <2>1. up' = FALSE /\ scheduled' = FALSE /\ UNCHANGED retries
    BY DEF CrashInOrder, Gone
  <2>2. job' \in [Turn -> Row]
    BY <1>5, <1>6
  <2>3. RowsTyped'
    BY <1>1, <1>2, <2>1, <2>2 DEF RowsTyped
  <2>4. CallsCounted'
    BY <1>6, <2>1 DEF CallsCounted, Unaccounted
  <2>5. NothingHeldWhenDown'
    BY <1>6 DEF NothingHeldWhenDown
  <2>6. RowsKept
    BY <1>6, <2>1 DEF RowsKept, Over
  <2> QED
    BY <2>3, <2>4, <2>5, <2>6 DEF RowsStep, Calls
<1>8. LoopsTyped'
  BY <1>1, LoopsEnd DEF CrashInOrder, Gone
<1>9. UNCHANGED <<order, revised, retries>> /\ cut' = cut \cup {t}
  BY DEF CrashInOrder, Gone
<1>10. CASE memories' = Remembered(t, job[t].attempts + 1)
  <2>1. job[t].attempts + 1 \in Nat
    BY <1>1, <1>3 DEF Row
  <2>2. PICK added \in SUBSET Memory : Added(added, t)
    BY <1>1, <1>10, <2>1, Parts, OrderIsAdded
  <2>3. StoreTyped'
    BY <1>1, <1>9, <2>2 DEF Added, StoreTyped
  <2>4. Stores'
    BY <1>1, <1>4, <1>7, <1>9, <2>2, Parts, StoresAdded DEF RowsStep
  <2> QED
    BY <1>7, <1>8, <2>3, <2>4, Assembled
<1>11. CASE \E m \in Active : memories' = Forgotten(m)
  <2>1. PICK m \in memories : memories' = Forgotten(m)
    BY <1>11 DEF Active
  <2>2. StoreTyped'
    BY <1>1, <1>9, <2>1, AlteredIsTyped DEF Forgotten
  <2>3. Stores'
    BY <1>7, <1>9, <2>1, Parts, StoresAltered DEF Forgotten, RowsStep
  <2> QED
    BY <1>7, <1>8, <2>2, <2>3, Assembled
<1> QED
  BY <1>10, <1>11 DEF CrashInOrder

\* What comes from the user, the timer, time and the process.
LEMMA StepOutside ==
  ASSUME Inductive, Outside
  PROVE  Inductive'
<1>1. RowsTyped /\ LoopsTyped /\ Calls
  BY Parts
<1>2. UNCHANGED <<order, memories, revised, cut>>
  BY DEF Outside
<1>3. ASSUME NEW t \in Turn PROVE job[t] \in Row /\ retries[t] \in Nat /\ breaks \in Nat
                                   /\ job[t].attempts \in Nat
                                   /\ job[t].attempts <= retries[t] + breaks + Unaccounted(job[t])
  BY <1>1, JobsAssumption DEF RowsTyped, Row, Calls, CallsCounted
<1>4. ASSUME NEW t \in Turn, EnqueueTurn(t) PROVE Inductive'
  <2> DEFINE row == [job[t] EXCEPT !.status = "pending"]
  <2>1. row \in Row /\ row.attempts = job[t].attempts /\ row.status = "pending"
    BY <1>3 DEF Row
  <2>2. Unaccounted(job[t]) = 0 /\ job[t].status \notin Over
    BY <1>4 DEF EnqueueTurn, Unaccounted, Over
  <2>3. Unaccounted(row) = 0
    BY <2>1 DEF Unaccounted
  <2>4. row.attempts <= retries[t] + breaks + Unaccounted(row)
    BY <1>3, <2>1, <2>2, <2>3
  <2>5. job' = [job EXCEPT ![t] = row] /\ up /\ scheduled' \in BOOLEAN
          /\ UNCHANGED <<up, retries, breaks>> /\ UNCHANGED loops
    BY <1>1, <1>4 DEF EnqueueTurn, RowsTyped
  <2> HIDE DEF row
  <2>6. RowsStep
    BY <1>1, <2>1, <2>2, <2>4, <2>5, OneRow
  <2>7. LoopsTyped'
    BY <1>1, <2>5 DEF LoopsTyped
  <2> QED
    BY <1>2, <2>6, <2>7, StoreUntouched
<1>5. ASSUME NEW t \in Turn, Retry(t) PROVE Inductive'
  <2>1. job'[t] = [job[t] EXCEPT !.status = "pending"] /\ retries'[t] = retries[t] + 1
          /\ \A u \in Turn : u # t => job'[u] = job[u] /\ retries'[u] = retries[u]
    BY <1>1, <1>5 DEF Retry, RowsTyped
  <2>2. job'[t] \in Row /\ job'[t].attempts = job[t].attempts /\ job'[t].status = "pending"
    BY <1>3, <2>1 DEF Row
  <2>3. job[t].status = "failed" /\ up /\ up' /\ scheduled' = TRUE /\ breaks' = breaks
          /\ UNCHANGED loops
    BY <1>5 DEF Retry
  <2>4. Unaccounted(job[t]) = 1 /\ Unaccounted(job'[t]) = 0
    BY <2>2, <2>3 DEF Unaccounted
  <2>5. RowsTyped'
    BY <1>1, <1>3, <1>5, <2>2, <2>3 DEF Retry, RowsTyped
  <2>6. CallsCounted'
    <3> SUFFICES ASSUME NEW u \in Turn
                 PROVE  job'[u].attempts <= retries'[u] + breaks' + Unaccounted(job'[u])
      BY DEF CallsCounted, Unaccounted
    <3>1. CASE u = t
      <4>1. job'[t].attempts <= retries'[t] + breaks' + Unaccounted(job'[t])
        BY <1>3, <2>1, <2>2, <2>3, <2>4
      <4> QED
        BY <3>1, <4>1
    <3>2. CASE u # t
      BY <1>3, <2>1, <2>3, <3>2
    <3> QED
      BY <3>1, <3>2
  <2>7. NothingHeldWhenDown'
    BY <2>3 DEF NothingHeldWhenDown
  <2>8. RowsKept
    BY <1>3, <2>1, <2>3 DEF RowsKept, Over
  <2>9. LoopsTyped'
    BY <1>1, <2>3 DEF LoopsTyped
  <2>10. RowsStep
    BY <2>5, <2>6, <2>7, <2>8 DEF RowsStep, Calls
  <2> QED
    BY <1>2, <2>9, <2>10, StoreUntouched
<1>6. ASSUME NEW t \in Turn, LeaseRunsOut(t) PROVE Inductive'
  <2>1. job'[t] = [job[t] EXCEPT !.lapsed = TRUE] /\ \A u \in Turn : u # t => job'[u] = job[u]
    BY <1>1, <1>6 DEF LeaseRunsOut, RowsTyped
  <2>2. job'[t] \in Row /\ job'[t].attempts = job[t].attempts /\ job'[t].status = "running"
          /\ job'[t].lapsed = TRUE /\ job'[t].mine = job[t].mine /\ job[t].status = "running"
    <3>1. job[t].status = "running" /\ job[t] \in Row
      BY <1>3, <1>6 DEF LeaseRunsOut
    <3> QED
      BY <2>1, <3>1 DEF Row
  <2>3. Unaccounted(job'[t]) = 0
    BY <2>2 DEF Unaccounted
  <2>4. breaks \in Nat /\ breaks' \in Nat /\ breaks' \in 0..MaxBreaks /\ breaks <= breaks'
          /\ UNCHANGED <<up, scheduled, loops, retries>>
    BY <1>1, <1>6, JobsAssumption DEF LeaseRunsOut, RowsTyped
  <2>5. Unaccounted(job[t]) <= breaks' - breaks
    <3>1. CASE up /\ job[t].mine
      BY <1>6, <2>4, <3>1 DEF LeaseRunsOut, Unaccounted
    <3>2. CASE ~(up /\ job[t].mine)
      <4>1. ~job[t].mine
        BY <1>1, <2>2, <3>2 DEF Calls, NothingHeldWhenDown
      <4>2. Unaccounted(job[t]) = 0
        BY <2>2, <4>1 DEF Unaccounted
      <4>3. breaks \in Nat /\ breaks' \in Nat /\ breaks <= breaks'
        BY <2>4
      <4>4. \A a, b \in Nat : a <= b => 0 <= b - a
        OBVIOUS
      <4> QED
        BY <4>2, <4>3, <4>4
    <3> QED
      BY <3>1, <3>2
  <2>6. job' \in [Turn -> Row]
    BY <1>1, <1>6, <2>1, <2>2 DEF LeaseRunsOut, RowsTyped
  <2>7. ASSUME NEW u \in Turn
        PROVE  /\ job'[u].attempts = job[u].attempts
               /\ Unaccounted(job[u]) <= Unaccounted(job'[u]) + (breaks' - breaks)
               /\ ~up' => ~(job'[u].status = "running" /\ job'[u].mine)
               /\ job[u].status \in Over => job'[u].status = job[u].status /\ job'[u].count = job[u].count
    <3>1. ~up => ~(job[u].status = "running" /\ job[u].mine)
      BY <1>1 DEF Calls, NothingHeldWhenDown
    <3>2. CASE u = t
      BY <2>2, <2>3, <2>4, <2>5, <3>1, <3>2 DEF Over
    <3>3. CASE u # t
      <4>1. Unaccounted(job[u]) \in 0..1 /\ job'[u] = job[u]
        BY <2>1, <3>3 DEF Unaccounted
      <4> QED
        BY <2>4, <3>1, <4>1
    <3> QED
      BY <3>2, <3>3
  <2>8. up' \in BOOLEAN /\ scheduled' \in BOOLEAN
    BY <1>1, <2>4 DEF RowsTyped
  <2>9. RowsStep
    BY <1>1, <2>4, <2>6, <2>7, <2>8, AllRows
  <2>10. LoopsTyped'
    BY <1>1, <2>4 DEF LoopsTyped
  <2> QED
    BY <1>2, <2>9, <2>10, StoreUntouched
<1>7. ASSUME NEW l \in Loop, StartLoop(l) PROVE Inductive'
  <2>1. RowsStep
    BY <1>1, <1>7, NoRow DEF StartLoop
  <2>2. Runnable(job) \in SUBSET Turn
    BY DEF Runnable
  <2>3. LoopsTyped'
    BY <1>1, <1>7, <2>2, LoopWithList DEF StartLoop
  <2> QED
    BY <1>2, <2>1, <2>3, StoreUntouched
<1>8. ASSUME NEW l \in Loop, Heartbeat(l) PROVE Inductive'
  <2> DEFINE t == loops[l].turn
             row == [job[t] EXCEPT !.lapsed = FALSE]
  <2>1. t \in Turn /\ job[t].status = "running" /\ up
    BY <1>1, <1>8 DEF Heartbeat, AtModel, Holds, LoopsTyped
  <2>2. row \in Row /\ row.attempts = job[t].attempts /\ row.status = "running"
    BY <1>3, <2>1 DEF Row
  <2>3. Unaccounted(job[t]) = 0
    BY <1>8, <2>1 DEF Heartbeat, Unaccounted
  <2>4. Unaccounted(row) \in 0..1
    BY DEF Unaccounted
  <2>5. row.attempts <= retries[t] + breaks + Unaccounted(row)
    BY <1>3, <2>1, <2>2, <2>3, <2>4
  <2>6. job' = [job EXCEPT ![t] = row] /\ scheduled' \in BOOLEAN
          /\ UNCHANGED <<up, retries, breaks>> /\ UNCHANGED loops
    BY <1>1, <1>8 DEF Heartbeat, RowsTyped
  <2> HIDE DEF row, t
  <2>7. RowsStep
    BY <1>1, <2>1, <2>2, <2>5, <2>6, OneRow DEF Over
  <2>8. LoopsTyped'
    BY <1>1, <2>6 DEF LoopsTyped
  <2> QED
    BY <1>2, <2>7, <2>8, StoreUntouched
<1>9. CASE Dispose \/ Crash \/ Start
  BY <1>2, <1>9, StepDispose, StepCrash, StepStart, StoreUntouched
<1> QED
  BY <1>4, <1>5, <1>6, <1>7, <1>8, <1>9 DEF Outside

\* What the user does to turns and memories.
LEMMA StepUser ==
  ASSUME Inductive, (\E t \in Turn : Revise(t)) \/ (\E m \in memories : Confirm(m) \/ Reject(m))
  PROVE  Inductive'
<1>1. RowsTyped /\ LoopsTyped /\ Calls /\ StoreTyped /\ Stores /\ memories \subseteq Memory
  BY Parts
<1>2. UNCHANGED jobsVars /\ UNCHANGED <<order, cut>>
  BY DEF Revise, Confirm, Reject
<1>3. RowsStep
  BY <1>1, <1>2, NoRow DEF jobsVars, RowsTyped
<1>4. LoopsTyped'
  BY <1>1, <1>2 DEF jobsVars, LoopsTyped
<1>5. ASSUME NEW t \in Turn, Revise(t) PROVE Inductive'
  <2>1. /\ revised' = revised \cup {t} /\ memories' = memories
        /\ job[t].status \in Over /\ job[t].count = 0
    BY <1>1, <1>5 DEF Revise, MayRevise, Outstanding, Over, RowsTyped, Row
  <2>2. StoreTyped'
    BY <1>1, <1>2, <2>1 DEF StoreTyped
  <2>3. \A m \in memories : m.turn = t => t \in cut
    BY <1>1, <2>1 DEF Stores, StoredIsResult
  <2>4. NoKeyTwice' /\ OneAnswerPerTurn' /\ StoredIsResult'
    BY <1>1, <1>2, <2>1 DEF Stores, NoKeyTwice, OneAnswerPerTurn, StoredIsResult, jobsVars
  <2>5. RevisedIsOver'
    BY <1>1, <1>2, <2>1 DEF Stores, RevisedIsOver, Over, jobsVars
  <2>6. RevisedLeavesNothing'
    BY <1>1, <1>2, <2>1, <2>3 DEF Stores, RevisedLeavesNothing, jobsVars
  <2>7. Stores'
    BY <2>4, <2>5, <2>6 DEF Stores
  <2> QED
    BY <1>3, <1>4, <2>2, <2>7, Assembled
<1>6. ASSUME NEW m \in memories, Confirm(m) \/ Reject(m) PROVE Inductive'
  <2>1. PICK validity \in {"active", "deleted"} :
          memories' = (memories \ {m}) \cup {[m EXCEPT !.validity = validity]}
    BY <1>6 DEF Confirm, Reject, Forgotten
  <2>2. UNCHANGED revised
    BY <1>6 DEF Confirm, Reject
  <2>3. StoreTyped'
    BY <1>1, <1>2, <2>1, <2>2, AlteredIsTyped
  <2>4. Stores'
    BY <1>2, <1>3, <2>1, <2>2, Parts, StoresAltered DEF RowsStep
  <2> QED
    BY <1>3, <1>4, <2>3, <2>4, Assembled
<1> QED
  BY <1>5, <1>6

-----------------------------------------------------------------------------
(* The theorems.                                                           *)

\* The invariant holds at first.
LEMMA InductiveInit == Init => Inductive
<1> SUFFICES ASSUME Init PROVE Inductive
  OBVIOUS
<1>1. Typed
  BY TypedInit
<1>2. Calls
  <2>1. \A t \in Turn : job[t].attempts = 0 /\ retries[t] = 0 /\ breaks = 0 /\ Unaccounted(job[t]) = 0
    BY DEF Init, JobsInit, NoJob, Unaccounted
  <2> QED
    BY <2>1 DEF Calls, CallsCounted, NothingHeldWhenDown, Init, JobsInit
<1>3. Stores
  BY DEF Init, Stores, NoKeyTwice, OneAnswerPerTurn, StoredIsResult, RevisedIsOver,
     RevisedLeavesNothing
<1> QED
  BY <1>1, <1>2, <1>3 DEF Inductive

\* Every step keeps it.
LEMMA InductiveStep == Inductive /\ [Next]_vars => Inductive'
<1> SUFFICES ASSUME Inductive, [Next]_vars PROVE Inductive'
  OBVIOUS
<1>1. ASSUME NEW l \in Loop, Work(l) PROVE Inductive'
  BY <1>1, StepClaimedInVain, StepRemember, StepForget, StepAskModel, StepSkipAnswered,
     StepApplyAnswer, StepApplyInPart DEF Work
<1>2. ASSUME NEW l \in Loop, LoopStep(l) \/ CrashInApply(l) \/ CrashInOrder(l) PROVE Inductive'
  BY <1>2, StepLoop, StepCrashInApply, StepCrashInOrder
<1>3. CASE Outside
  BY <1>3, StepOutside
<1>4. CASE (\E t \in Turn : Revise(t)) \/ (\E m \in memories : Confirm(m) \/ Reject(m))
  BY <1>4, StepUser
<1>5. CASE UNCHANGED vars
  <2>1. RowsStep
    BY <1>5, Parts, NoRow DEF vars, jobsVars, RowsTyped
  <2>2. LoopsTyped'
    BY <1>5, Parts DEF vars, jobsVars, LoopsTyped
  <2> QED
    BY <1>5, <2>1, <2>2, StoreUntouched DEF vars
<1> QED
  BY <1>1, <1>2, <1>3, <1>4, <1>5 DEF Next

\* The invariant holds in every behaviour.
THEOREM InductiveHolds == Spec => []Inductive
<1> QED
  BY InductiveInit, InductiveStep, PTL DEF Spec

\* The rows, the loops and the store keep their types.
THEOREM JobsAreTyped == Spec => []TypeOK
<1>1. Inductive => TypeOK
  BY DEF Inductive, Typed
<1> QED
  BY <1>1, InductiveHolds, PTL

\* However many loops list a job at the same time and however the process ends, the
\* model is asked about a turn once, and once more for each retry and each break
\* (claim and complete of memory-coordinator/repository.ts).
THEOREM CallsAreAsked == Spec => []NoHiddenCalls
<1>1. Inductive => NoHiddenCalls
  <2> SUFFICES ASSUME Inductive, NEW t \in Turn
               PROVE  job[t].attempts <= 1 + retries[t] + breaks
    BY DEF NoHiddenCalls
  <2>1. job[t].attempts <= retries[t] + breaks + Unaccounted(job[t]) /\ Unaccounted(job[t]) \in 0..1
    BY DEF Inductive, Calls, CallsCounted, Unaccounted
  <2>2. job[t].attempts \in Nat /\ retries[t] \in Nat /\ breaks \in Nat
    BY Parts, JobsAssumption DEF RowsTyped, Row
  <2> QED
    BY <2>1, <2>2
<1> QED
  BY <1>1, InductiveHolds, PTL

\* A key is stored once, whatever interrupts the job and whatever becomes of the
\* memory (findMemoryByIdempotencyKey).
THEOREM KeysAreUnique == Spec => []NoKeyTwice
<1>1. Inductive => NoKeyTwice
  BY DEF Inductive, Stores
<1> QED
  BY <1>1, InductiveHolds, PTL

\* What is stored of a turn comes from one answer, unless the storing was cut short:
\* a loop whose claim was taken over stores nothing (renew before applying).
THEOREM AnswersDoNotMix == Spec => []OneAnswerPerTurn
<1>1. Inductive => OneAnswerPerTurn
  BY DEF Inductive, Stores
<1> QED
  BY <1>1, InductiveHolds, PTL

\* A turn that was edited or retracted leaves no memory, unless its job was cut short
\* or tried again (assertLatestTurnRevisionSafe).
THEOREM RevisionLeavesNothing == Spec => []RevisedLeavesNothing
<1>1. Inductive => RevisedLeavesNothing
  BY DEF Inductive, Stores
<1> QED
  BY <1>1, InductiveHolds, PTL

-----------------------------------------------------------------------------
(* MemoryJobs: no job that waits is forgotten.                             *)

\* A step that disarms no timer, ends no loop and makes no job wait.
LEMMA WaitKept ==
  ASSUME WaitingIsScheduled, up' => up, scheduled => scheduled',
         \A l \in Loop : loops[l].phase # "none" => loops'[l].phase # "none",
         \A t \in Turn : job'[t].status = "pending" => job[t].status = "pending"
  PROVE  WaitingIsScheduled'
BY DEF WaitingIsScheduled

\* A step of a loop, but for its end, leaves it under way.
LEMMA LoopStays ==
  ASSUME LoopsTyped, NEW l \in Loop, loops' = Proceed(l) \/ (loops' = Await(l) /\ AtNext(l))
  PROVE  \A k \in Loop : loops[k].phase # "none" => loops'[k].phase # "none"
<1>1. \A k \in Loop : k # l => loops'[k] = loops[k]
  BY DEF Proceed, Await, LoopsTyped
<1>2. CASE loops' = Proceed(l)
  BY <1>1, <1>2 DEF Proceed, LoopsTyped, NoLoop
<1>3. CASE loops' = Await(l) /\ AtNext(l)
  BY <1>1, <1>3 DEF Await, LoopsTyped, LoopState
<1> QED
  BY <1>2, <1>3

\* What a loop does with a job: it claims, ends or passes over it.
LEMMA WorkKeepsWaits ==
  ASSUME Inductive, WaitingIsScheduled, NEW l \in Loop, Work(l) \/ LoopStep(l)
  PROVE  WaitingIsScheduled'
<1>1. job \in [Turn -> Row] /\ LoopsTyped /\ scheduled \in BOOLEAN
  BY Parts DEF RowsTyped
<1>2. ASSUME NEW t \in Turn, NEW row, row.status # "pending", job' = [job EXCEPT ![t] = row]
      PROVE  \A u \in Turn : job'[u].status = "pending" => job[u].status = "pending"
  BY <1>1, <1>2
<1>3. ASSUME NEW t \in Turn, NEW status \in Over, NEW count \in Nat,
             \/ job' = [job EXCEPT ![t] = Ended(@, status, count)]
             \/ job' = [job EXCEPT ![t] = Ended(Claimed(@), status, count)]
             \/ job' = [job EXCEPT ![t] = Claimed(@)]
      PROVE  \A u \in Turn : job'[u].status = "pending" => job[u].status = "pending"
  <2>1. job[t] \in Row
    BY <1>1
  <2>2. /\ Claimed(job[t]).status = "running" /\ Ended(job[t], status, count).status = status
        /\ Ended(Claimed(job[t]), status, count).status = status
    BY <2>1 DEF Claimed, Ended, Row
  <2>3. PICK row \in {Ended(job[t], status, count), Ended(Claimed(job[t]), status, count),
                      Claimed(job[t])} : job' = [job EXCEPT ![t] = row]
    BY <1>3
  <2>4. row.status # "pending"
    BY <2>2, <2>3 DEF Over
  <2> QED
    BY <1>2, <2>3, <2>4
<1>4. \A k \in Loop : loops[k].list \subseteq Turn /\ (loops[k].phase = "model" => loops[k].turn \in Turn)
  BY <1>1 DEF LoopsTyped, LoopState
<1>5. ASSUME NEW status \in Over, NEW count \in Nat, MayClaim(l), ClaimAndEnd(l, status, count)
      PROVE  WaitingIsScheduled'
  <2>1. AtHead(l) \in Turn
    BY <1>4, <1>5, HeadIsListed DEF MayClaim, AtNext, Inductive
  <2>2. /\ job' = [job EXCEPT ![AtHead(l)] = Ended(Claimed(@), status, count)]
        /\ loops' = Proceed(l) /\ UNCHANGED <<up, scheduled>>
    BY <1>5 DEF ClaimAndEnd
  <2>3. \A u \in Turn : job'[u].status = "pending" => job[u].status = "pending"
    BY <1>3, <2>1, <2>2
  <2> QED
    BY <1>1, <2>2, <2>3, LoopStays, WaitKept
<1>6. ASSUME NEW status \in Over, NEW count \in Nat, AtModel(l),
             job' = [job EXCEPT ![loops[l].turn] = Ended(@, status, count)],
             loops' = Proceed(l), UNCHANGED <<up, scheduled>>
      PROVE  WaitingIsScheduled'
  <2>1. loops[l].turn \in Turn
    BY <1>4, <1>6 DEF AtModel
  <2>2. \A u \in Turn : job'[u].status = "pending" => job[u].status = "pending"
    BY <1>3, <1>6, <2>1
  <2> QED
    BY <1>1, <1>6, <2>2, LoopStays, WaitKept
<1>7. CASE SkipClaimed(l) \/ FailClaimed(l) \/ Remember(l) \/ Forget(l)
  BY <1>5, <1>7 DEF SkipClaimed, FailClaimed, Remember, Forget, Over
<1>8. CASE AskModel(l)
  <2>1. AtHead(l) \in Turn /\ AtNext(l)
    BY <1>4, <1>8, HeadIsListed DEF AskModel, MayClaim, AtNext, Inductive
  <2>2. /\ job' = [job EXCEPT ![AtHead(l)] = Claimed(@)]
        /\ loops' = Await(l) /\ UNCHANGED <<up, scheduled>>
    BY <1>8 DEF AskModel
  <2>3. "failed" \in Over /\ 0 \in Nat
    BY DEF Over
  <2>4. \A u \in Turn : job'[u].status = "pending" => job[u].status = "pending"
    BY <1>3, <2>1, <2>2, <2>3
  <2> QED
    BY <1>1, <2>1, <2>2, <2>4, LoopStays, WaitKept
<1>9. CASE SkipAnswered(l)
  BY <1>6, <1>9 DEF SkipAnswered, StillMine, EndAsked, Over
<1>10. ASSUME NEW answer \in Answer, ApplyAnswer(l, answer) PROVE WaitingIsScheduled'
  <2>1. Len(answer) \in Nat
    BY AnswerIsSequence, MemoryAssumption
  <2> QED
    BY <1>6, <1>10, <2>1 DEF ApplyAnswer, StillMine, EndAsked, Over
<1>11. ASSUME NEW answer \in Answer, NEW n \in 0..(MaxCandidates - 1), ApplyInPart(l, answer, n)
       PROVE  WaitingIsScheduled'
  BY <1>6, <1>11 DEF ApplyInPart, StillMine, EndAsked, Over
<1>12. CASE PassOver(l) \/ ClaimIsLost(l)
  BY <1>1, <1>12, LoopStays, WaitKept DEF PassOver, ClaimIsLost
<1>13. CASE AnalysisFails(l)
  BY <1>6, <1>13 DEF AnalysisFails, Over
<1>14. CASE EndLoop(l)
  <2>1. (\E t \in Turn : job[t].status = "pending") => Runnable(job) # {}
    BY DEF Runnable, Claimable
  <2> QED
    BY <1>14, <2>1 DEF EndLoop, WaitingIsScheduled
<1> QED
  BY <1>7, <1>8, <1>9, <1>10, <1>11, <1>12, <1>13, <1>14 DEF Work, LoopStep

\* Jobs that come in, the timer, leases, and the process.
LEMMA OutsideKeepsWaits ==
  ASSUME Inductive, WaitingIsScheduled, Outside
  PROVE  WaitingIsScheduled'
<1>1. job \in [Turn -> Row] /\ LoopsTyped
  BY Parts DEF RowsTyped
<1>2. ASSUME NEW t \in Turn, EnqueueTurn(t) \/ Retry(t) PROVE WaitingIsScheduled'
  BY <1>2 DEF EnqueueTurn, Retry, WaitingIsScheduled
<1>3. ASSUME NEW t \in Turn, NEW lapsed \in BOOLEAN, job' = [job EXCEPT ![t].lapsed = lapsed],
             UNCHANGED <<up, scheduled, loops>>
      PROVE  WaitingIsScheduled'
  <2>1. \A u \in Turn : job'[u].status = job[u].status
    BY <1>1, <1>3 DEF Row
  <2> QED
    BY <1>3, <2>1, WaitKept
<1>4. ASSUME NEW t \in Turn, LeaseRunsOut(t) PROVE WaitingIsScheduled'
  BY <1>3, <1>4 DEF LeaseRunsOut
<1>5. ASSUME NEW l \in Loop, StartLoop(l) PROVE WaitingIsScheduled'
  <2>1. loops'[l].phase = "next"
    BY <1>1, <1>5 DEF StartLoop, LoopsTyped, NoLoop
  <2> QED
    BY <2>1 DEF WaitingIsScheduled
<1>6. ASSUME NEW l \in Loop, Heartbeat(l) PROVE WaitingIsScheduled'
  <2>1. loops[l].turn \in Turn
    BY <1>1, <1>6 DEF Heartbeat, AtModel, LoopsTyped
  <2> QED
    BY <1>3, <1>6, <2>1 DEF Heartbeat
<1>7. CASE Dispose \/ Crash \/ Start
  BY <1>7 DEF Dispose, Crash, Gone, Start, WaitingIsScheduled
<1> QED
  BY <1>2, <1>4, <1>5, <1>6, <1>7 DEF Outside

\* No wake-up is lost: while the process runs, a job that waits has the timer armed for
\* it or a loop that looks again when it ends, however many loops list the same jobs
\* and whatever an earlier process left behind (schedule, processPending).
THEOREM WaitingJobsAreScheduled == Spec => []WaitingIsScheduled
<1>1. Init => WaitingIsScheduled
  BY DEF Init, JobsInit, WaitingIsScheduled
<1>2. Inductive /\ WaitingIsScheduled /\ [Next]_vars => WaitingIsScheduled'
  <2> SUFFICES ASSUME Inductive, WaitingIsScheduled, [Next]_vars PROVE WaitingIsScheduled'
    OBVIOUS
  <2>1. ASSUME NEW l \in Loop, Work(l) \/ LoopStep(l) PROVE WaitingIsScheduled'
    BY <2>1, WorkKeepsWaits
  <2>2. ASSUME NEW l \in Loop, CrashInApply(l) \/ CrashInOrder(l) PROVE WaitingIsScheduled'
    BY <2>2 DEF CrashInApply, CrashInOrder, Crash, Gone, WaitingIsScheduled
  <2>3. CASE Outside
    BY <2>3, OutsideKeepsWaits
  <2>4. CASE \/ \E t \in Turn : Revise(t)
             \/ \E m \in memories : Confirm(m) \/ Reject(m)
             \/ UNCHANGED vars
    BY <2>4 DEF Revise, Confirm, Reject, vars, jobsVars, WaitingIsScheduled
  <2> QED
    BY <2>1, <2>2, <2>3, <2>4 DEF Next
<1> QED
  BY <1>1, <1>2, InductiveHolds, PTL DEF Spec
=============================================================================
