-------------------------- MODULE PrivateInboxProofs --------------------------
(***************************************************************************)
(* Proofs about PrivateInbox for every session: any set of messages, any   *)
(* sizes and limits.  One lemma per group of conjuncts of Inductive, each  *)
(* with one case per action; most theorems follow from Inductive.  Those   *)
(* about the conversation follow from Logged and Kept, which build on it.  *)
(***************************************************************************)
EXTENDS PrivateInbox, FiniteSetTheorems, TLAPS

\* claimBurst takes queued messages only.
LEMMA ClaimableIsQueued == Claimable \subseteq Queued
  BY DEF Claimable

\* The rows keep their types: counters only grow, and finishBurst and start store
\* statuses only.
LEMMA RowTypesStep == Inductive /\ [Next]_vars => RowTypes'
<1> SUFFICES ASSUME Inductive, [Next]_vars PROVE RowTypes'
  OBVIOUS
<1> USE BoundAssumption, MessageIdAssumption DEF Inductive
<1> USE DEF rows, files, run, counters, Interrupt, TurnStep, Statuses,
     Outcomes, Phases, TurnPhases, EditPhases, Jobs, NoEdit, TypeOK,
     RowTypes, RunTypes, EditTypes, OutcomeDecided, EditHolds
<1>1. CASE UNCHANGED vars
  BY <1>1 DEF vars
<1>2. ASSUME NEW m \in MessageId, NEW i \in BOOLEAN, Enqueue(m, i) PROVE RowTypes'
  <2>1. PICK newest \in {created[n] : n \in MessageId} :
          \E t \in {newest, newest + 1} : created' = [created EXCEPT ![m] = t]
    BY <1>2 DEF Enqueue
  <2>2. newest \in Nat
    BY <2>1
  <2>3. created' \in [MessageId -> Nat]
    BY <2>1, <2>2
  <2>4. version' = [version EXCEPT ![m] = version[m] + 1]
    BY <1>2 DEF Enqueue
  <2>5. version' \in [MessageId -> Nat]
    BY <2>4
  <2>6. burst' \in [MessageId -> Nat] /\ paused' \in BOOLEAN
    BY <1>2 DEF Enqueue
  <2>7. status' \in [MessageId -> Statuses]
    BY <1>2 DEF Enqueue
  <2> QED
    BY <2>3, <2>5, <2>6, <2>7
<1>3. ASSUME NEW m \in MessageId, EnqueueAgain(m) PROVE RowTypes'
  BY <1>3 DEF EnqueueAgain
<1>4. ASSUME NEW m \in MessageId, UpdateQueued(m) PROVE RowTypes'
  BY <1>4 DEF UpdateQueued
<1>5. ASSUME NEW m \in MessageId, RetractQueued(m) PROVE RowTypes'
  BY <1>5 DEF RetractQueued
<1>6. ASSUME NEW m \in MessageId, EditBegins(m) PROVE RowTypes'
  BY <1>6 DEF EditBegins, Revisable
<1>7. CASE CancelMessage
  BY <1>7 DEF CancelMessage
<1>8. CASE Resume
  BY <1>8 DEF Resume
<1>9. CASE FlushRequest
  BY <1>9 DEF FlushRequest, Flush
<1>10. CASE SendMessage
  BY <1>10 DEF SendMessage
<1>11. CASE Stop
  BY <1>11 DEF Stop
<1>12. CASE TimerFires
  BY <1>12 DEF TimerFires
<1>13. CASE FlusherWakes
  BY <1>13 DEF FlusherWakes, Flush
<1>14. CASE ProcessNothing
  BY <1>14 DEF ProcessNothing
<1>15. CASE ClaimBurst
  BY <1>15, ClaimableIsQueued DEF ClaimBurst
<1>16. CASE TurnBegins
  BY <1>16 DEF TurnBegins
<1>17. CASE TurnThrows
  BY <1>17 DEF TurnThrows
<1>18. CASE PreparationEnds
  BY <1>18 DEF PreparationEnds
<1>19. ASSUME NEW r \in Answers, EndBeforePrompt(r) PROVE RowTypes'
  BY <1>19 DEF EndBeforePrompt, Answers
<1>20. CASE Prompt
  BY <1>20 DEF Prompt
<1>21. ASSUME NEW r \in Answers, PersistSystemExchange(r) PROVE RowTypes'
  BY <1>21 DEF PersistSystemExchange, Answers
<1>22. ASSUME NEW r \in Answers, PromptEnds(r) PROVE RowTypes'
  BY <1>22 DEF PromptEnds, Answers
<1>23. CASE TurnReturns
  BY <1>23 DEF TurnReturns
<1>24. CASE FinishBurst
  BY <1>24 DEF FinishBurst
<1>25. CASE RunSettles
  BY <1>25 DEF RunSettles
<1>26. CASE EditQueues
  BY <1>26 DEF EditQueues
<1>27. CASE EditBranches
  BY <1>27 DEF EditBranches
<1>28. CASE EditRefused
  BY <1>28 DEF EditRefused
<1>29. CASE EditCommits
  <2>1. editor.message \in MessageId
    BY <1>29 DEF EditCommits
  <2>2. version' = [version EXCEPT ![editor.message] = version[editor.message] + 1]
    BY <1>29 DEF EditCommits
  <2>3. version \in [MessageId -> Nat]
    OBVIOUS
  <2>4. version' \in [MessageId -> Nat]
    <3> HIDE DEF Inductive, TypeOK, RowTypes
    <3>1. version[editor.message] \in Nat
      BY <2>1, <2>3
    <3> QED
      BY <2>1, <2>2, <2>3, <3>1
  <2>5. paused' \in BOOLEAN
    BY <1>29 DEF EditCommits
  <2> QED
    BY <1>29, <2>4, <2>5 DEF EditCommits
<1>30. CASE EditReleases
  BY <1>30 DEF EditReleases
<1>31. CASE DirectTurn
  BY <1>31 DEF DirectTurn
<1>32. CASE Start
  BY <1>32 DEF Start
<1>33. CASE Crash
  BY <1>33 DEF Crash
<1> QED
  BY <1>1, <1>2, <1>3, <1>4, <1>5, <1>6, <1>7, <1>8, <1>9, <1>10, <1>11,
     <1>12, <1>13, <1>14, <1>15, <1>16, <1>17, <1>18, <1>19, <1>20, <1>21,
     <1>22, <1>23, <1>24, <1>25, <1>26, <1>27, <1>28, <1>29, <1>30, <1>31,
     <1>32, <1>33
     DEF Next, Request, Progress

\* So do the timer, the run and the counters.
LEMMA RunTypesStep == Inductive /\ [Next]_vars => RunTypes'
<1> SUFFICES ASSUME Inductive, [Next]_vars PROVE RunTypes'
  OBVIOUS
<1> USE BoundAssumption, MessageIdAssumption DEF Inductive
<1> USE DEF rows, files, run, counters, Interrupt, TurnStep, Statuses,
     Outcomes, Phases, TurnPhases, EditPhases, Jobs, NoEdit, TypeOK,
     RowTypes, RunTypes, EditTypes, OutcomeDecided, Schedule
<1>1. CASE UNCHANGED vars
  BY <1>1 DEF vars
<1>2. ASSUME NEW m \in MessageId, NEW i \in BOOLEAN, Enqueue(m, i) PROVE RunTypes'
  BY <1>2 DEF Enqueue
<1>3. ASSUME NEW m \in MessageId, EnqueueAgain(m) PROVE RunTypes'
  BY <1>3 DEF EnqueueAgain
<1>4. ASSUME NEW m \in MessageId, UpdateQueued(m) PROVE RunTypes'
  BY <1>4 DEF UpdateQueued
<1>5. ASSUME NEW m \in MessageId, RetractQueued(m) PROVE RunTypes'
  BY <1>5 DEF RetractQueued
<1>6. ASSUME NEW m \in MessageId, EditBegins(m) PROVE RunTypes'
  BY <1>6 DEF EditBegins, Revisable
<1>7. CASE CancelMessage
  BY <1>7 DEF CancelMessage
<1>8. CASE Resume
  BY <1>8 DEF Resume
<1>9. CASE FlushRequest
  BY <1>9 DEF FlushRequest, Flush
<1>10. CASE SendMessage
  BY <1>10 DEF SendMessage
<1>11. CASE Stop
  BY <1>11 DEF Stop
<1>12. CASE TimerFires
  BY <1>12 DEF TimerFires
<1>13. CASE FlusherWakes
  BY <1>13 DEF FlusherWakes, Flush
<1>14. CASE ProcessNothing
  BY <1>14 DEF ProcessNothing
<1>15. CASE ClaimBurst
  <2>1. claims' \in Nat /\ active' \in Nat
    BY <1>15 DEF ClaimBurst
  <2> QED
    BY <1>15, <2>1 DEF ClaimBurst
<1>16. CASE TurnBegins
  BY <1>16 DEF TurnBegins
<1>17. CASE TurnThrows
  BY <1>17 DEF TurnThrows
<1>18. CASE PreparationEnds
  BY <1>18 DEF PreparationEnds
<1>19. ASSUME NEW r \in Answers, EndBeforePrompt(r) PROVE RunTypes'
  BY <1>19 DEF EndBeforePrompt, Answers
<1>20. CASE Prompt
  BY <1>20 DEF Prompt
<1>21. ASSUME NEW r \in Answers, PersistSystemExchange(r) PROVE RunTypes'
  BY <1>21 DEF PersistSystemExchange, Answers
<1>22. ASSUME NEW r \in Answers, PromptEnds(r) PROVE RunTypes'
  BY <1>22 DEF PromptEnds, Answers
<1>23. CASE TurnReturns
  BY <1>23 DEF TurnReturns
<1>24. CASE FinishBurst
  BY <1>24 DEF FinishBurst
<1>25. CASE RunSettles
  BY <1>25 DEF RunSettles
<1>26. CASE EditQueues
  BY <1>26 DEF EditQueues
<1>27. CASE EditBranches
  BY <1>27 DEF EditBranches
<1>28. CASE EditRefused
  BY <1>28 DEF EditRefused
<1>29. CASE EditCommits
  BY <1>29 DEF EditCommits
<1>30. CASE EditReleases
  BY <1>30 DEF EditReleases
<1>31. CASE DirectTurn
  BY <1>31 DEF DirectTurn
<1>32. CASE Start
  BY <1>32 DEF Start
<1>33. CASE Crash
  <2>1. claims' \in Nat /\ directs' \in Nat /\ crashes' \in Nat
    BY <1>33 DEF Crash
  <2> QED
    BY <1>33, <2>1 DEF Crash
<1> QED
  BY <1>1, <1>2, <1>3, <1>4, <1>5, <1>6, <1>7, <1>8, <1>9, <1>10, <1>11,
     <1>12, <1>13, <1>14, <1>15, <1>16, <1>17, <1>18, <1>19, <1>20, <1>21,
     <1>22, <1>23, <1>24, <1>25, <1>26, <1>27, <1>28, <1>29, <1>30, <1>31,
     <1>32, <1>33
     DEF Next, Request, Progress

\* So do the revision in progress and the execution queue.
LEMMA EditTypesStep == Inductive /\ [Next]_vars => EditTypes'
<1> SUFFICES ASSUME Inductive, [Next]_vars PROVE EditTypes'
  OBVIOUS
<1> USE BoundAssumption, MessageIdAssumption DEF Inductive
<1> USE DEF rows, files, run, counters, Interrupt, TurnStep, Statuses,
     Outcomes, Phases, TurnPhases, EditPhases, Jobs, NoEdit, TypeOK,
     RowTypes, RunTypes, EditTypes, HolderIsInside, EditHasLock, EditHolds
<1>1. CASE UNCHANGED vars
  BY <1>1 DEF vars
<1>2. ASSUME NEW m \in MessageId, NEW i \in BOOLEAN, Enqueue(m, i) PROVE EditTypes'
  BY <1>2 DEF Enqueue
<1>3. ASSUME NEW m \in MessageId, EnqueueAgain(m) PROVE EditTypes'
  BY <1>3 DEF EnqueueAgain
<1>4. ASSUME NEW m \in MessageId, UpdateQueued(m) PROVE EditTypes'
  BY <1>4 DEF UpdateQueued
<1>5. ASSUME NEW m \in MessageId, RetractQueued(m) PROVE EditTypes'
  BY <1>5 DEF RetractQueued
<1>6. ASSUME NEW m \in MessageId, EditBegins(m) PROVE EditTypes'
  BY <1>6 DEF EditBegins, Revisable
<1>7. CASE CancelMessage
  BY <1>7 DEF CancelMessage
<1>8. CASE Resume
  BY <1>8 DEF Resume
<1>9. CASE FlushRequest
  BY <1>9 DEF FlushRequest, Flush
<1>10. CASE SendMessage
  BY <1>10 DEF SendMessage
<1>11. CASE Stop
  BY <1>11 DEF Stop
<1>12. CASE TimerFires
  BY <1>12 DEF TimerFires
<1>13. CASE FlusherWakes
  BY <1>13 DEF FlusherWakes, Flush
<1>14. CASE ProcessNothing
  BY <1>14 DEF ProcessNothing
<1>15. CASE ClaimBurst
  BY <1>15, ClaimableIsQueued DEF ClaimBurst
<1>16. CASE TurnBegins
  BY <1>16 DEF TurnBegins
<1>17. CASE TurnThrows
  BY <1>17 DEF TurnThrows
<1>18. CASE PreparationEnds
  BY <1>18 DEF PreparationEnds
<1>19. ASSUME NEW r \in Answers, EndBeforePrompt(r) PROVE EditTypes'
  BY <1>19 DEF EndBeforePrompt, Answers
<1>20. CASE Prompt
  BY <1>20 DEF Prompt
<1>21. ASSUME NEW r \in Answers, PersistSystemExchange(r) PROVE EditTypes'
  BY <1>21 DEF PersistSystemExchange, Answers
<1>22. ASSUME NEW r \in Answers, PromptEnds(r) PROVE EditTypes'
  BY <1>22 DEF PromptEnds, Answers
<1>23. CASE TurnReturns
  BY <1>23 DEF TurnReturns
<1>24. CASE FinishBurst
  BY <1>24 DEF FinishBurst
<1>25. CASE RunSettles
  BY <1>25 DEF RunSettles
<1>26. CASE EditQueues
  <2>1. lock' \in Seq(Jobs)
    BY <1>26 DEF EditQueues
  <2>2. editor' = [editor EXCEPT !.phase = "locking"]
    BY <1>26 DEF EditQueues
  <2> QED
    BY <1>26, <2>1, <2>2 DEF EditQueues
<1>27. CASE EditBranches
  BY <1>27 DEF EditBranches
<1>28. CASE EditRefused
  <2>1. lock' \in Seq(Jobs)
    BY <1>28 DEF EditRefused
  <2>2. editor' = [editor EXCEPT !.phase = "releasing"]
    BY <1>28 DEF EditRefused
  <2> QED
    BY <1>28, <2>1, <2>2 DEF EditRefused
<1>29. CASE EditCommits
  <2>1. lock' \in Seq(Jobs)
    BY <1>29 DEF EditCommits
  <2>2. editor' = [editor EXCEPT !.phase = "releasing"]
    BY <1>29 DEF EditCommits
  <2>3. held' \in BOOLEAN /\ stops' \in Nat
    BY <1>29 DEF EditCommits
  <2> QED
    BY <2>1, <2>2, <2>3
<1>30. CASE EditReleases
  BY <1>30 DEF EditReleases
<1>31. CASE DirectTurn
  BY <1>31 DEF DirectTurn
<1>32. CASE Start
  BY <1>32 DEF Start
<1>33. CASE Crash
  <2>1. lock' = << >> /\ held' = FALSE /\ stops' = 0 /\ editor' = NoEdit
    BY <1>33 DEF Crash
  <2>2. lock' \in Seq(Jobs)
    BY <2>1
  <2> QED
    BY <2>1, <2>2
<1> QED
  BY <1>1, <1>2, <1>3, <1>4, <1>5, <1>6, <1>7, <1>8, <1>9, <1>10, <1>11,
     <1>12, <1>13, <1>14, <1>15, <1>16, <1>17, <1>18, <1>19, <1>20, <1>21,
     <1>22, <1>23, <1>24, <1>25, <1>26, <1>27, <1>28, <1>29, <1>30, <1>31,
     <1>32, <1>33
     DEF Next, Request, Progress

\* A burst is active exactly during its turn, its id is new when it is claimed,
\* and an answer exists exactly between the turn and finishBurst.
LEMMA ControlStep == Inductive /\ [Next]_vars => (ActiveDuringTurn /\ BurstIdsIssued /\ OutcomeDecided)'
<1> SUFFICES ASSUME Inductive, [Next]_vars PROVE (ActiveDuringTurn /\ BurstIdsIssued /\ OutcomeDecided)'
  OBVIOUS
<1> USE BoundAssumption, MessageIdAssumption DEF Inductive
<1> USE DEF rows, files, run, counters, Interrupt, TurnStep, Statuses,
     Outcomes, Phases, TurnPhases, EditPhases, Jobs, NoEdit, TypeOK,
     RowTypes, RunTypes, EditTypes, ActiveDuringTurn, BurstIdsIssued,
     OutcomeDecided, DownIsQuiet, EditHolds
<1>1. CASE UNCHANGED vars
  BY <1>1 DEF vars
<1>2. ASSUME NEW m \in MessageId, NEW i \in BOOLEAN, Enqueue(m, i) PROVE (ActiveDuringTurn /\ BurstIdsIssued /\ OutcomeDecided)'
  BY <1>2 DEF Enqueue
<1>3. ASSUME NEW m \in MessageId, EnqueueAgain(m) PROVE (ActiveDuringTurn /\ BurstIdsIssued /\ OutcomeDecided)'
  BY <1>3 DEF EnqueueAgain
<1>4. ASSUME NEW m \in MessageId, UpdateQueued(m) PROVE (ActiveDuringTurn /\ BurstIdsIssued /\ OutcomeDecided)'
  BY <1>4 DEF UpdateQueued
<1>5. ASSUME NEW m \in MessageId, RetractQueued(m) PROVE (ActiveDuringTurn /\ BurstIdsIssued /\ OutcomeDecided)'
  BY <1>5 DEF RetractQueued
<1>6. ASSUME NEW m \in MessageId, EditBegins(m) PROVE (ActiveDuringTurn /\ BurstIdsIssued /\ OutcomeDecided)'
  BY <1>6 DEF EditBegins, Revisable
<1>7. CASE CancelMessage
  BY <1>7 DEF CancelMessage
<1>8. CASE Resume
  BY <1>8 DEF Resume
<1>9. CASE FlushRequest
  BY <1>9 DEF FlushRequest, Flush
<1>10. CASE SendMessage
  BY <1>10 DEF SendMessage
<1>11. CASE Stop
  BY <1>11 DEF Stop
<1>12. CASE TimerFires
  BY <1>12 DEF TimerFires
<1>13. CASE FlusherWakes
  BY <1>13 DEF FlusherWakes, Flush
<1>14. CASE ProcessNothing
  BY <1>14 DEF ProcessNothing
<1>15. CASE ClaimBurst
  BY <1>15, ClaimableIsQueued DEF ClaimBurst
<1>16. CASE TurnBegins
  BY <1>16 DEF TurnBegins
<1>17. CASE TurnThrows
  BY <1>17 DEF TurnThrows
<1>18. CASE PreparationEnds
  BY <1>18 DEF PreparationEnds
<1>19. ASSUME NEW r \in Answers, EndBeforePrompt(r) PROVE (ActiveDuringTurn /\ BurstIdsIssued /\ OutcomeDecided)'
  BY <1>19 DEF EndBeforePrompt, Answers
<1>20. CASE Prompt
  BY <1>20 DEF Prompt
<1>21. ASSUME NEW r \in Answers, PersistSystemExchange(r) PROVE (ActiveDuringTurn /\ BurstIdsIssued /\ OutcomeDecided)'
  BY <1>21 DEF PersistSystemExchange, Answers
<1>22. ASSUME NEW r \in Answers, PromptEnds(r) PROVE (ActiveDuringTurn /\ BurstIdsIssued /\ OutcomeDecided)'
  BY <1>22 DEF PromptEnds, Answers
<1>23. CASE TurnReturns
  BY <1>23 DEF TurnReturns
<1>24. CASE FinishBurst
  BY <1>24 DEF FinishBurst
<1>25. CASE RunSettles
  BY <1>25 DEF RunSettles
<1>26. CASE EditQueues
  BY <1>26 DEF EditQueues
<1>27. CASE EditBranches
  BY <1>27 DEF EditBranches
<1>28. CASE EditRefused
  BY <1>28 DEF EditRefused
<1>29. CASE EditCommits
  BY <1>29 DEF EditCommits
<1>30. CASE EditReleases
  BY <1>30 DEF EditReleases
<1>31. CASE DirectTurn
  BY <1>31 DEF DirectTurn
<1>32. CASE Start
  BY <1>32 DEF Start
<1>33. CASE Crash
  BY <1>33 DEF Crash
<1> QED
  BY <1>1, <1>2, <1>3, <1>4, <1>5, <1>6, <1>7, <1>8, <1>9, <1>10, <1>11,
     <1>12, <1>13, <1>14, <1>15, <1>16, <1>17, <1>18, <1>19, <1>20, <1>21,
     <1>22, <1>23, <1>24, <1>25, <1>26, <1>27, <1>28, <1>29, <1>30, <1>31,
     <1>32, <1>33
     DEF Next, Request, Progress

\* The revision holds the session from its first step to its last, works on it
\* alone, and its message does not turn back into a queued one meanwhile.
LEMMA EditStep == Inductive /\ [Next]_vars => (EditHolds /\ HolderIsInside /\ EditExcludesBurst)'
<1> SUFFICES ASSUME Inductive, [Next]_vars PROVE (EditHolds /\ HolderIsInside /\ EditExcludesBurst)'
  OBVIOUS
<1> USE BoundAssumption, MessageIdAssumption DEF Inductive
<1> USE DEF rows, files, run, counters, Interrupt, TurnStep, Statuses,
     Outcomes, Phases, TurnPhases, EditPhases, Jobs, NoEdit, TypeOK,
     RowTypes, RunTypes, EditTypes, EditHolds, HolderIsInside, EditHasLock,
     EditExcludesBurst, DownIsQuiet, InBurst, OutcomeDecided, OneActiveBurst,
     ActiveDuringTurn, Queued, Present
<1>1. CASE UNCHANGED vars
  BY <1>1 DEF vars
<1>2. ASSUME NEW m \in MessageId, NEW i \in BOOLEAN, Enqueue(m, i) PROVE (EditHolds /\ HolderIsInside /\ EditExcludesBurst)'
  BY <1>2 DEF Enqueue
<1>3. ASSUME NEW m \in MessageId, EnqueueAgain(m) PROVE (EditHolds /\ HolderIsInside /\ EditExcludesBurst)'
  BY <1>3 DEF EnqueueAgain
<1>4. ASSUME NEW m \in MessageId, UpdateQueued(m) PROVE (EditHolds /\ HolderIsInside /\ EditExcludesBurst)'
  BY <1>4 DEF UpdateQueued
<1>5. ASSUME NEW m \in MessageId, RetractQueued(m) PROVE (EditHolds /\ HolderIsInside /\ EditExcludesBurst)'
  BY <1>5 DEF RetractQueued
<1>6. ASSUME NEW m \in MessageId, EditBegins(m) PROVE (EditHolds /\ HolderIsInside /\ EditExcludesBurst)'
  BY <1>6 DEF EditBegins, Revisable
<1>7. CASE CancelMessage
  BY <1>7 DEF CancelMessage
<1>8. CASE Resume
  BY <1>8 DEF Resume
<1>9. CASE FlushRequest
  BY <1>9 DEF FlushRequest, Flush
<1>10. CASE SendMessage
  BY <1>10 DEF SendMessage
<1>11. CASE Stop
  BY <1>11 DEF Stop
<1>12. CASE TimerFires
  BY <1>12 DEF TimerFires
<1>13. CASE FlusherWakes
  BY <1>13 DEF FlusherWakes, Flush
<1>14. CASE ProcessNothing
  BY <1>14 DEF ProcessNothing
<1>15. CASE ClaimBurst
  BY <1>15, ClaimableIsQueued DEF ClaimBurst
<1>16. CASE TurnBegins
  BY <1>16 DEF TurnBegins
<1>17. CASE TurnThrows
  BY <1>17 DEF TurnThrows
<1>18. CASE PreparationEnds
  BY <1>18 DEF PreparationEnds
<1>19. ASSUME NEW r \in Answers, EndBeforePrompt(r) PROVE (EditHolds /\ HolderIsInside /\ EditExcludesBurst)'
  BY <1>19 DEF EndBeforePrompt, Answers
<1>20. CASE Prompt
  BY <1>20 DEF Prompt
<1>21. ASSUME NEW r \in Answers, PersistSystemExchange(r) PROVE (EditHolds /\ HolderIsInside /\ EditExcludesBurst)'
  BY <1>21 DEF PersistSystemExchange, Answers
<1>22. ASSUME NEW r \in Answers, PromptEnds(r) PROVE (EditHolds /\ HolderIsInside /\ EditExcludesBurst)'
  BY <1>22 DEF PromptEnds, Answers
<1>23. CASE TurnReturns
  BY <1>23 DEF TurnReturns
<1>24. CASE FinishBurst
  BY <1>24 DEF FinishBurst
<1>25. CASE RunSettles
  BY <1>25 DEF RunSettles
<1>26. CASE EditQueues
  BY <1>26 DEF EditQueues
<1>27. CASE EditBranches
  BY <1>27 DEF EditBranches
<1>28. CASE EditRefused
  BY <1>28 DEF EditRefused
<1>29. CASE EditCommits
  BY <1>29 DEF EditCommits
<1>30. CASE EditReleases
  BY <1>30 DEF EditReleases
<1>31. CASE DirectTurn
  BY <1>31 DEF DirectTurn
<1>32. CASE Start
  BY <1>32 DEF Start
<1>33. CASE Crash
  BY <1>33 DEF Crash
<1> QED
  BY <1>1, <1>2, <1>3, <1>4, <1>5, <1>6, <1>7, <1>8, <1>9, <1>10, <1>11,
     <1>12, <1>13, <1>14, <1>15, <1>16, <1>17, <1>18, <1>19, <1>20, <1>21,
     <1>22, <1>23, <1>24, <1>25, <1>26, <1>27, <1>28, <1>29, <1>30, <1>31,
     <1>32, <1>33
     DEF Next, Request, Progress

\* Every row in processing is of the active burst, and a program that is not
\* running has no run, timer or revision.
LEMMA BurstStep == Inductive /\ [Next]_vars => (DownIsQuiet /\ OneActiveBurst)'
<1> SUFFICES ASSUME Inductive, [Next]_vars PROVE (DownIsQuiet /\ OneActiveBurst)'
  OBVIOUS
<1> USE BoundAssumption, MessageIdAssumption DEF Inductive
<1> USE DEF rows, files, run, counters, Interrupt, TurnStep, Statuses,
     Outcomes, Phases, TurnPhases, EditPhases, Jobs, NoEdit, TypeOK,
     RowTypes, RunTypes, EditTypes, DownIsQuiet, OneActiveBurst,
     ActiveDuringTurn, BurstIdsIssued, OutcomeDecided, EditExcludesBurst,
     EditHolds, InBurst, Queued, Schedule
<1>1. CASE UNCHANGED vars
  BY <1>1 DEF vars
<1>2. ASSUME NEW m \in MessageId, NEW i \in BOOLEAN, Enqueue(m, i) PROVE (DownIsQuiet /\ OneActiveBurst)'
  BY <1>2 DEF Enqueue
<1>3. ASSUME NEW m \in MessageId, EnqueueAgain(m) PROVE (DownIsQuiet /\ OneActiveBurst)'
  BY <1>3 DEF EnqueueAgain
<1>4. ASSUME NEW m \in MessageId, UpdateQueued(m) PROVE (DownIsQuiet /\ OneActiveBurst)'
  BY <1>4 DEF UpdateQueued
<1>5. ASSUME NEW m \in MessageId, RetractQueued(m) PROVE (DownIsQuiet /\ OneActiveBurst)'
  BY <1>5 DEF RetractQueued
<1>6. ASSUME NEW m \in MessageId, EditBegins(m) PROVE (DownIsQuiet /\ OneActiveBurst)'
  BY <1>6 DEF EditBegins, Revisable
<1>7. CASE CancelMessage
  BY <1>7 DEF CancelMessage
<1>8. CASE Resume
  BY <1>8 DEF Resume
<1>9. CASE FlushRequest
  BY <1>9 DEF FlushRequest, Flush
<1>10. CASE SendMessage
  BY <1>10 DEF SendMessage
<1>11. CASE Stop
  BY <1>11 DEF Stop
<1>12. CASE TimerFires
  BY <1>12 DEF TimerFires
<1>13. CASE FlusherWakes
  BY <1>13 DEF FlusherWakes, Flush
<1>14. CASE ProcessNothing
  BY <1>14 DEF ProcessNothing
<1>15. CASE ClaimBurst
  BY <1>15, ClaimableIsQueued DEF ClaimBurst
<1>16. CASE TurnBegins
  BY <1>16 DEF TurnBegins
<1>17. CASE TurnThrows
  BY <1>17 DEF TurnThrows
<1>18. CASE PreparationEnds
  BY <1>18 DEF PreparationEnds
<1>19. ASSUME NEW r \in Answers, EndBeforePrompt(r) PROVE (DownIsQuiet /\ OneActiveBurst)'
  BY <1>19 DEF EndBeforePrompt, Answers
<1>20. CASE Prompt
  BY <1>20 DEF Prompt
<1>21. ASSUME NEW r \in Answers, PersistSystemExchange(r) PROVE (DownIsQuiet /\ OneActiveBurst)'
  BY <1>21 DEF PersistSystemExchange, Answers
<1>22. ASSUME NEW r \in Answers, PromptEnds(r) PROVE (DownIsQuiet /\ OneActiveBurst)'
  BY <1>22 DEF PromptEnds, Answers
<1>23. CASE TurnReturns
  BY <1>23 DEF TurnReturns
<1>24. CASE FinishBurst
  BY <1>24 DEF FinishBurst
<1>25. CASE RunSettles
  BY <1>25 DEF RunSettles
<1>26. CASE EditQueues
  BY <1>26 DEF EditQueues
<1>27. CASE EditBranches
  BY <1>27 DEF EditBranches
<1>28. CASE EditRefused
  BY <1>28 DEF EditRefused
<1>29. CASE EditCommits
  BY <1>29 DEF EditCommits
<1>30. CASE EditReleases
  BY <1>30 DEF EditReleases
<1>31. CASE DirectTurn
  BY <1>31 DEF DirectTurn
<1>32. CASE Start
  BY <1>32 DEF Start
<1>33. CASE Crash
  BY <1>33 DEF Crash
<1> QED
  BY <1>1, <1>2, <1>3, <1>4, <1>5, <1>6, <1>7, <1>8, <1>9, <1>10, <1>11,
     <1>12, <1>13, <1>14, <1>15, <1>16, <1>17, <1>18, <1>19, <1>20, <1>21,
     <1>22, <1>23, <1>24, <1>25, <1>26, <1>27, <1>28, <1>29, <1>30, <1>31,
     <1>32, <1>33
     DEF Next, Request, Progress

\* Every step that leaves messages queued while nothing forbids processing leaves
\* a timer or a run behind, too.
LEMMA WakeupStep == Inductive /\ [Next]_vars => NoLostWakeup'
<1> SUFFICES ASSUME Inductive, [Next]_vars PROVE NoLostWakeup'
  OBVIOUS
<1> USE BoundAssumption, MessageIdAssumption DEF Inductive
<1> USE DEF rows, files, run, counters, Interrupt, TurnStep, Statuses,
     Outcomes, Phases, TurnPhases, EditPhases, Jobs, NoEdit, NoLostWakeup,
     Queued, Schedule, EditHolds, TypeOK, RowTypes, RunTypes, EditTypes
<1>1. CASE UNCHANGED vars
  BY <1>1 DEF vars
<1>2. ASSUME NEW m \in MessageId, NEW i \in BOOLEAN, Enqueue(m, i) PROVE NoLostWakeup'
  BY <1>2 DEF Enqueue
<1>3. ASSUME NEW m \in MessageId, EnqueueAgain(m) PROVE NoLostWakeup'
  BY <1>3 DEF EnqueueAgain
<1>4. ASSUME NEW m \in MessageId, UpdateQueued(m) PROVE NoLostWakeup'
  BY <1>4 DEF UpdateQueued
<1>5. ASSUME NEW m \in MessageId, RetractQueued(m) PROVE NoLostWakeup'
  BY <1>5 DEF RetractQueued
<1>6. ASSUME NEW m \in MessageId, EditBegins(m) PROVE NoLostWakeup'
  BY <1>6 DEF EditBegins, Revisable
<1>7. CASE CancelMessage
  BY <1>7 DEF CancelMessage
<1>8. CASE Resume
  BY <1>8 DEF Resume
<1>9. CASE FlushRequest
  BY <1>9 DEF FlushRequest, Flush
<1>10. CASE SendMessage
  BY <1>10 DEF SendMessage
<1>11. CASE Stop
  BY <1>11 DEF Stop
<1>12. CASE TimerFires
  BY <1>12 DEF TimerFires
<1>13. CASE FlusherWakes
  BY <1>13 DEF FlusherWakes, Flush
<1>14. CASE ProcessNothing
  BY <1>14 DEF ProcessNothing
<1>15. CASE ClaimBurst
  BY <1>15, ClaimableIsQueued DEF ClaimBurst
<1>16. CASE TurnBegins
  BY <1>16 DEF TurnBegins
<1>17. CASE TurnThrows
  BY <1>17 DEF TurnThrows
<1>18. CASE PreparationEnds
  BY <1>18 DEF PreparationEnds
<1>19. ASSUME NEW r \in Answers, EndBeforePrompt(r) PROVE NoLostWakeup'
  BY <1>19 DEF EndBeforePrompt, Answers
<1>20. CASE Prompt
  BY <1>20 DEF Prompt
<1>21. ASSUME NEW r \in Answers, PersistSystemExchange(r) PROVE NoLostWakeup'
  BY <1>21 DEF PersistSystemExchange, Answers
<1>22. ASSUME NEW r \in Answers, PromptEnds(r) PROVE NoLostWakeup'
  BY <1>22 DEF PromptEnds, Answers
<1>23. CASE TurnReturns
  BY <1>23 DEF TurnReturns
<1>24. CASE FinishBurst
  BY <1>24 DEF FinishBurst
<1>25. CASE RunSettles
  BY <1>25 DEF RunSettles
<1>26. CASE EditQueues
  BY <1>26 DEF EditQueues
<1>27. CASE EditBranches
  BY <1>27 DEF EditBranches
<1>28. CASE EditRefused
  BY <1>28 DEF EditRefused
<1>29. CASE EditCommits
  BY <1>29 DEF EditCommits
<1>30. CASE EditReleases
  BY <1>30 DEF EditReleases
<1>31. CASE DirectTurn
  BY <1>31 DEF DirectTurn
<1>32. CASE Start
  BY <1>32 DEF Start
<1>33. CASE Crash
  BY <1>33 DEF Crash
<1> QED
  BY <1>1, <1>2, <1>3, <1>4, <1>5, <1>6, <1>7, <1>8, <1>9, <1>10, <1>11,
     <1>12, <1>13, <1>14, <1>15, <1>16, <1>17, <1>18, <1>19, <1>20, <1>21,
     <1>22, <1>23, <1>24, <1>25, <1>26, <1>27, <1>28, <1>29, <1>30, <1>31,
     <1>32, <1>33
     DEF Next, Request, Progress

\* The invariant holds of a session without messages.
LEMMA InitInductive == Init => Inductive
<1> SUFFICES ASSUME Init PROVE Inductive
  OBVIOUS
<1> USE DEF Init, NoEdit
<1>1. RowTypes
  BY DEF RowTypes, Statuses
<1>2. RunTypes
  BY DEF RunTypes, Phases, Outcomes
<1>3. EditTypes
  <2>1. editor \in [phase : EditPhases \cup {"none"}, message : MessageId \cup {0},
                    version : Nat, stops : Nat]
    OBVIOUS
  <2>2. lock \in Seq(Jobs)
    OBVIOUS
  <2> QED
    BY <2>1, <2>2 DEF EditTypes
<1>4. ActiveDuringTurn /\ BurstIdsIssued /\ OutcomeDecided
  BY DEF ActiveDuringTurn, BurstIdsIssued, OutcomeDecided, TurnPhases
<1>5. EditHolds /\ HolderIsInside /\ DownIsQuiet
  BY DEF EditHolds, HolderIsInside, DownIsQuiet
<1>6. OneActiveBurst /\ NoLostWakeup /\ EditExcludesBurst
  BY DEF OneActiveBurst, NoLostWakeup, EditExcludesBurst, Queued
<1> QED
  BY <1>1, <1>2, <1>3, <1>4, <1>5, <1>6 DEF Inductive, TypeOK

\* Every step keeps the whole invariant.
LEMMA NextInductive == Inductive /\ [Next]_vars => Inductive'
  BY RowTypesStep, RunTypesStep, EditTypesStep, ControlStep, EditStep, BurstStep,
     WakeupStep DEF Inductive, TypeOK

\* The inductive invariant holds throughout.
LEMMA InductiveHolds == Spec => []Inductive
  BY InitInductive, NextInductive, PTL DEF Spec

\* The service's rows, timers, edits and locks never leave their ranges.
THEOREM TypeCorrect == Spec => []TypeOK
  BY InductiveHolds, PTL DEF Inductive

\* No message is stuck in processing: every such row belongs to the burst that
\* is active and will be finished, or to a crash that start will repair.
THEOREM ProcessingIsActive == Spec => []OneActiveBurst
  BY InductiveHolds, PTL DEF Inductive

\* A queued message never waits without a timer or a run, unless the queue is
\* stopped or held or the service is not up.
THEOREM WakeupIsNeverLost == Spec => []NoLostWakeup
  BY InductiveHolds, PTL DEF Inductive

\* A revision and a burst never work on the session at the same time.
THEOREM EditsExcludeBursts == Spec => []EditExcludesBurst
  BY InductiveHolds, PTL DEF Inductive

\* An edit does not undo a stop that came after it began.
THEOREM LaterStopsSurviveEdits == Spec => EditKeepsLaterStop
<1> DEFINE Restart == editor # NoEdit /\ stops # editor.stops /\ paused /\ ~paused'
<1>1. Next => (Restart => UNCHANGED editor)
  <2> SUFFICES ASSUME Next, paused, ~paused', editor # NoEdit, stops # editor.stops
               PROVE UNCHANGED editor
    OBVIOUS
  <2> USE DEF rows, run, files, counters, TurnStep
  <2>1. CASE Request
    BY <2>1 DEF Request, Enqueue, EnqueueAgain, UpdateQueued, RetractQueued,
       EditBegins, CancelMessage, Resume, FlushRequest, SendMessage, Stop
  <2>2. CASE Progress
    BY <2>2 DEF Progress, TimerFires, FlusherWakes, ProcessNothing, ClaimBurst,
       TurnBegins, TurnThrows, PreparationEnds, EndBeforePrompt, Prompt,
       PersistSystemExchange, PromptEnds, TurnReturns, FinishBurst, RunSettles,
       EditQueues, EditBranches, EditRefused, EditCommits, EditReleases,
       DirectTurn, Start
  <2>3. CASE Crash
    BY <2>3 DEF Crash
  <2> QED
    BY <2>1, <2>2, <2>3 DEF Next
<1>2. [Next]_vars => [Restart => UNCHANGED editor]_vars
  BY <1>1
<1> QED
  BY <1>2, PTL DEF Spec, EditKeepsLaterStop

\* The inbox implements the message lifecycle: every step of it is a step of
\* MessageLifecycle or leaves that specification's variables alone.
THEOREM LifecycleImplemented == Spec => ImplementsLifecycle
<1>1. Init => Lifecycle!Init
  BY DEF Init, Lifecycle!Init
<1>2. Inductive /\ [Next]_vars => [Lifecycle!Next]_(Lifecycle!vars)
  <2> SUFFICES ASSUME Inductive, [Next]_vars
               PROVE Lifecycle!Next \/ UNCHANGED <<status, paused>>
    BY DEF Lifecycle!vars
  <2> USE DEF rows, run, files, counters, TurnStep
  <2>1. CASE UNCHANGED vars
    BY <2>1 DEF vars
  <2>2. CASE Request
    BY <2>2 DEF Request, Enqueue, EnqueueAgain, UpdateQueued, RetractQueued,
       EditBegins, CancelMessage, Resume, FlushRequest, SendMessage, Stop,
       Lifecycle!Next, Lifecycle!Receive, Lifecycle!Retract, Lifecycle!Pause,
       Lifecycle!Resume
  <2>3. CASE ClaimBurst
    <3>1. Claimable \subseteq Lifecycle!InStatus("queued")
      BY ClaimableIsQueued DEF Queued, Lifecycle!InStatus
    <3>2. active = 0 /\ service # "down"
      BY <2>3 DEF ClaimBurst, Inductive, ActiveDuringTurn, TurnPhases, DownIsQuiet
    <3>3. Lifecycle!Batch = {}
      BY <3>2 DEF Inductive, OneActiveBurst, Lifecycle!Batch, Lifecycle!InStatus
    <3>4. Lifecycle!Take(Claimable)
      BY <2>3, <3>1, <3>3 DEF ClaimBurst, Lifecycle!Take
    <3>5. Claimable \in SUBSET MessageId
      BY ClaimableIsQueued DEF Queued
    <3> QED
      BY <3>4, <3>5 DEF Lifecycle!Next
  <2>4. CASE FinishBurst
    <3> DEFINE final == IF outcome # "thrown" THEN outcome
                        ELSE IF aborted THEN "cancelled" ELSE "failed"
    <3>1. service # "down" /\ final \in Lifecycle!Finished
      BY <2>4 DEF FinishBurst, Inductive, OutcomeDecided, TypeOK, RunTypes, Outcomes,
         DownIsQuiet, Lifecycle!Finished
    <3>2. InBurst = Lifecycle!Batch
      BY <3>1 DEF Inductive, OneActiveBurst, InBurst, Lifecycle!Batch,
         Lifecycle!InStatus
    <3>3. status' = [m \in MessageId |-> IF m \in InBurst THEN final ELSE status[m]]
      BY <2>4 DEF FinishBurst
    <3>4. UNCHANGED paused
      BY <2>4 DEF FinishBurst
    <3>5. CASE Lifecycle!Batch = {}
      BY <3>2, <3>3, <3>4, <3>5 DEF Inductive, TypeOK, RowTypes
    <3>6. CASE Lifecycle!Batch # {}
      <4>1. Lifecycle!Finish(final)
        BY <3>2, <3>3, <3>4, <3>6 DEF Lifecycle!Finish
      <4> QED
        BY <4>1, <3>1 DEF Lifecycle!Next
    <3> QED
      BY <3>5, <3>6
  <2>5. CASE EditCommits
    <3>1. editor.message \in MessageId
      BY <2>5 DEF EditCommits, Inductive, EditHolds
    <3>2. Lifecycle!Batch = {}
      BY <2>5 DEF EditCommits, Inductive, EditExcludesBurst, Lifecycle!Batch,
         Lifecycle!InStatus
    <3>3. status[editor.message] \in Lifecycle!Finished
      BY <2>5, <3>1 DEF EditCommits, Inductive, EditExcludesBurst, EditHolds, TypeOK,
         RowTypes, Statuses, Lifecycle!Finished
    <3>4. paused' \in {paused, FALSE}
      BY <2>5 DEF EditCommits, Inductive, TypeOK, RowTypes
    <3>5. status' = [status EXCEPT ![editor.message] = "queued"]
      BY <2>5 DEF EditCommits
    <3>6. Lifecycle!Reopen(editor.message)
      BY <3>2, <3>3, <3>4, <3>5 DEF Lifecycle!Reopen
    <3> QED
      BY <3>1, <3>6 DEF Lifecycle!Next
  <2>6. CASE Start
    <3>1. status' = [m \in MessageId |->
                       IF status[m] = "processing" THEN "failed" ELSE status[m]]
      BY <2>6 DEF Start
    <3>2. UNCHANGED paused
      BY <2>6 DEF Start
    <3>3. CASE Lifecycle!Batch = {}
      BY <3>1, <3>2, <3>3 DEF Inductive, TypeOK, RowTypes, Lifecycle!Batch,
         Lifecycle!InStatus
    <3>4. CASE Lifecycle!Batch # {}
      <4>1. Lifecycle!Finish("failed")
        BY <3>1, <3>2, <3>4 DEF Lifecycle!Finish, Lifecycle!Batch, Lifecycle!InStatus
      <4> QED
        BY <4>1 DEF Lifecycle!Next, Lifecycle!Finished
    <3> QED
      BY <3>3, <3>4
  <2>7. CASE Crash
    BY <2>7 DEF Crash
  <2>8. CASE \/ TimerFires \/ FlusherWakes \/ ProcessNothing
             \/ TurnBegins \/ TurnThrows \/ PreparationEnds
             \/ Prompt \/ TurnReturns \/ RunSettles
             \/ EditQueues \/ EditBranches \/ EditRefused \/ EditReleases
             \/ DirectTurn
             \/ \E result \in Answers : PersistSystemExchange(result)
                                        \/ EndBeforePrompt(result)
                                        \/ PromptEnds(result)
    BY <2>8 DEF TimerFires, FlusherWakes, ProcessNothing, TurnBegins, TurnThrows,
       PreparationEnds, EndBeforePrompt, Prompt, PersistSystemExchange, PromptEnds,
       TurnReturns, RunSettles, EditQueues, EditBranches, EditRefused,
       EditReleases, DirectTurn
  <2> QED
    BY <2>1, <2>2, <2>3, <2>4, <2>5, <2>6, <2>7, <2>8 DEF Next, Progress
<1> QED
  BY <1>1, <1>2, InductiveHolds, PTL DEF Spec, ImplementsLifecycle, Lifecycle!Spec

-----------------------------------------------------------------------------
(* What is recorded of the conversation *)

\* Rows are sorted by time, then by id: each two of them one way or the other.
LEMMA BeforeIsTotal ==
  ASSUME created \in [MessageId -> Nat],
         NEW m \in MessageId, NEW n \in MessageId
  PROVE  /\ ~Before(m, m)
         /\ m # n => Before(m, n) \/ Before(n, m)
         /\ \A k \in MessageId : Before(m, n) /\ Before(n, k) => Before(m, k)
         /\ Before(m, n) => created[m] <= created[n]
         /\ ~Before(m, n) => created[n] <= created[m]
  BY MessageIdAssumption DEF Before

\* A burst can be sorted: each of its messages has the place that the number of
\* those before it gives.
LEMMA InOrderSorts ==
  ASSUME created \in [MessageId -> Nat], NEW S \in SUBSET MessageId
  PROVE  /\ Cardinality(S) \in Nat
         /\ InOrder(S) \in [1..Cardinality(S) -> S]
         /\ \A i, j \in 1..Cardinality(S) :
              i < j => Before(InOrder(S)[i], InOrder(S)[j])
         /\ \A m \in S : \E i \in 1..Cardinality(S) : InOrder(S)[i] = m
<1> DEFINE Count == Cardinality(S)
           Places == 1..Count
           Older(m) == {n \in S : Before(n, m)}
           Place(m) == Cardinality(Older(m)) + 1
           Sorted(q) == \A i, j \in DOMAIN q : i < j => Before(q[i], q[j])
<1>1. IsFiniteSet(S) /\ Count \in Nat
  BY MessageIdAssumption, FS_Subset, FS_CardinalityType
<1>2. \A m \in S : Place(m) \in Places
  <2> TAKE m \in S
  <2>1. Older(m) \in SUBSET S /\ Older(m) # S
    BY BeforeIsTotal
  <2>2. Cardinality(Older(m)) \in Nat /\ Cardinality(Older(m)) < Count
    <3>1. IsFiniteSet(Older(m)) /\ Cardinality(Older(m)) <= Count
          /\ (Count = Cardinality(Older(m)) => S = Older(m))
      BY <1>1, <2>1, FS_Subset
    <3>2. Cardinality(Older(m)) \in Nat
      BY <3>1, FS_CardinalityType
    <3> QED
      BY <1>1, <2>1, <3>1, <3>2
  <2> HIDE DEF Older, Count
  <2> QED
    BY <1>1, <2>2
<1>3. \A m, n \in S : Before(m, n) => Place(m) < Place(n)
  <2> SUFFICES ASSUME NEW m \in S, NEW n \in S, Before(m, n) PROVE Place(m) < Place(n)
    OBVIOUS
  <2>1. Older(n) \in SUBSET S /\ Older(m) \in SUBSET Older(n) /\ Older(m) # Older(n)
    <3>1. m \in Older(n) /\ m \notin Older(m)
      BY BeforeIsTotal
    <3>2. \A k \in S : Before(k, m) => Before(k, n)
      BY BeforeIsTotal
    <3> QED
      BY <3>1, <3>2
  <2>2. IsFiniteSet(Older(n))
    BY <1>1, <2>1, FS_Subset
  <2>3. IsFiniteSet(Older(m)) /\ Cardinality(Older(m)) <= Cardinality(Older(n))
        /\ (Cardinality(Older(n)) = Cardinality(Older(m)) => Older(n) = Older(m))
    <3> HIDE DEF Older
    <3> QED
      BY <2>1, <2>2, FS_Subset
  <2>4. Cardinality(Older(m)) \in Nat /\ Cardinality(Older(n)) \in Nat
    <3> HIDE DEF Older
    <3> QED
      BY <2>2, <2>3, FS_CardinalityType
  <2> HIDE DEF Older
  <2> QED
    BY <2>1, <2>3, <2>4
<1>4. \A m, n \in S : Place(m) = Place(n) => m = n
  <2> SUFFICES ASSUME NEW m \in S, NEW n \in S, Place(m) = Place(n), m # n PROVE FALSE
    OBVIOUS
  <2>1. Before(m, n) \/ Before(n, m)
    BY BeforeIsTotal
  <2>2. Place(m) < Place(n) \/ Place(n) < Place(m)
    BY <1>3, <2>1
  <2>3. Place(m) \in Places /\ Place(n) \in Places
    BY <1>2
  <2> HIDE DEF Place, Count
  <2> QED
    BY <1>1, <2>2, <2>3
<1> HIDE DEF Place
<1>5. IsFiniteSet(Places) /\ Cardinality(Places) = Count
  BY <1>1, FS_Interval
<1>6. \A i \in Places : \E m \in S : Place(m) = i
  <2> DEFINE f == [m \in S |-> Place(m)]
  <2>1. f \in Injection(S, Places)
    BY <1>2, <1>4 DEF Injection, IsInjective
  <2>2. f \in Surjection(S, Places)
    <3> HIDE DEF f, Places
    <3> QED
      BY <1>5, <2>1, FS_Injection
  <2> QED
    BY <2>2 DEF Surjection
<1>7. \E q \in [Places -> S] : Sorted(q)
  <2> DEFINE q == [i \in Places |-> CHOOSE m \in S : Place(m) = i]
  <2>1. \A i \in Places : q[i] \in S /\ Place(q[i]) = i
    BY <1>6
  <2>2. q \in [Places -> S]
    BY <2>1
  <2>3. \A i, j \in Places : i < j => Before(q[i], q[j])
    <3> SUFFICES ASSUME NEW i \in Places, NEW j \in Places, i < j,
                        ~Before(q[i], q[j])
                 PROVE FALSE
      OBVIOUS
    <3>1. q[i] \in S /\ q[j] \in S /\ Place(q[i]) = i /\ Place(q[j]) = j
      BY <2>1
    <3>2. q[i] # q[j]
      BY <3>1
    <3> HIDE DEF q
    <3>3. Before(q[j], q[i])
      BY <3>1, <3>2, BeforeIsTotal
    <3> QED
      BY <1>1, <1>3, <3>1, <3>3
  <2> HIDE DEF q
  <2> QED
    BY <2>2, <2>3
<1>8. InOrder(S) \in [Places -> S] /\ Sorted(InOrder(S))
  BY <1>7 DEF InOrder
<1> DEFINE q == InOrder(S)
<1>9. \A i, j \in Places : i < j => Before(q[i], q[j])
  BY <1>8
<1> HIDE DEF q
<1>10. q \in [Places -> S]
  BY <1>8 DEF q
<1>11. q \in Injection(Places, S)
  <2>1. \A i, j \in Places : q[i] = q[j] => i = j
    <3> SUFFICES ASSUME NEW i \in Places, NEW j \in Places, q[i] = q[j], i < j
                 PROVE FALSE
      BY <1>1
    <3> QED
      BY <1>9, <1>10, BeforeIsTotal
  <2> QED
    BY <1>10, <2>1 DEF Injection, IsInjective
<1>12. q \in Surjection(Places, S)
  <2> HIDE DEF Places
  <2> QED
    BY <1>1, <1>5, <1>11, FS_Injection
<1> QED
  BY <1>1, <1>9, <1>10, <1>12 DEF Surjection, q

\* What claimBurst leaves in the queue is not older than what it takes.
LEMMA ClaimIsPrefix ==
  ASSUME created \in [MessageId -> Nat], MaxMessages \in Nat,
         NEW m \in Claimable, NEW n \in Queued \ Claimable
  PROVE  created[m] <= created[n]
<1> SUFFICES ASSUME Before(n, m) PROVE n \in Claimable
  BY BeforeIsTotal DEF Claimable, Queued
<1>1. Ahead(n) \subseteq Ahead(m) /\ n \in Ahead(m) /\ Ahead(m) \subseteq MessageId
  BY BeforeIsTotal DEF Ahead, Queued, Claimable
<1>2. Cardinality(Ahead(n)) < MaxMessages
  <2>1. IsFiniteSet(Ahead(m))
    BY <1>1, MessageIdAssumption, FS_Subset
  <2>2. IsFiniteSet(Ahead(n)) /\ Cardinality(Ahead(n)) <= Cardinality(Ahead(m))
    BY <1>1, <2>1, FS_Subset
  <2>3. Cardinality(Ahead(m)) \in Nat /\ Cardinality(Ahead(n)) \in Nat
    BY <2>1, <2>2, FS_CardinalityType
  <2>4. Cardinality(Ahead(m)) < MaxMessages
    BY DEF Claimable
  <2> QED
    BY <2>2, <2>3, <2>4
<1> QED
  BY <1>1, <1>2 DEF Claimable

\* What a sequence is made of.
LEMMA ElementsOf == ASSUME NEW X, NEW s \in Seq(X) PROVE \A i \in DOMAIN s : s[i] \in X
  OBVIOUS

\* A branch without its last entry.
LEMMA FrontIs ==
  ASSUME NEW X, NEW s \in Seq(X), s # << >>
  PROVE  /\ Len(s) \in Nat \ {0} /\ Last(s) = s[Len(s)]
         /\ Front(s) \in Seq(X) /\ Len(Front(s)) = Len(s) - 1
         /\ \A i \in 1..Len(s) - 1 : Front(s)[i] = s[i]
<1> DEFINE n == Len(s)
<1>1. n \in Nat \ {0} /\ n = Len(s)
  OBVIOUS
<1>2. Front(s) = SubSeq(s, 1, n - 1) /\ Last(s) = s[n]
  BY DEF Front, Last
<1> HIDE DEF n
<1>3. Len(Front(s)) = n - 1 /\ \A i \in 1..n - 1 : Front(s)[i] = s[i]
  BY <1>1, <1>2
<1>4. Front(s) \in Seq(X)
  BY <1>1, <1>2
<1> QED
  BY <1>1, <1>2, <1>3, <1>4

\* What a branch is made of.
Entries == {<<0, 0>>} \cup (MessageId \X Nat)

\* What appendMessages leaves: the branch in use, then the entries.
LEMMA RecordIs ==
  ASSUME transcript \in Seq(Entries), NEW entries \in Seq(Entries), Record(entries)
  PROVE  /\ saved' = transcript' /\ transcript' \in Seq(Entries)
         /\ Len(saved') = Len(transcript) + Len(entries)
         /\ \A i \in 1..Len(transcript) : i \in DOMAIN saved' /\ saved'[i] = transcript[i]
         /\ \A i \in DOMAIN entries :
              Len(transcript) + i \in DOMAIN saved'
              /\ saved'[Len(transcript) + i] = entries[i]
         /\ \A i \in DOMAIN saved' :
              i \in 1..Len(transcript) \/ i - Len(transcript) \in DOMAIN entries
  BY DEF Record

\* What most steps leave alone: the rows, the logs, the burst's place between its
\* claim and its answer, and the edit's place between its two changes.
Quiet ==
  /\ UNCHANGED <<status, version, created, burst, active, saved, transcript>>
  /\ Unrecorded' => Unrecorded
  /\ Answered' => Answered
  /\ editor'.phase = "committing" <=> editor.phase = "committing"
  /\ editor.phase = "committing" => editor'.message = editor.message
  /\ EditWorks' => \/ EditWorks /\ editor'.message = editor.message
                          /\ editor'.version = editor.version
                   \/ Revisable(editor'.message)
                      /\ editor'.version = version[editor'.message]

\* Such a step keeps what is said of the logs.
LEMMA QuietIsLogged == Logged /\ Quiet => Logged'
<1> SUFFICES ASSUME Logged, Quiet PROVE Logged'
  OBVIOUS
<1> USE DEF Logged, Quiet
<1>1. /\ Queued' = Queued /\ InBurst' = InBurst /\ Present' = Present
      /\ \A m : Text(m)' = Text(m) /\ (Recorded(Text(m))' <=> Recorded(Text(m)))
      /\ \A m, n : Before(m, n)' <=> Before(m, n)
  BY DEF Queued, InBurst, Present, Text, Recorded, Before
<1>2. Pending' \subseteq Pending
  BY <1>1 DEF Pending
<1>3. LogTypes' /\ LogIsPrefix' /\ LogIsUnique'
  BY DEF LogTypes, LogIsPrefix, LogIsUnique
<1>4. PendingIsFresh' /\ BurstIsPrefix' /\ RecordedWasClaimed'
  BY <1>1, <1>2 DEF PendingIsFresh, BurstIsPrefix, RecordedWasClaimed
<1>5. EditedIsLatest' /\ EditIsCurrent'
  BY <1>1 DEF EditedIsLatest, EditIsCurrent, Revisable
<1>6. SavedInSendOrder' /\ PendingIsLater'
  BY <1>1, <1>2 DEF SavedInSendOrder, PendingIsLater
<1> QED
  BY <1>3, <1>4, <1>5, <1>6

\* And what is said of the answers.
LEMMA QuietIsKept == Kept /\ Logged /\ Inductive /\ Quiet => Kept'
<1> SUFFICES ASSUME Kept, Logged, Inductive, Quiet PROVE Kept'
  OBVIOUS
<1> USE DEF Kept, Quiet
<1>1. /\ InBurst' = InBurst
      /\ \A m : Text(m)' = Text(m) /\ (Recorded(Text(m))' <=> Recorded(Text(m)))
  BY DEF InBurst, Text, Recorded
<1> QED
  BY <1>1 DEF TailIsReplaced, CompletedIsSaved

\* A turn records texts that were pending, each once and in the order of sending,
\* and they are not pending any more.
LEMMA RecordLogged ==
  ASSUME Inductive, Logged,
         NEW entries \in Seq({<<0, 0>>} \cup {Text(m) : m \in Pending}),
         \A i, j \in DOMAIN entries : entries[i] = entries[j] /\ entries[i][1] # 0 => i = j,
         Record(entries),
         UNCHANGED <<status, version, created, burst, active, editor>>,
         Unrecorded' => Unrecorded,
         \A m \in Pending', i \in DOMAIN entries : entries[i] # Text(m),
         \A m \in MessageId, i \in DOMAIN entries : entries[i] = Text(m) => burst[m] # 0,
         \A i, j \in DOMAIN entries : \A m, n \in MessageId :
           i < j /\ entries[i] = Text(m) /\ entries[j] = Text(n) => created[m] <= created[n],
         \A m \in MessageId, n \in Pending' : \A i \in DOMAIN entries :
           entries[i] = Text(m) => created[m] <= created[n]
  PROVE  Logged'
<1> USE DEF Logged
<1>1. /\ Queued' = Queued /\ InBurst' = InBurst /\ \A m : Text(m)' = Text(m)
      /\ \A m, n : Before(m, n)' <=> Before(m, n)
  BY DEF Queued, InBurst, Text, Before
<1>2. /\ Pending' \subseteq Pending /\ Pending \subseteq Present
      /\ Present' = Present /\ Present \subseteq MessageId
  BY <1>1 DEF Pending, Queued, InBurst, Present
<1>3. version \in [MessageId -> Nat]
  BY DEF Inductive, TypeOK, RowTypes
<1>4. {<<0, 0>>} \cup {Text(m) : m \in Pending} \subseteq Entries
  BY <1>2, <1>3 DEF Text, Entries
<1>5. entries \in Seq(Entries) /\ transcript \in Seq(Entries) /\ saved \in Seq(Entries)
  BY <1>4 DEF LogTypes, Entries
<1>6. \A i \in DOMAIN entries :
        entries[i] = <<0, 0>> \/ \E m \in Pending : entries[i] = Text(m)
  <2> DEFINE E == {<<0, 0>>} \cup {Text(m) : m \in Pending}
  <2>1. \A i \in DOMAIN entries : entries[i] \in E
    BY ElementsOf
  <2> QED
    BY <2>1
<1>7. \A i \in DOMAIN transcript : i \in DOMAIN saved /\ saved[i] = transcript[i]
  BY <1>5 DEF LogIsPrefix
<1>8. /\ \A i \in DOMAIN transcript :
           i \in DOMAIN saved /\ i \in DOMAIN saved' /\ saved'[i] = saved[i]
      /\ \A i \in DOMAIN entries :
           /\ Len(transcript) + i \in DOMAIN saved'
           /\ saved'[Len(transcript) + i] = entries[i]
      /\ \A i \in DOMAIN saved' :
           i \in DOMAIN transcript \/ i - Len(transcript) \in DOMAIN entries
      /\ saved' \in Seq(Entries) /\ transcript' = saved'
  <2>1. DOMAIN transcript = 1..Len(transcript)
    BY <1>5
  <2> QED
    BY <1>5, <1>7, <2>1, RecordIs
<1> USE <1>5, <1>8
<1>9. LogTypes'
  <2>1. ASSUME NEW i \in DOMAIN saved', NEW m \in MessageId, saved'[i][1] = m
        PROVE  saved'[i][2] <= version[m]
    <3>1. CASE i \in DOMAIN transcript
      BY <2>1, <3>1 DEF LogTypes
    <3>2. CASE i - Len(transcript) \in DOMAIN entries
      <4>1. saved'[i] = entries[i - Len(transcript)]
        <5> DEFINE k == i - Len(transcript)
        <5>1. k \in DOMAIN entries /\ i = Len(transcript) + k
          BY <2>1, <3>2
        <5> HIDE DEF k
        <5> QED
          BY <5>1
      <4>2. entries[i - Len(transcript)] = Text(m)
        BY <1>3, <1>6, <2>1, <3>2, <4>1, <1>2, MessageIdAssumption DEF Text
      <4> QED
        BY <1>3, <4>1, <4>2 DEF Text
    <3> QED
      BY <2>1, <3>1, <3>2
  <2> QED
    BY <2>1 DEF LogTypes, Entries
<1>10. LogIsPrefix'
  BY DEF LogIsPrefix
<1>11. \A i \in DOMAIN saved' :
         \/ i \in DOMAIN transcript /\ i \in DOMAIN saved /\ saved'[i] = saved[i]
         \/ \E k \in DOMAIN entries :
              i = Len(transcript) + k /\ saved'[i] = entries[k]
  <2> TAKE i \in DOMAIN saved'
  <2>1. CASE i \in DOMAIN transcript
    BY <2>1
  <2>2. CASE i - Len(transcript) \in DOMAIN entries
    <3> DEFINE k == i - Len(transcript)
    <3>1. k \in DOMAIN entries /\ i = Len(transcript) + k
      BY <2>2
    <3> HIDE DEF k
    <3> QED
      BY <3>1
  <2> QED
    BY <2>1, <2>2
<1>12. LogIsUnique'
  <2> SUFFICES ASSUME NEW i \in DOMAIN saved', NEW j \in DOMAIN saved',
                      saved'[i] = saved'[j], saved'[i][1] # 0
               PROVE  i = j
    BY DEF LogIsUnique
  <2>1. \A k \in DOMAIN saved, l \in DOMAIN entries :
          entries[l][1] # 0 => saved[k] # entries[l]
    BY <1>6 DEF PendingIsFresh, Recorded
  <2>2. CASE i \in DOMAIN saved /\ saved'[i] = saved[i]
             /\ j \in DOMAIN saved /\ saved'[j] = saved[j]
    BY <2>2 DEF LogIsUnique
  <2> QED
    <3> DEFINE Old(x) == x \in DOMAIN transcript /\ x \in DOMAIN saved /\ saved'[x] = saved[x]
               New(x) == \E k \in DOMAIN entries :
                           x = Len(transcript) + k /\ saved'[x] = entries[k]
    <3>1. (Old(i) \/ New(i)) /\ (Old(j) \/ New(j))
      BY <1>11
    <3>2. ~(Old(i) /\ New(j)) /\ ~(New(i) /\ Old(j))
      BY <2>1
    <3>3. CASE New(i) /\ New(j)
      BY <3>3
    <3> QED
      BY <2>2, <3>1, <3>2, <3>3
<1>13. PendingIsFresh'
  <2> SUFFICES ASSUME NEW m \in Pending', NEW i \in DOMAIN saved', saved'[i] = Text(m)
               PROVE  FALSE
    BY <1>1 DEF PendingIsFresh, Recorded
  <2>1. \A k \in DOMAIN saved : saved[k] # Text(m)
    BY <1>2 DEF PendingIsFresh, Recorded
  <2>2. \A k \in DOMAIN entries : entries[k] # Text(m)
    OBVIOUS
  <2> QED
    BY <1>11, <2>1, <2>2
<1>14. EditIsCurrent' /\ EditedIsLatest' /\ BurstIsPrefix'
  BY <1>1, <1>2 DEF EditIsCurrent, EditedIsLatest, EditWorks, BurstIsPrefix
<1>15. \A i \in DOMAIN entries, m \in MessageId : entries[i] = Text(m) => m \in Pending
  <2> SUFFICES ASSUME NEW i \in DOMAIN entries, NEW m \in MessageId, entries[i] = Text(m)
               PROVE  m \in Pending
    OBVIOUS
  <2> QED
    BY <1>6, MessageIdAssumption DEF Text
<1>16. \A m \in MessageId : Recorded(Text(m))' =>
         Recorded(Text(m)) \/ \E k \in DOMAIN entries : entries[k] = Text(m)
  BY <1>1, <1>11 DEF Recorded
<1>17. RecordedWasClaimed'
  BY <1>16 DEF RecordedWasClaimed
<1>18. SavedInSendOrder'
  <2> SUFFICES ASSUME NEW i \in DOMAIN saved', NEW j \in DOMAIN saved',
                      NEW m \in Present, NEW n \in Present,
                      i < j, saved'[i] = Text(m), saved'[j] = Text(n)
               PROVE  created[m] <= created[n]
    BY <1>1, <1>2 DEF SavedInSendOrder
  <2>1. CASE j \in DOMAIN transcript
    <3>1. i \in DOMAIN transcript
      BY <2>1
    <3> QED
      BY <2>1, <3>1 DEF SavedInSendOrder
  <2>2. CASE j \notin DOMAIN transcript
    <3>1. PICK l \in DOMAIN entries : j = Len(transcript) + l /\ saved'[j] = entries[l]
      BY <1>11, <2>2
    <3>2. n \in Pending
      BY <1>2, <1>15, <3>1
    <3>3. CASE i \in DOMAIN saved /\ saved'[i] = saved[i]
      <4>1. Recorded(Text(m))
        BY <3>3 DEF Recorded
      <4> QED
        BY <3>2, <4>1 DEF PendingIsLater
    <3>4. CASE \E k \in DOMAIN entries : i = Len(transcript) + k /\ saved'[i] = entries[k]
      BY <1>2, <3>1, <3>4
    <3> QED
      BY <1>11, <3>3, <3>4
  <2> QED
    BY <2>1, <2>2
<1>19. PendingIsLater'
  <2> SUFFICES ASSUME NEW m \in Present, NEW n \in Pending', Recorded(Text(m))'
               PROVE  created[m] <= created[n]
    BY <1>1, <1>2 DEF PendingIsLater
  <2> QED
    BY <1>2, <1>16 DEF PendingIsLater
<1> QED
  BY <1>10, <1>12, <1>13, <1>14, <1>9, <1>17, <1>18, <1>19

\* And if it answers, it has recorded the whole burst.
LEMMA RecordKept ==
  ASSUME Logged, Kept, editor.phase # "committing",
         NEW entries \in Seq(Entries), Record(entries),
         UNCHANGED <<status, version, burst, active>>,
         Answered' => \/ Answered
                      \/ \A m \in InBurst : \E i \in DOMAIN entries : entries[i] = Text(m)
  PROVE  Kept'
<1>1. InBurst' = InBurst /\ \A m : Text(m)' = Text(m)
  BY DEF InBurst, Text
<1>2. transcript \in Seq(Entries) /\ saved \in Seq(Entries)
  BY DEF Logged, LogTypes, Entries
<1>3. \A m \in MessageId : Recorded(Text(m)) => Recorded(Text(m))'
  <2> SUFFICES ASSUME NEW m \in MessageId, NEW i \in DOMAIN saved, saved[i] = Text(m)
               PROVE  \E j \in DOMAIN saved' : saved'[j] = Text(m)
    BY <1>1 DEF Recorded
  <2>1. i \in 1..Len(transcript)
    BY <1>2 DEF Kept, TailIsReplaced
  <2>2. transcript[i] = saved[i]
    BY <2>1 DEF Logged, LogIsPrefix
  <2> QED
    BY <1>2, <2>1, <2>2, RecordIs
<1>4. \A m \in MessageId : (\E k \in DOMAIN entries : entries[k] = Text(m))
                              => Recorded(Text(m))'
  BY <1>1, <1>2, RecordIs DEF Recorded
<1>5. TailIsReplaced'
  BY <1>2, RecordIs DEF TailIsReplaced
<1>6. CompletedIsSaved'
  <2>1. \A m \in MessageId : status[m] = "completed" => Recorded(Text(m))'
    BY <1>3 DEF Kept, CompletedIsSaved
  <2>2. Answered' => \A m \in InBurst : Recorded(Text(m))'
    BY <1>3, <1>4 DEF Kept, CompletedIsSaved, InBurst
  <2> QED
    BY <1>1, <2>1, <2>2 DEF CompletedIsSaved
<1> QED
  BY <1>5, <1>6 DEF Kept

\* The entries of a burst: texts of it, each once, oldest first.
ListsBurst(entries) ==
  /\ entries \in Seq({<<0, 0>>} \cup {Text(m) : m \in Pending})
  /\ \A i, j \in DOMAIN entries : entries[i] = entries[j] => i = j
  /\ \A i \in DOMAIN entries : \E m \in InBurst : entries[i] = Text(m)
  /\ \A i, j \in DOMAIN entries : \A m, n \in MessageId :
       i < j /\ entries[i] = Text(m) /\ entries[j] = Text(n) => created[m] <= created[n]
  /\ entries = Texts(InOrder(InBurst)) =>
       \A m \in InBurst : \E i \in DOMAIN entries : entries[i] = Text(m)

\* Both lists that a turn may record are such.
LEMMA BurstEntries ==
  ASSUME Inductive, Unrecorded,
         NEW entries, entries \in {Texts(InOrder(InBurst)), Front(Texts(InOrder(InBurst)))}
  PROVE  ListsBurst(entries)
<1> DEFINE q == InOrder(InBurst)
           n == Cardinality(InBurst)
           E == {<<0, 0>>} \cup {Text(m) : m \in Pending}
<1>1. created \in [MessageId -> Nat] /\ InBurst \in SUBSET MessageId
  BY DEF Inductive, TypeOK, RowTypes, InBurst
<1>2. /\ n \in Nat /\ q \in [1..n -> InBurst]
      /\ \A i, j \in 1..n : i < j => Before(q[i], q[j])
      /\ \A m \in InBurst : \E i \in 1..n : q[i] = m
  BY <1>1, InOrderSorts
<1> HIDE DEF q, n
<1>3. \A i, j \in 1..n : q[i] = q[j] => i = j
  <2> SUFFICES ASSUME NEW i \in 1..n, NEW j \in 1..n, q[i] = q[j], i < j PROVE FALSE
    BY <1>2
  <2> QED
    BY <1>1, <1>2, BeforeIsTotal
<1>4. /\ Texts(q) \in Seq(E) /\ Len(Texts(q)) = n
      /\ \A i \in 1..n : Texts(q)[i] = Text(q[i])
  <2>1. \A m \in InBurst : Text(m) \in E
    BY DEF Pending
  <2> HIDE DEF E
  <2>2. Texts(q) = [i \in 1..n |-> Text(q[i])]
    BY <1>2 DEF Texts
  <2> QED
    BY <1>2, <2>1, <2>2
<1>5. entries \in Seq(E) /\ Len(entries) <= n
      /\ (\A i \in 1..Len(entries) : entries[i] = Text(q[i]))
      /\ (entries = Texts(q) => Len(entries) = n)
  <2> HIDE DEF E
  <2>1. CASE entries = Texts(q)
    BY <1>2, <1>4, <2>1
  <2>2. CASE entries = Front(Texts(q))
    <3>1. entries = SubSeq(Texts(q), 1, n - 1)
      BY <1>4, <2>2 DEF Front
    <3>2. CASE n = 0
      BY <1>4, <3>1, <3>2
    <3>3. CASE n # 0
      <4>1. entries \in Seq(E) /\ Len(entries) = n - 1
        BY <1>2, <1>4, <3>1, <3>3
      <4>2. \A i \in 1..Len(entries) : entries[i] = Texts(q)[i]
        BY <1>2, <1>4, <3>1, <3>3
      <4> HIDE DEF Texts
      <4>3. entries # Texts(q)
        BY <1>2, <1>4, <4>1
      <4> QED
        BY <1>2, <1>4, <4>1, <4>2, <4>3
    <3> QED
      BY <3>2, <3>3
  <2> QED
    BY <2>1, <2>2 DEF q
<1> HIDE DEF E
<1>6. Len(entries) \in Nat /\ DOMAIN entries = 1..Len(entries)
  BY <1>5
<1>7. \A i \in DOMAIN entries :
        i \in 1..n /\ q[i] \in InBurst /\ entries[i] = Text(q[i])
  <2> TAKE i \in DOMAIN entries
  <2>1. i \in 1..Len(entries) /\ Len(entries) <= n
    BY <1>5, <1>6
  <2>2. i \in 1..n
    BY <1>2, <1>6, <2>1
  <2>3. q[i] \in InBurst
    BY <1>2, <2>2
  <2> QED
    BY <1>5, <2>1, <2>2, <2>3
<1>8. \A i \in DOMAIN entries, m \in MessageId : entries[i] = Text(m) => m = q[i]
  BY <1>7 DEF Text
<1>9. \A i, j \in DOMAIN entries : entries[i] = entries[j] => i = j
  BY <1>3, <1>7 DEF Text
<1>10. \A i, j \in DOMAIN entries : \A m, k \in MessageId :
         i < j /\ entries[i] = Text(m) /\ entries[j] = Text(k) => created[m] <= created[k]
  BY <1>1, <1>2, <1>7, <1>8, BeforeIsTotal
<1>11. entries = Texts(q) => \A m \in InBurst : \E i \in DOMAIN entries : entries[i] = Text(m)
  BY <1>2, <1>5, <1>6
<1> QED
  BY <1>5, <1>7, <1>9, <1>10, <1>11 DEF q, E, ListsBurst

\* A burst that records its texts is no longer unrecorded.
LEMMA BurstRecords ==
  ASSUME Inductive, Logged, Unrecorded,
         NEW entries \in {Texts(InOrder(InBurst)), Front(Texts(InOrder(InBurst)))},
         Record(entries),
         UNCHANGED <<status, version, created, burst, active, editor>>,
         ~Unrecorded',
         Answered' => entries = Texts(InOrder(InBurst))
  PROVE  Logged' /\ (Kept => Kept')
<1>1. ListsBurst(entries)
  BY BurstEntries
<1>2. Pending' = Queued /\ Queued \cap InBurst = {}
  BY DEF Pending, Queued, InBurst
<1>3. \A m \in Pending', i \in DOMAIN entries : entries[i] # Text(m)
  BY <1>1, <1>2 DEF Text, ListsBurst
<1>4. \A m \in MessageId, n \in Pending' : \A i \in DOMAIN entries :
        entries[i] = Text(m) => created[m] <= created[n]
  <2>1. active # 0
    BY DEF Inductive, ActiveDuringTurn, TurnPhases, Unrecorded
  <2>2. \A m \in MessageId, i \in DOMAIN entries : entries[i] = Text(m) => m \in InBurst
    BY <1>1 DEF Text, ListsBurst
  <2> QED
    BY <1>2, <2>1, <2>2 DEF Logged, BurstIsPrefix
<1>5. editor.phase # "committing"
  BY DEF Inductive, EditExcludesBurst, Unrecorded
<1>6. \A m \in MessageId, i \in DOMAIN entries : entries[i] = Text(m) => burst[m] # 0
  <2>1. active # 0
    BY DEF Inductive, ActiveDuringTurn, TurnPhases, Unrecorded
  <2> QED
    BY <1>1, <2>1 DEF Text, ListsBurst, InBurst
<1>7. entries \in Seq(Entries)
  <2> DEFINE E == {<<0, 0>>} \cup {Text(m) : m \in Pending}
  <2>1. \A m \in Pending : m \in MessageId /\ version[m] \in Nat
    BY DEF Pending, Queued, InBurst, Inductive, TypeOK, RowTypes
  <2>2. E \subseteq Entries
    BY <2>1 DEF Text, Entries
  <2>3. entries \in Seq(E)
    BY <1>1 DEF ListsBurst
  <2> HIDE DEF E
  <2> QED
    BY <2>2, <2>3
<1> HIDE DEF Logged, Kept
<1>8. Logged'
  BY <1>1, <1>3, <1>4, <1>6, RecordLogged DEF ListsBurst
<1>9. ASSUME Kept PROVE Kept'
  <2>1. Answered' => \A m \in InBurst : \E i \in DOMAIN entries : entries[i] = Text(m)
    BY <1>1 DEF ListsBurst
  <2> QED
    BY <1>5, <1>9, <1>7, <2>1, RecordKept
<1> QED
  BY <1>8, <1>9

\* The steps that are quiet.
QuietStep ==
  \/ UNCHANGED vars
  \/ \E m \in MessageId : EnqueueAgain(m) \/ EditBegins(m)
  \/ CancelMessage \/ Resume \/ FlushRequest \/ SendMessage \/ Stop
  \/ TimerFires \/ FlusherWakes \/ ProcessNothing
  \/ TurnBegins \/ TurnThrows \/ PreparationEnds
  \/ \E result \in Answers : PromptEnds(result)
  \/ TurnReturns \/ RunSettles
  \/ EditQueues \/ EditRefused \/ EditReleases

\* They are: an edit begins with the last message that was claimed, and keeps it.
LEMMA QuietSteps == Inductive /\ Logged /\ QuietStep => Quiet
<1> SUFFICES ASSUME Inductive, Logged, QuietStep PROVE Quiet
  OBVIOUS
<1> USE DEF Quiet, Unrecorded, Answered, EditWorks, rows, files, run, counters, TurnStep
<1>1. EditIsCurrent /\ EditTypes /\ EditHolds
  BY DEF Inductive, TypeOK, Logged
<1>2. (held <=> editor.phase # "none") /\ (outcome # "none" <=> phase \in {"returning", "finishing"})
  BY DEF Inductive, EditHolds, OutcomeDecided
<1> USE DEF EditIsCurrent, NoEdit
<1>3. CASE UNCHANGED vars
  BY <1>1, <1>3 DEF vars
<1>4. ASSUME NEW m \in MessageId, EnqueueAgain(m) \/ EditBegins(m) PROVE Quiet
  BY <1>1, <1>2, <1>4 DEF EnqueueAgain, EditBegins, EditTypes, EditPhases
<1>5. CASE CancelMessage \/ Resume \/ FlushRequest \/ SendMessage \/ Stop
  BY <1>1, <1>5 DEF CancelMessage, Resume, FlushRequest, Flush, SendMessage, Stop
<1>6. CASE TimerFires \/ FlusherWakes \/ ProcessNothing
  BY <1>1, <1>6 DEF TimerFires, FlusherWakes, Flush, ProcessNothing
<1>7. CASE TurnBegins \/ PreparationEnds \/ TurnReturns \/ RunSettles
  BY <1>1, <1>7 DEF TurnBegins, PreparationEnds, TurnReturns, RunSettles
<1>8. CASE TurnThrows \/ \E result \in Answers : PromptEnds(result)
  BY <1>1, <1>2, <1>8 DEF TurnThrows, PromptEnds
<1>9. CASE EditQueues \/ EditRefused
  BY <1>1, <1>9 DEF EditQueues, EditRefused, EditTypes
<1>10. CASE EditReleases
  BY <1>1, <1>10 DEF EditReleases
<1> QED
  BY <1>3, <1>4, <1>5, <1>6, <1>7, <1>8, <1>9, <1>10 DEF QuietStep

\* The next text of a message is new to the file, and no other text becomes so.
LEMMA NewText ==
  ASSUME Inductive, Logged, NEW m \in MessageId,
         version' = [version EXCEPT ![m] = version[m] + 1], UNCHANGED saved
  PROVE  /\ \A n \in MessageId : Recorded(Text(n))' => n # m /\ Recorded(Text(n))
         /\ \A n \in MessageId \ {m} : Text(n)' = Text(n)
<1>1. version \in [MessageId -> Nat] /\ version[m] \in Nat
  BY DEF Inductive, TypeOK, RowTypes
<1>2. \A n \in MessageId \ {m} : Text(n)' = Text(n)
  BY <1>1 DEF Text
<1>3. Text(m)' = <<m, version[m] + 1>>
  BY <1>1 DEF Text
<1>4. \A i \in DOMAIN saved : saved[i] # <<m, version[m] + 1>>
  <2> SUFFICES ASSUME NEW i \in DOMAIN saved, saved[i] = <<m, version[m] + 1>> PROVE FALSE
    OBVIOUS
  <2>1. saved[i][1] = m /\ saved[i][2] = version[m] + 1
    OBVIOUS
  <2>2. saved[i][2] <= version[m]
    BY <2>1 DEF Logged, LogTypes
  <2> QED
    BY <1>1, <2>1, <2>2
<1> QED
  BY <1>2, <1>3, <1>4 DEF Recorded

\* A step that leaves the logs alone and lowers no version keeps them well-formed.
LEMMA LogsKept ==
  ASSUME Inductive, Logged, UNCHANGED <<saved, transcript>>,
         \A n \in MessageId : version'[n] \in Nat /\ version[n] <= version'[n]
  PROVE  LogTypes' /\ LogIsPrefix' /\ LogIsUnique'
<1>1. version \in [MessageId -> Nat]
  BY DEF Inductive, TypeOK, RowTypes
<1>2. saved \in Seq(Entries)
  BY DEF Logged, LogTypes, Entries
<1>3. ASSUME NEW i \in DOMAIN saved, NEW m \in MessageId, saved[i][1] = m
      PROVE  saved[i][2] <= version'[m]
  <2>1. saved[i] \in Entries
    BY <1>2, ElementsOf
  <2>2. saved[i][2] \in Nat
    BY <2>1 DEF Entries
  <2>3. saved[i][2] <= version[m]
    BY <1>3 DEF Logged, LogTypes
  <2> QED
    BY <1>1, <2>2, <2>3
<1> QED
  BY <1>3 DEF Logged, LogTypes, LogIsPrefix, LogIsUnique

\* A step that writes no text and lets no message become pending keeps what is
\* said of texts.
LEMMA TextsStay ==
  ASSUME Logged, UNCHANGED <<version, saved>>,
         Pending' \subseteq Pending, Present' \subseteq Present,
         \A n \in Present' : created'[n] = created[n],
         \A n \in MessageId : burst[n] # 0 => burst'[n] # 0
  PROVE  PendingIsFresh' /\ RecordedWasClaimed' /\ SavedInSendOrder' /\ PendingIsLater'
<1>1. \A n : Text(n)' = Text(n) /\ (Recorded(Text(n))' <=> Recorded(Text(n)))
  BY DEF Recorded, Text
<1>2. Pending' \subseteq Present'
  BY DEF Pending, Queued, InBurst, Present
<1> QED
  BY <1>1, <1>2
     DEF Logged, PendingIsFresh, RecordedWasClaimed, SavedInSendOrder, PendingIsLater

\* So does one that writes a text, if its message comes after what is recorded.
LEMMA TextChanges ==
  ASSUME Inductive, Logged, NEW m \in MessageId,
         version' = [version EXCEPT ![m] = version[m] + 1], UNCHANGED <<saved, transcript>>,
         Pending' \subseteq Pending \cup {m}, Present' \subseteq Present \cup {m},
         \A n \in MessageId \ {m} : created'[n] = created[n] /\ burst'[n] = burst[n],
         \A n \in Present \ {m} : Recorded(Text(n)) => created'[n] <= created'[m]
  PROVE  /\ LogTypes' /\ LogIsPrefix' /\ LogIsUnique'
         /\ PendingIsFresh' /\ RecordedWasClaimed' /\ SavedInSendOrder' /\ PendingIsLater'
<1>1. version \in [MessageId -> Nat]
  BY DEF Inductive, TypeOK, RowTypes
<1>2. LogTypes' /\ LogIsPrefix' /\ LogIsUnique'
  <2>1. \A n \in MessageId : version'[n] \in Nat /\ version[n] <= version'[n]
    BY <1>1
  <2> QED
    BY <2>1, LogsKept
<1>3. /\ \A n \in MessageId : Recorded(Text(n))' => n # m /\ Recorded(Text(n))
      /\ \A n \in MessageId \ {m} : Text(n)' = Text(n)
  BY NewText
<1>4. Pending \subseteq Present /\ Present \subseteq MessageId
  BY DEF Pending, Queued, InBurst, Present
<1>5. PendingIsFresh' /\ RecordedWasClaimed' /\ PendingIsLater'
  BY <1>3, <1>4 DEF Logged, PendingIsFresh, RecordedWasClaimed, PendingIsLater
<1>6. SavedInSendOrder'
  BY <1>3, <1>4 DEF Logged, SavedInSendOrder, Recorded
<1> QED
  BY <1>2, <1>5, <1>6

\* The times of the rows after an enqueue: the new one's is the latest.
LEMMA EnqueuedLast ==
  ASSUME Inductive, NEW m \in MessageId, NEW interrupt, Enqueue(m, interrupt)
  PROVE  /\ \A n \in MessageId \ {m} : created'[n] = created[n]
         /\ \A n \in MessageId : created'[n] <= created'[m]
<1>1. PICK newest \in {created[n] : n \in MessageId} :
        /\ \A n \in MessageId : created[n] <= newest
        /\ \E t \in {newest, newest + 1} : created' = [created EXCEPT ![m] = t]
  BY DEF Enqueue
<1>2. created \in [MessageId -> Nat] /\ newest \in Nat
  BY <1>1 DEF Inductive, TypeOK, RowTypes
<1> QED
  BY <1>1, <1>2

\* Messages taken by claimBurst are the burst, and none was processing before.
LEMMA ClaimedBurst ==
  ASSUME Inductive, ClaimBurst
  PROVE  /\ InBurst' = Claimable /\ Queued' = Queued \ Claimable
         /\ Claimable \subseteq Queued /\ Pending' = Queued /\ Pending = Queued
         /\ Present' = Present
<1>1. Claimable \subseteq Queued
  BY DEF Claimable
<1>2. active = 0 /\ service # "down" /\ \A m \in MessageId : status[m] # "processing"
  BY DEF ClaimBurst, Inductive, ActiveDuringTurn, TurnPhases, DownIsQuiet, OneActiveBurst
<1>3. status' = [m \in MessageId |-> IF m \in Claimable THEN "processing" ELSE status[m]]
      /\ burst' = [m \in MessageId |-> IF m \in Claimable THEN claims' ELSE burst[m]]
      /\ active' = claims' /\ phase' = "waiting" /\ phase = "starting"
  BY DEF ClaimBurst
<1> HIDE DEF Claimable
<1>4. InBurst' = Claimable /\ Queued' = Queued \ Claimable
  BY <1>1, <1>2, <1>3 DEF InBurst, Queued
<1>5. Pending' = Queued
  BY <1>1, <1>3, <1>4 DEF Pending, Unrecorded
<1>6. Pending = Queued
  BY <1>3 DEF Pending, Unrecorded
<1>7. Present' = Present
  BY <1>1, <1>3 DEF Present, Queued
<1> QED
  BY <1>1, <1>4, <1>5, <1>6, <1>7

\* Nothing is recorded twice, too early or out of order.
LEMMA LoggedStep == Inductive /\ Logged /\ [Next]_vars => Logged'
<1> SUFFICES ASSUME Inductive, Logged, [Next]_vars PROVE Logged'
  OBVIOUS
<1>0. /\ status \in [MessageId -> Statuses] /\ version \in [MessageId -> Nat]
      /\ created \in [MessageId -> Nat] /\ burst \in [MessageId -> Nat]
      /\ active \in Nat /\ claims \in Nat
  BY DEF Inductive, TypeOK, RowTypes, RunTypes
<1> USE DEF rows, files, run, counters, TurnStep
<1>1. CASE QuietStep
  BY <1>1, QuietSteps, QuietIsLogged
<1>2. ASSUME NEW m \in MessageId, NEW interrupt \in BOOLEAN, Enqueue(m, interrupt)
      PROVE  Logged'
  <2>1. /\ version' = [version EXCEPT ![m] = version[m] + 1]
        /\ status' = [status EXCEPT ![m] = "queued"] /\ status[m] = "absent"
        /\ burst' = [burst EXCEPT ![m] = 0]
        /\ UNCHANGED <<saved, transcript, phase, active, editor>>
    BY <1>2 DEF Enqueue
  <2>2. /\ \A n \in MessageId \ {m} : created'[n] = created[n] /\ burst'[n] = burst[n]
        /\ burst'[m] = 0 /\ \A n \in MessageId : created'[n] <= created'[m]
    BY <1>0, <1>2, <2>1, EnqueuedLast
  <2>3. /\ Queued' = Queued \cup {m} /\ InBurst' = InBurst /\ m \notin InBurst
        /\ Present' = Present \cup {m} /\ Pending' \subseteq Pending \cup {m}
    BY <1>0, <2>1, <2>2 DEF Queued, InBurst, Present, Pending, Unrecorded
  <2>4. /\ LogTypes' /\ LogIsPrefix' /\ LogIsUnique'
        /\ PendingIsFresh' /\ RecordedWasClaimed' /\ SavedInSendOrder' /\ PendingIsLater'
    <3>1. \A n \in Present \ {m} : created'[n] <= created'[m]
      BY <2>2 DEF Present
    <3> QED
      BY <2>1, <2>2, <2>3, <3>1, TextChanges
  <2>5. BurstIsPrefix'
    BY <2>1, <2>2, <2>3 DEF Logged, BurstIsPrefix, Queued, InBurst
  <2>6. EditIsCurrent' /\ EditedIsLatest'
    <3>1. EditWorks => editor.message \in MessageId \ {m}
      BY <2>1 DEF EditWorks, Inductive, EditHolds
    <3>2. EditIsCurrent'
      BY <1>0, <2>1, <3>1 DEF Logged, EditIsCurrent, EditWorks
    <3>3. EditedIsLatest'
      BY <2>1, <2>2, <2>3, <3>1 DEF Logged, EditedIsLatest, EditWorks, Present, Before
    <3> QED
      BY <3>2, <3>3
  <2> QED
    BY <2>4, <2>5, <2>6 DEF Logged
<1>3. ASSUME NEW m \in MessageId, UpdateQueued(m) PROVE Logged'
  <2>1. /\ version' = [version EXCEPT ![m] = version[m] + 1] /\ status[m] = "queued"
        /\ UNCHANGED <<status, burst, created, saved, transcript, phase, active, editor>>
    BY <1>3 DEF UpdateQueued
  <2>2. /\ Queued' = Queued /\ InBurst' = InBurst /\ Present' = Present
        /\ Pending' = Pending /\ m \in Pending
    BY <2>1 DEF Queued, InBurst, Present, Pending, Unrecorded
  <2>3. /\ LogTypes' /\ LogIsPrefix' /\ LogIsUnique'
        /\ PendingIsFresh' /\ RecordedWasClaimed' /\ SavedInSendOrder' /\ PendingIsLater'
    <3>1. \A n \in Present \ {m} : Recorded(Text(n)) => created'[n] <= created'[m]
      BY <2>1, <2>2 DEF Logged, PendingIsLater
    <3> QED
      BY <2>1, <2>2, <3>1, TextChanges
  <2>4. BurstIsPrefix'
    BY <2>1, <2>2 DEF Logged, BurstIsPrefix
  <2>5. EditIsCurrent' /\ EditedIsLatest'
    <3>1. EditWorks => editor.message \in MessageId \ {m}
      BY <2>1 DEF EditWorks, Inductive, EditHolds
    <3> QED
      BY <1>0, <2>1, <2>2, <3>1
         DEF Logged, EditIsCurrent, EditedIsLatest, EditWorks, Before
  <2> QED
    BY <2>3, <2>4, <2>5 DEF Logged
<1>4. ASSUME NEW m \in MessageId, RetractQueued(m) PROVE Logged'
  <2>1. /\ status' = [status EXCEPT ![m] = "absent"] /\ status[m] = "queued"
        /\ created' = [created EXCEPT ![m] = 0]
        /\ UNCHANGED <<version, burst, saved, transcript, phase, active, editor>>
    BY <1>4 DEF RetractQueued
  <2>2. /\ Queued' = Queued \ {m} /\ InBurst' = InBurst /\ m \notin InBurst
        /\ Present' = Present \ {m} /\ Pending' \subseteq Pending
    BY <1>0, <2>1 DEF Queued, InBurst, Present, Pending, Unrecorded
  <2>3. \A n \in MessageId \ {m} : created'[n] = created[n]
    BY <1>0, <2>1
  <2>4. PendingIsFresh' /\ RecordedWasClaimed' /\ SavedInSendOrder' /\ PendingIsLater'
    <3>1. \A n \in Present' : created'[n] = created[n]
      BY <2>2, <2>3 DEF Present
    <3> QED
      BY <2>1, <2>2, <3>1, TextsStay
  <2>5. LogTypes' /\ LogIsPrefix' /\ LogIsUnique'
    BY <1>0, <2>1, LogsKept
  <2>6. BurstIsPrefix'
    BY <2>1, <2>2, <2>3 DEF Logged, BurstIsPrefix, InBurst, Queued
  <2>7. EditIsCurrent' /\ EditedIsLatest'
    <3>1. EditWorks => editor.message \in MessageId \ {m}
      BY <2>1 DEF EditWorks, Inductive, EditHolds
    <3> QED
      BY <2>1, <2>2, <2>3, <3>1
         DEF Logged, EditIsCurrent, EditedIsLatest, EditWorks, Before, Present
  <2> QED
    BY <2>4, <2>5, <2>6, <2>7 DEF Logged
<1>5. CASE ClaimBurst
  <2>1. /\ UNCHANGED <<version, created, saved, transcript, editor>> /\ ~held
        /\ burst' = [m \in MessageId |-> IF m \in Claimable THEN claims + 1 ELSE burst[m]]
    BY <1>5 DEF ClaimBurst
  <2>2. LogTypes' /\ LogIsPrefix' /\ LogIsUnique'
    BY <1>0, <2>1, LogsKept
  <2>3. PendingIsFresh' /\ RecordedWasClaimed' /\ SavedInSendOrder' /\ PendingIsLater'
    <3>1. Pending' = Pending /\ Present' = Present
      BY <1>5, ClaimedBurst
    <3>2. \A n \in MessageId : burst[n] # 0 => burst'[n] # 0
      <4> HIDE DEF Claimable
      <4> QED
        BY <1>0, <2>1
    <3> QED
      BY <2>1, <3>1, <3>2, TextsStay
  <2>4. EditIsCurrent' /\ EditedIsLatest'
    BY <2>1 DEF EditIsCurrent, EditedIsLatest, EditWorks, Inductive, EditHolds
  <2>5. BurstIsPrefix'
    BY <1>0, <1>5, <2>1, ClaimedBurst, ClaimIsPrefix, BurstAssumption DEF BurstIsPrefix
  <2> QED
    BY <2>2, <2>3, <2>4, <2>5 DEF Logged
<1>6. CASE Prompt \/ \E result \in Answers :
             PersistSystemExchange(result) \/ EndBeforePrompt(result)
  BY <1>6, BurstRecords
     DEF Prompt, PersistSystemExchange, EndBeforePrompt, Unrecorded, Answered, Answers
<1>7. CASE DirectTurn
  <2>1. /\ Record(<< <<0, 0>> >>)
        /\ UNCHANGED <<status, version, created, burst, active, editor, phase>>
    BY <1>7 DEF DirectTurn
  <2> DEFINE entries == << <<0, 0>> >>
  <2>2. entries \in Seq({<<0, 0>>} \cup {Text(m) : m \in Pending})
        /\ DOMAIN entries = {1} /\ entries[1] = <<0, 0>>
    OBVIOUS
  <2>3. Unrecorded' => Unrecorded
    BY <2>1 DEF Unrecorded
  <2>4. Pending' \subseteq MessageId
    BY DEF Pending, Queued, InBurst
  <2>5. \A m \in MessageId, i \in DOMAIN entries : entries[i] # Text(m)
    BY <2>2, MessageIdAssumption DEF Text
  <2> HIDE DEF entries
  <2>6. \A i, j \in DOMAIN entries : entries[i] = entries[j] /\ entries[i][1] # 0 => i = j
    BY <2>2
  <2>7. Record(entries)
    BY <2>1 DEF entries
  <2> HIDE DEF Record
  <2> QED
    BY <2>1, <2>2, <2>3, <2>4, <2>5, <2>6, <2>7, RecordLogged
<1>8. CASE FinishBurst
  <2>1. UNCHANGED <<version, created, burst, saved, transcript, editor>>
        /\ phase' = "settled" /\ active' = 0
    BY <1>8 DEF FinishBurst
  <2>2. Queued' = Queued /\ Present' = Present
    BY <1>0, <1>8 DEF FinishBurst, Queued, Present, InBurst, Inductive, OutcomeDecided,
       TypeOK, RunTypes, Outcomes
  <2>3. LogTypes' /\ LogIsPrefix' /\ LogIsUnique'
    BY <1>0, <2>1, LogsKept
  <2>4. PendingIsFresh' /\ RecordedWasClaimed' /\ SavedInSendOrder' /\ PendingIsLater'
    <3>1. Pending' \subseteq Pending
      BY <2>1, <2>2 DEF Pending, Unrecorded
    <3> QED
      BY <2>1, <2>2, <3>1, TextsStay
  <2>5. EditIsCurrent' /\ EditedIsLatest' /\ BurstIsPrefix'
    BY <2>1, <2>2
       DEF Logged, EditIsCurrent, EditedIsLatest, EditWorks, BurstIsPrefix, Before
  <2> QED
    BY <2>3, <2>4, <2>5 DEF Logged
<1>9. CASE EditBranches
  <2>1. /\ transcript' = Front(transcript) /\ transcript # << >>
        /\ editor' = [editor EXCEPT !.phase = "committing"] /\ editor.phase = "locking"
        /\ UNCHANGED <<status, version, created, burst, saved, phase, active>>
    BY <1>9 DEF EditBranches
  <2>2. transcript \in Seq(Entries) /\ saved \in Seq(Entries)
    BY DEF Logged, LogTypes, Entries
  <2>3. /\ transcript' \in Seq(Entries) /\ Len(transcript') = Len(transcript) - 1
        /\ \A i \in 1..Len(transcript') : transcript'[i] = transcript[i]
    BY <2>1, <2>2, FrontIs
  <2>4. LogTypes' /\ LogIsPrefix' /\ LogIsUnique'
    BY <2>1, <2>2, <2>3 DEF Logged, LogTypes, LogIsPrefix, LogIsUnique, Entries
  <2>5. /\ Queued' = Queued /\ InBurst' = InBurst /\ Pending' = Pending
        /\ Present' = Present
    BY <2>1 DEF Queued, InBurst, Pending, Unrecorded, Present
  <2>6. PendingIsFresh' /\ RecordedWasClaimed' /\ SavedInSendOrder' /\ PendingIsLater'
    BY <2>1, <2>5, TextsStay
  <2>7. BurstIsPrefix'
    BY <2>1, <2>5 DEF Logged, BurstIsPrefix
  <2>8. EditIsCurrent' /\ EditedIsLatest'
    <3>1. editor'.version = editor.version /\ editor'.message = editor.message
      BY <2>1 DEF Inductive, TypeOK, EditTypes
    <3> QED
      BY <2>1, <2>5, <3>1 DEF Logged, EditIsCurrent, EditedIsLatest, EditWorks, Before
  <2> QED
    BY <2>4, <2>6, <2>7, <2>8 DEF Logged
<1>10. CASE EditCommits
  <2> DEFINE m == editor.message
  <2>1. /\ m \in MessageId /\ active = 0 /\ phase = "none" /\ editor.phase = "committing"
        /\ m \in Present
    BY <1>10 DEF EditCommits, Inductive, EditHolds, EditExcludesBurst, ActiveDuringTurn,
       TurnPhases, Present
  <2>2. /\ version' = [version EXCEPT ![m] = version[m] + 1]
        /\ status' = [status EXCEPT ![m] = "queued"] /\ burst' = [burst EXCEPT ![m] = 0]
        /\ UNCHANGED <<saved, transcript, created, phase, active>>
        /\ editor' = [editor EXCEPT !.phase = "releasing"]
    BY <1>10 DEF EditCommits
  <2>3. ~EditWorks'
    BY <2>2 DEF EditWorks, Inductive, TypeOK, EditTypes
  <2>4. \A n \in Present \ {m} : Recorded(Text(n)) => created[n] <= created[m]
    <3>1. \A n \in Present \ {m} : Recorded(Text(n)) => Before(n, m)
      BY <2>1 DEF Logged, EditedIsLatest, EditWorks, RecordedWasClaimed, Present
    <3> QED
      BY <1>0, <2>1, <3>1, BeforeIsTotal DEF Present
  <2> HIDE DEF m
  <2>5. /\ Present' = Present /\ Pending' \subseteq Pending \cup {m}
    BY <1>0, <2>1, <2>2 DEF Queued, Pending, Present, Unrecorded
  <2>6. \A n \in MessageId \ {m} : created'[n] = created[n] /\ burst'[n] = burst[n]
    BY <1>0, <2>2
  <2>7. /\ LogTypes' /\ LogIsPrefix' /\ LogIsUnique'
        /\ PendingIsFresh' /\ RecordedWasClaimed' /\ SavedInSendOrder' /\ PendingIsLater'
    BY <2>1, <2>2, <2>4, <2>5, <2>6, TextChanges
  <2>8. EditIsCurrent' /\ EditedIsLatest' /\ BurstIsPrefix'
    BY <2>1, <2>2, <2>3 DEF EditIsCurrent, EditedIsLatest, BurstIsPrefix
  <2> QED
    BY <2>7, <2>8 DEF Logged
<1>11. CASE Start
  <2>1. /\ UNCHANGED <<version, created, burst, saved, transcript, editor, phase, active>>
        /\ phase = "none" /\ active = 0 /\ editor = NoEdit
    BY <1>11 DEF Start, Inductive, DownIsQuiet, ActiveDuringTurn, TurnPhases
  <2>2. Queued' = Queued /\ Present' = Present
    BY <1>0, <1>11 DEF Start, Queued, Present
  <2>3. LogTypes' /\ LogIsPrefix' /\ LogIsUnique'
    BY <1>0, <2>1, LogsKept
  <2>4. PendingIsFresh' /\ RecordedWasClaimed' /\ SavedInSendOrder' /\ PendingIsLater'
    <3>1. Pending' \subseteq Pending
      BY <2>1, <2>2 DEF Pending, Unrecorded
    <3> QED
      BY <2>1, <2>2, <3>1, TextsStay
  <2>5. EditIsCurrent' /\ EditedIsLatest' /\ BurstIsPrefix'
    BY <2>1 DEF EditIsCurrent, EditedIsLatest, EditWorks, BurstIsPrefix, NoEdit
  <2> QED
    BY <2>3, <2>4, <2>5 DEF Logged
<1>12. CASE Crash
  <2>1. /\ UNCHANGED <<status, version, created, burst, saved>>
        /\ transcript' = saved /\ phase' = "none" /\ active' = 0 /\ editor' = NoEdit
    BY <1>12 DEF Crash
  <2>2. saved \in Seq(Entries)
    BY DEF Logged, LogTypes, Entries
  <2>3. LogTypes' /\ LogIsPrefix' /\ LogIsUnique'
    BY <2>1, <2>2 DEF Logged, LogTypes, LogIsPrefix, LogIsUnique, Entries
  <2>4. PendingIsFresh' /\ RecordedWasClaimed' /\ SavedInSendOrder' /\ PendingIsLater'
    <3>1. Pending' \subseteq Pending /\ Present' = Present
      BY <2>1 DEF Pending, Present, Queued, Unrecorded
    <3> QED
      BY <2>1, <3>1, TextsStay
  <2>5. EditIsCurrent' /\ EditedIsLatest' /\ BurstIsPrefix'
    BY <2>1 DEF EditIsCurrent, EditedIsLatest, EditWorks, BurstIsPrefix, NoEdit
  <2> QED
    BY <2>3, <2>4, <2>5 DEF Logged
<1> QED
  BY <1>1, <1>2, <1>3, <1>4, <1>5, <1>6, <1>7, <1>8, <1>9, <1>10, <1>11, <1>12
     DEF Next, Request, Progress, QuietStep

\* A step that writes nothing and answers nothing but what is recorded loses nothing.
LEMMA KeptStays ==
  ASSUME Kept, UNCHANGED <<version, saved, transcript, editor>>, ~Answered',
         \A m \in MessageId : status'[m] = "completed" =>
           status[m] = "completed" \/ (Answered /\ m \in InBurst)
  PROVE  Kept'
<1>1. \A m : Text(m)' = Text(m) /\ (Recorded(Text(m))' <=> Recorded(Text(m)))
  BY DEF Text, Recorded
<1> QED
  BY <1>1 DEF Kept, TailIsReplaced, CompletedIsSaved

\* Nothing answered is lost, if texts are told apart.
LEMMA KeptStep ==
  Alike = {} /\ Inductive /\ Logged /\ Kept /\ [Next]_vars => Kept'
<1> SUFFICES ASSUME Alike = {}, Inductive, Logged, Kept, [Next]_vars PROVE Kept'
  OBVIOUS
<1>1. /\ status \in [MessageId -> Statuses] /\ version \in [MessageId -> Nat]
      /\ InBurst \subseteq MessageId
  BY DEF Inductive, TypeOK, RowTypes, InBurst
<1> USE DEF rows, files, run, counters, TurnStep
<1>2. CASE QuietStep
  BY <1>2, QuietSteps, QuietIsKept
<1>3. ASSUME NEW m \in MessageId, NEW b,
             version' = [version EXCEPT ![m] = version[m] + 1],
             UNCHANGED <<saved, transcript, phase, active, outcome>>,
             editor.phase = "committing" =>
               m = editor.message \/ editor' = editor,
             status[m] # "processing",
             status' = [status EXCEPT ![m] = "queued"], burst' = [burst EXCEPT ![m] = b]
      PROVE  Kept'
  <2>1. /\ \A n \in MessageId : Recorded(Text(n))' => n # m /\ Recorded(Text(n))
        /\ \A n \in MessageId \ {m} : Text(n)' = Text(n)
    BY <1>3, NewText
  <2>2. \A n \in MessageId \ {m} : Recorded(Text(n)) => Recorded(Text(n))'
    BY <1>3, <2>1 DEF Recorded
  <2>3. InBurst' \subseteq InBurst \ {m}
    BY <1>1, <1>3 DEF InBurst, Inductive, TypeOK, RowTypes
  <2>4. TailIsReplaced'
    BY <1>3, <2>1 DEF Kept, TailIsReplaced, Recorded
  <2>5. CompletedIsSaved'
    BY <1>1, <1>3, <2>2, <2>3 DEF Kept, CompletedIsSaved, Answered
  <2> QED
    BY <2>4, <2>5 DEF Kept
<1>4. ASSUME NEW m \in MessageId, NEW interrupt \in BOOLEAN, Enqueue(m, interrupt)
      PROVE  Kept'
  <2>1. status[m] = "absent"
    BY <1>4 DEF Enqueue
  <2> QED
    BY <1>3, <1>4, <2>1 DEF Enqueue
<1>5. ASSUME NEW m \in MessageId, UpdateQueued(m) PROVE Kept'
  <2>1. /\ status[m] = "queued"
        /\ version' = [version EXCEPT ![m] = version[m] + 1]
        /\ UNCHANGED <<status, burst, saved, transcript, phase, active, outcome, editor>>
    BY <1>5 DEF UpdateQueued
  <2>2. status' = [status EXCEPT ![m] = "queued"] /\ burst' = [burst EXCEPT ![m] = burst[m]]
    BY <1>1, <2>1 DEF Inductive, TypeOK, RowTypes
  <2> QED
    BY <1>3, <2>1, <2>2
<1>6. CASE EditCommits
  <2>1. /\ editor.message \in MessageId /\ status[editor.message] # "processing"
    BY <1>6 DEF EditCommits, Inductive, EditHolds, EditExcludesBurst
  <2> QED
    BY <1>3, <1>6, <2>1 DEF EditCommits
<1>7. CASE Prompt \/ \E result \in Answers :
             PersistSystemExchange(result) \/ EndBeforePrompt(result)
  BY <1>7, BurstRecords
     DEF Prompt, PersistSystemExchange, EndBeforePrompt, Unrecorded, Answered, Answers
<1>8. CASE DirectTurn
  <2>1. /\ Record(<< <<0, 0>> >>) /\ << <<0, 0>> >> \in Seq(Entries)
        /\ UNCHANGED <<status, version, burst, active, phase, outcome>>
    BY <1>8 DEF DirectTurn, Entries
  <2>2. editor.phase # "committing"
    BY <1>8 DEF DirectTurn, Inductive, HolderIsInside, EditHasLock
  <2>3. Answered' => Answered
    BY <2>1 DEF Answered
  <2> HIDE DEF Record
  <2> QED
    BY <2>1, <2>2, <2>3, RecordKept
<1>9. ASSUME NEW m \in MessageId, RetractQueued(m) PROVE Kept'
  <2>1. /\ status' = [status EXCEPT ![m] = "absent"] /\ status[m] = "queued"
        /\ UNCHANGED <<version, burst, saved, transcript, phase, active, outcome, editor>>
    BY <1>9 DEF RetractQueued
  <2>2. /\ \A n : Text(n)' = Text(n) /\ (Recorded(Text(n))' <=> Recorded(Text(n)))
        /\ InBurst' = InBurst
    BY <1>1, <2>1 DEF Text, Recorded, InBurst
  <2> QED
    BY <1>1, <2>1, <2>2 DEF Kept, TailIsReplaced, CompletedIsSaved, Answered
<1>10. CASE ClaimBurst
  <2>1. UNCHANGED <<version, saved, transcript, editor>> /\ ~Answered'
    BY <1>10 DEF ClaimBurst, Answered
  <2>2. \A m \in MessageId : status'[m] = "completed" => status[m] = "completed"
    BY <1>10 DEF ClaimBurst
  <2> QED
    BY KeptStays, <2>1, <2>2
<1>11. CASE FinishBurst
  <2> DEFINE final == IF outcome # "thrown" THEN outcome
                      ELSE IF aborted THEN "cancelled" ELSE "failed"
  <2>1. /\ UNCHANGED <<version, saved, transcript, editor>>
        /\ phase' = "settled" /\ outcome' = "none"
        /\ status' = [m \in MessageId |-> IF m \in InBurst THEN final ELSE status[m]]
    BY <1>11 DEF FinishBurst
  <2>2. final = "completed" => Answered
    BY DEF Answered
  <2> HIDE DEF final
  <2>3. \A m \in MessageId : status'[m] = "completed" =>
          status[m] = "completed" \/ (Answered /\ m \in InBurst)
    <3> TAKE m \in MessageId
    <3>1. CASE m \in InBurst
      <4>1. status'[m] = final
        BY <2>1, <3>1
      <4> QED
        BY <2>2, <3>1, <4>1
    <3>2. CASE m \notin InBurst
      <4>1. status'[m] = status[m]
        BY <2>1, <3>2
      <4> QED
        BY <4>1
    <3> QED
      BY <3>1, <3>2
  <2>4. ~Answered'
    BY <2>1 DEF Answered
  <2> QED
    BY KeptStays, <2>1, <2>3, <2>4
<1>12. CASE Start
  <2>1. phase = "none" /\ outcome = "none"
    BY <1>12 DEF Start, Inductive, DownIsQuiet, OutcomeDecided
  <2>2. UNCHANGED <<version, saved, transcript, editor>> /\ ~Answered'
    BY <1>12, <2>1 DEF Start, Answered
  <2>3. \A m \in MessageId : status'[m] = "completed" => status[m] = "completed"
    BY <1>12 DEF Start
  <2> QED
    BY KeptStays, <2>2, <2>3
<1>13. CASE EditBranches
  <2> DEFINE e == editor.message
  <2>1. /\ transcript' = Front(transcript) /\ transcript # << >>
        /\ SameText(Last(transcript), <<editor.message, editor.version>>)
        /\ editor' = [editor EXCEPT !.phase = "committing"] /\ editor.phase = "locking"
        /\ UNCHANGED <<status, version, burst, saved, phase, active, outcome>>
    BY <1>13 DEF EditBranches
  <2>2. transcript \in Seq(Entries) /\ saved \in Seq(Entries) /\ LogIsPrefix
    BY DEF Logged, LogTypes, Entries
  <2>3. Len(transcript') = Len(transcript) - 1 /\ Len(transcript) \in Nat \ {0}
        /\ Last(transcript) = transcript[Len(transcript)]
    BY <2>1, <2>2, FrontIs
  <2>4. editor.version = version[e]
    BY <2>1 DEF Logged, EditIsCurrent, EditWorks
  <2>5. editor'.phase = "committing" /\ editor'.message = e
    BY <2>1 DEF Inductive, TypeOK, EditTypes
  <2>6. saved[Len(transcript)] = Text(e)
    <3>1. Last(transcript) = <<e, version[e]>>
      BY <2>1, <2>4 DEF SameText
    <3>2. Len(transcript) \in 1..Len(transcript)
      BY <2>3
    <3> QED
      BY <2>2, <2>3, <3>1, <3>2 DEF LogIsPrefix, Text
  <2> HIDE DEF e
  <2>7. /\ InBurst' = InBurst
        /\ \A n : Text(n)' = Text(n) /\ (Recorded(Text(n))' <=> Recorded(Text(n)))
    BY <2>1 DEF InBurst, Recorded, Text
  <2>8. \A j \in DOMAIN saved : \A n \in MessageId :
          ~(saved[j] = Text(n) /\ j > Len(transcript))
    BY <2>1 DEF Kept, TailIsReplaced
  <2>9. TailIsReplaced'
    <3> SUFFICES ASSUME NEW j \in DOMAIN saved, NEW n \in MessageId, saved[j] = Text(n),
                        j > Len(transcript')
                 PROVE  n = e
      BY <2>1, <2>5, <2>7 DEF TailIsReplaced
    <3>1. j = Len(transcript)
      BY <2>2, <2>3, <2>8
    <3> QED
      BY <2>6, <3>1 DEF Text
  <2>10. CompletedIsSaved'
    BY <2>1, <2>7 DEF Kept, CompletedIsSaved, Answered
  <2> QED
    BY <2>9, <2>10 DEF Kept
<1>14. CASE Crash
  <2>1. /\ UNCHANGED <<status, version, saved>> /\ outcome' = "none"
        /\ transcript' = saved /\ phase' = "none"
    BY <1>14 DEF Crash
  <2>2. \A n : Text(n)' = Text(n) /\ (Recorded(Text(n))' <=> Recorded(Text(n)))
    BY <2>1 DEF Recorded, Text
  <2>3. saved \in Seq(Entries)
    BY DEF Logged, LogTypes, Entries
  <2>4. TailIsReplaced'
    BY <2>1, <2>3 DEF TailIsReplaced
  <2>5. CompletedIsSaved'
    BY <2>1, <2>2 DEF Kept, CompletedIsSaved, Answered
  <2> QED
    BY <2>4, <2>5 DEF Kept
<1> QED
  BY <1>2, <1>4, <1>5, <1>6, <1>7, <1>8, <1>9, <1>10, <1>11, <1>12, <1>13, <1>14
     DEF Next, Request, Progress, QuietStep

\* A session without messages has recorded none.
LEMMA InitLogged == Init => Logged /\ Kept
<1> SUFFICES ASSUME Init PROVE Logged /\ Kept
  OBVIOUS
<1> USE DEF Init, NoEdit
<1>1. saved = << >> /\ transcript = << >> /\ Len(<< >>) = 0 /\ DOMAIN << >> = {}
  OBVIOUS
<1>2. /\ Queued = {} /\ Present = {} /\ Pending = {} /\ InBurst = {}
      /\ \A m : ~Recorded(Text(m))
  BY <1>1 DEF Queued, Present, Pending, InBurst, Recorded
<1>3. << >> \in Seq({<<0, 0>>} \cup (MessageId \X Nat))
  OBVIOUS
<1>4. LogTypes /\ LogIsPrefix /\ LogIsUnique
  BY <1>1, <1>3 DEF LogTypes, LogIsPrefix, LogIsUnique
<1>5. Logged
  BY <1>1, <1>2, <1>4 DEF Logged, PendingIsFresh, BurstIsPrefix, RecordedWasClaimed,
     EditedIsLatest, EditIsCurrent, EditWorks, SavedInSendOrder, PendingIsLater
<1>6. Kept
  BY <1>1, <1>2 DEF Kept, TailIsReplaced, CompletedIsSaved, Answered
<1> QED
  BY <1>5, <1>6

\* The second invariant holds throughout.
LEMMA LoggedHolds == Spec => []Logged
<1>1. Init => Logged
  BY InitLogged
<1>2. Inductive /\ Logged /\ [Next]_vars => Logged'
  BY LoggedStep
<1> QED
  BY <1>1, <1>2, InductiveHolds, PTL DEF Spec

\* The third too, of texts that can be told apart.
LEMMA KeptHolds == ASSUME Alike = {} PROVE Spec => []Kept
<1>1. Init => Kept
  BY InitLogged
<1>2. Inductive /\ Logged /\ Kept /\ [Next]_vars => Kept'
  BY KeptStep
<1> QED
  BY <1>1, <1>2, InductiveHolds, LoggedHolds, PTL DEF Spec

\* The branch in use is part of the file's.
LEMMA InUseIsSaved ==
  ASSUME Logged
  PROVE  /\ \A i \in DOMAIN transcript : i \in DOMAIN saved /\ saved[i] = transcript[i]
         /\ \A i \in DOMAIN saved : i <= Len(transcript) =>
              i \in DOMAIN transcript /\ saved[i] = transcript[i]
<1>1. transcript \in Seq(Entries) /\ saved \in Seq(Entries)
  BY DEF Logged, LogTypes, Entries
<1> QED
  BY <1>1 DEF Logged, LogIsPrefix

\* No text of the user is in the conversation twice, whatever was retried, edited,
\* interrupted or flushed again.
THEOREM TextsAreRecordedOnce == Spec => []NoDuplicateInput
<1>1. Logged => NoDuplicateInput
  <2> SUFFICES ASSUME Logged PROVE NoDuplicateInput
    OBVIOUS
  <2>1. LogIsUnique
    BY DEF Logged
  <2> QED
    BY <2>1, InUseIsSaved DEF NoDuplicateInput, LogIsUnique
<1> QED
  BY <1>1, LoggedHolds, PTL

\* A message that waits can still be changed without a trace.
THEOREM WaitingIsUnrecorded == Spec => []QueuedNotRecorded
<1>1. Logged => QueuedNotRecorded
  <2> SUFFICES ASSUME Logged, NEW m \in Queued, NEW i \in DOMAIN transcript,
                      transcript[i] = Text(m)
               PROVE  FALSE
    BY DEF QueuedNotRecorded
  <2>1. ~Recorded(Text(m))
    BY DEF Logged, PendingIsFresh, Pending
  <2> QED
    BY <2>1, InUseIsSaved DEF Recorded
<1> QED
  BY <1>1, LoggedHolds, PTL

\* The conversation has the user's current texts in the order of sending.
THEOREM SendOrderIsKept == Spec => []RecordedInSendOrder
<1>1. Logged => RecordedInSendOrder
  <2> SUFFICES ASSUME Logged PROVE RecordedInSendOrder
    OBVIOUS
  <2>1. SavedInSendOrder
    BY DEF Logged
  <2> QED
    BY <2>1, InUseIsSaved DEF RecordedInSendOrder, SavedInSendOrder
<1> QED
  BY <1>1, LoggedHolds, PTL

\* What the user sees as completed is in the conversation, if no two messages have
\* the same text.
THEOREM CompletedIsRecorded == ASSUME Alike = {} PROVE Spec => []CompletedRecorded
<1>1. Logged /\ Kept => CompletedRecorded
  <2> SUFFICES ASSUME Logged, Kept, NEW m \in MessageId, status[m] = "completed",
                      ~(editor.phase = "committing" /\ editor.message = m)
               PROVE  \E i \in DOMAIN transcript : transcript[i] = Text(m)
    BY DEF CompletedRecorded
  <2>1. PICK i \in DOMAIN saved : saved[i] = Text(m)
    BY DEF Kept, CompletedIsSaved, Recorded
  <2>2. ~(i > Len(transcript))
    BY <2>1 DEF Kept, TailIsReplaced
  <2>3. i <= Len(transcript)
    <3>1. transcript \in Seq(Entries) /\ saved \in Seq(Entries)
      BY DEF Logged, LogTypes, Entries
    <3> QED
      BY <2>2, <3>1
  <2> QED
    BY <2>1, <2>3, InUseIsSaved
<1> QED
  BY <1>1, LoggedHolds, KeptHolds, PTL
=============================================================================
