--------------------- MODULE HeadlessIdempotencyProofs ---------------------
(***************************************************************************)
(* Proofs about HeadlessIdempotency for any requests, keys, fingerprints,  *)
(* sizes and limits, and any clients that hang up: first whose answer a    *)
(* request gets, then the order of the cache and the account of its bytes. *)
(***************************************************************************)
EXTENDS HeadlessIdempotency, FiniteSetTheorems, WellFoundedInduction, TLAPS

-----------------------------------------------------------------------------
(* The inductive invariant.                                                *)

Entry == [state : {"pending", "completed"}, by : Request, at : Nat, bytes : Nat]

Typed ==
  /\ now \in Nat
  /\ stage \in [Request -> Stages]
  /\ awaits \in [Request -> Request \cup {Nobody}]
  /\ answer \in [Request -> Request \cup {Nobody}]
  /\ entry \in [Key -> Entry \cup {NoEntry}]

\* What each entry of the cache says of the request that put it there.
EntryIsOf(e, k, stages) ==
  /\ e.state = "pending" => KeyOf[e.by] = k /\ stages[e.by] \in {"running", "ended"}
  /\ e.state = "completed" => KeyOf[e.by] = k /\ stages[e.by] = "executed"

EntriesDescribed == \A k \in Key : EntryIsOf(entry[k], k, stage)

\* WaitersAwaitTheEntry, of a request.
WaitersAwaitRequests == \A r \in Request : stage[r] = "waiting" => awaits[r] \in Request

\* Whoever was answered from the cache was answered by a request.
RepliesAreOfRequests == \A r \in Request : stage[r] = "replayed" => answer[r] \in Request

Inductive ==
  /\ Typed /\ EntriesDescribed
  /\ WaitersAwaitRequests /\ WaitersAwaitTheEntry
  /\ RepliesAreOfRequests /\ ReplayIsOfTheSameRequest

-----------------------------------------------------------------------------
(* The cache.                                                              *)

\* Only answers are evicted.
LEMMA EvictedAreCompleted ==
  ASSUME NEW entries, NEW bytes
  PROVE  \A k \in Evicted(entries, bytes) : entries[k].state = "completed"
  BY DEF Evicted

\* An entry is pending or completed, or there is none.
LEMMA EntryStates ==
  ASSUME Typed, NEW k \in Key
  PROVE  /\ entry[k] \in Entry \/ entry[k] = NoEntry
         /\ entry[k] = NoEntry => entry[k].state = "none"
         /\ entry[k] # NoEntry => entry[k].state \in {"pending", "completed"} /\ entry[k].by \in Request
  BY DEF Typed, Entry, NoEntry

\* Pruning takes answers only.
LEMMA Pruned ==
  ASSUME Typed, NEW k \in Key
  PROVE  /\ PruneExpired.entry \in [Key -> Entry \cup {NoEntry}]
         /\ PruneExpired.entry[k] \in {entry[k], NoEntry}
         /\ entry[k].state = "pending" => PruneExpired.entry[k] = entry[k]
         /\ PruneExpired.entry[k].state = "completed" =>
              PruneExpired.entry[k] = entry[k] /\ k \notin Expired
<1> DEFINE pruned == [j \in Key |-> IF j \in Expired THEN NoEntry ELSE entry[j]]
<1>1. PruneExpired.entry = pruned
  BY DEF PruneExpired
<1>2. pruned \in [Key -> Entry \cup {NoEntry}]
  BY DEF Typed
<1>3. pruned[k] = IF k \in Expired THEN NoEntry ELSE entry[k]
  OBVIOUS
<1>4. entry[k].state = "pending" => k \notin Expired
  BY DEF Expired, IsCompleted
<1>5. NoEntry.state # "completed"
  BY DEF NoEntry
<1> HIDE DEF pruned
<1> QED
  BY <1>1, <1>2, <1>3, <1>4, <1>5

\* Requests that are being executed or have ended are where they were, whoever is woken.
LEMMA Woken ==
  ASSUME Typed, NEW r \in Request, stage[r] \in {"running", "ended"},
         NEW to \in {"executed", "running", "ended"}, Resolve(r, to)
  PROVE  /\ stage' \in [Request -> Stages]
         /\ stage'[r] = to
         /\ \A s \in Request \ {r} :
              /\ stage[s] # "waiting" => stage'[s] = stage[s]
              /\ stage[s] = "waiting" /\ awaits[s] # r => stage'[s] = "waiting"
              /\ stage[s] = "waiting" /\ awaits[s] = r => stage'[s] = "looking"
<1>1. stage' \in [Request -> Stages]
  BY DEF Resolve, Typed, Stages
<1> QED
  BY <1>1 DEF Resolve

-----------------------------------------------------------------------------
(* The steps.                                                              *)

\* A step after which the requests other than r have moved only from waiting to
\* looking, and r has moved on without being answered from the cache.
Moved(r) ==
  /\ stage' \in [Request -> Stages]
  /\ stage'[r] # "replayed"
  /\ stage[r] \notin {"executed", "replayed"}
  /\ \A s \in Request \ {r} :
       stage'[s] = stage[s] \/ (stage[s] = "waiting" /\ stage'[s] = "looking")

LEMMA RepliesKept ==
  ASSUME Inductive, NEW r \in Request, Moved(r),
         \A s \in Request \ {r} : answer'[s] = answer[s]
  PROVE  RepliesAreOfRequests' /\ ReplayIsOfTheSameRequest'
<1>1. ASSUME NEW s \in Request, stage'[s] = "replayed"
      PROVE  s # r /\ stage[s] = "replayed" /\ answer'[s] = answer[s] /\ answer[s] \in Request
  BY <1>1 DEF Moved, Inductive, RepliesAreOfRequests
<1>2. \A s \in Request : stage[s] = "executed" => stage'[s] = "executed"
  BY DEF Moved
<1>3. RepliesAreOfRequests'
  BY <1>1 DEF RepliesAreOfRequests
<1>4. ReplayIsOfTheSameRequest'
  <2> SUFFICES ASSUME NEW s \in Request, stage'[s] = "replayed"
               PROVE  /\ answer'[s] # s /\ stage'[answer'[s]] = "executed"
                      /\ KeyOf[answer'[s]] = KeyOf[s] /\ Payload[answer'[s]] = Payload[s]
    BY DEF ReplayIsOfTheSameRequest
  <2>1. /\ answer[s] # s /\ stage[answer[s]] = "executed"
        /\ KeyOf[answer[s]] = KeyOf[s] /\ Payload[answer[s]] = Payload[s]
    BY <1>1 DEF Inductive, ReplayIsOfTheSameRequest
  <2> QED
    BY <1>1, <1>2, <2>1
<1> QED
  BY <1>3, <1>4

\* Nothing of the cache or of the waiters changes but the stage of r, who has no entry.
LEMMA AloneKept ==
  ASSUME Inductive, NEW r \in Request, Moved(r), stage'[r] # "waiting",
         ~Owns(r) \/ stage'[r] \in {"running", "ended"},
         stage[r] \notin {"running", "ended"} \/ stage'[r] \in {"running", "ended", "executed"},
         \A s \in Request \ {r} : stage'[s] = stage[s],
         UNCHANGED <<entry, awaits>>
  PROVE  EntriesDescribed' /\ WaitersAwaitRequests' /\ WaitersAwaitTheEntry'
<1> USE DEF Inductive
<1>1. ASSUME NEW k \in Key PROVE EntryIsOf(entry[k], k, stage')
  <2>1. EntryIsOf(entry[k], k, stage)
    BY DEF EntriesDescribed
  <2>2. CASE entry[k] = NoEntry
    BY <2>2 DEF EntryIsOf, NoEntry
  <2>3. CASE entry[k] # NoEntry /\ entry[k].by # r
    BY <2>1, <2>3, EntryStates DEF EntryIsOf
  <2>4. CASE entry[k] # NoEntry /\ entry[k].by = r
    <3>1. KeyOf[r] = k /\ entry[k].state = "pending"
      BY <2>1, <2>4, EntryStates DEF EntryIsOf, Moved
    <3> QED
      BY <2>4, <3>1 DEF EntryIsOf, Owns
  <2> QED
    BY <2>2, <2>3, <2>4
<1>2. EntriesDescribed'
  BY <1>1 DEF EntriesDescribed, EntryIsOf
<1>3. \A s \in Request : stage'[s] = "waiting" => stage[s] = "waiting"
  BY DEF Moved
<1> QED
  BY <1>2, <1>3 DEF WaitersAwaitRequests, WaitersAwaitTheEntry, Owns

LEMMA StepArrive ==
  ASSUME Inductive, NEW r \in Request, Arrive(r)
  PROVE  Inductive'
<1>1. Moved(r) /\ stage'[r] # "waiting" /\ \A s \in Request \ {r} : stage'[s] = stage[s]
  BY DEF Arrive, Moved, Inductive, Typed, Stages
<1>2. Typed'
  BY <1>1 DEF Arrive, Moved, Inductive, Typed
<1>3. ~Owns(r)
  BY RequestAssumption DEF Arrive, Owns, Inductive, EntriesDescribed, EntryIsOf
<1>4. EntriesDescribed' /\ WaitersAwaitRequests' /\ WaitersAwaitTheEntry'
  BY <1>1, <1>3, AloneKept DEF Arrive
<1>5. RepliesAreOfRequests' /\ ReplayIsOfTheSameRequest'
  BY <1>1, RepliesKept DEF Arrive
<1> QED
  BY <1>2, <1>4, <1>5 DEF Inductive

LEMMA StepSendEmpty ==
  ASSUME Inductive, NEW r \in Request, SendEmpty(r)
  PROVE  Inductive'
<1>1. Moved(r) /\ stage'[r] = "ended" /\ \A s \in Request \ {r} : stage'[s] = stage[s]
  BY DEF SendEmpty, Moved, Inductive, Typed, Stages
<1>2. Typed'
  BY <1>1 DEF SendEmpty, Moved, Inductive, Typed
<1>3. EntriesDescribed' /\ WaitersAwaitRequests' /\ WaitersAwaitTheEntry'
  BY <1>1, AloneKept DEF SendEmpty
<1>4. \A s \in Request \ {r} : answer'[s] = answer[s]
  BY DEF SendEmpty, Inductive, Typed
<1>5. RepliesAreOfRequests' /\ ReplayIsOfTheSameRequest'
  BY <1>1, <1>4, RepliesKept
<1> QED
  BY <1>2, <1>3, <1>5 DEF Inductive

\* The entry of r, who holds its key, gives way to what the cache then has for the
\* key; of the others only answers are dropped, and those who wait for r look again.
LEMMA Released ==
  ASSUME Inductive, NEW r \in Request, Owns(r), stage[r] \in {"running", "ended"},
         NEW to \in {"executed", "running", "ended"}, Resolve(r, to),
         entry' \in [Key -> Entry \cup {NoEntry}],
         \A k \in Key : \/ entry'[k] = NoEntry
                        \/ k # KeyOf[r] /\ entry'[k] = entry[k]
                        \/ k = KeyOf[r] /\ to = "executed" /\ entry'[k].by = r
                             /\ entry'[k].state = "completed",
         \A k \in Key \ {KeyOf[r]} : entry[k].state = "pending" => entry'[k] = entry[k],
         UNCHANGED awaits
  PROVE  Moved(r) /\ EntriesDescribed' /\ WaitersAwaitRequests' /\ WaitersAwaitTheEntry'
<1> USE DEF Inductive
<1>1. /\ stage' \in [Request -> Stages] /\ stage'[r] = to
      /\ \A s \in Request \ {r} :
           /\ stage[s] # "waiting" => stage'[s] = stage[s]
           /\ stage[s] = "waiting" /\ awaits[s] # r => stage'[s] = "waiting"
           /\ stage[s] = "waiting" /\ awaits[s] = r => stage'[s] = "looking"
  BY Woken
<1>2. Moved(r)
  BY <1>1 DEF Moved
<1>3. KeyOf[r] \in Key
  BY RequestAssumption
<1>4. ASSUME NEW k \in Key PROVE EntryIsOf(entry'[k], k, stage')
  <2>1. CASE entry'[k] = NoEntry
    BY <2>1 DEF EntryIsOf, NoEntry
  <2>2. CASE entry'[k] # NoEntry /\ k # KeyOf[r] /\ entry'[k] = entry[k]
    <3>1. EntryIsOf(entry[k], k, stage) /\ entry[k].by \in Request
            /\ entry[k].state \in {"pending", "completed"}
      BY <2>2, EntryStates DEF EntriesDescribed
    <3>2. entry[k].by # r
      BY <2>2, <3>1 DEF EntryIsOf
    <3>3. stage'[entry[k].by] = stage[entry[k].by]
      BY <1>1, <3>1, <3>2 DEF EntryIsOf
    <3> QED
      BY <2>2, <3>1, <3>3 DEF EntryIsOf
  <2>3. CASE k = KeyOf[r] /\ to = "executed" /\ entry'[k].by = r /\ entry'[k].state = "completed"
    BY <1>1, <2>3 DEF EntryIsOf
  <2> QED
    BY <2>1, <2>2, <2>3
<1>5. EntriesDescribed'
  BY <1>4 DEF EntriesDescribed, EntryIsOf
<1>6. ASSUME NEW s \in Request, stage'[s] = "waiting"
      PROVE  /\ awaits[s] \in Request /\ entry'[KeyOf[awaits[s]]].state = "pending"
             /\ entry'[KeyOf[awaits[s]]].by = awaits[s] /\ KeyOf[awaits[s]] = KeyOf[s]
  <2>1. stage[s] = "waiting" /\ awaits[s] # r
    BY <1>1, <1>6
  <2>2. awaits[s] \in Request /\ Owns(awaits[s]) /\ KeyOf[awaits[s]] = KeyOf[s]
    BY <2>1 DEF WaitersAwaitRequests, WaitersAwaitTheEntry
  <2>3. KeyOf[awaits[s]] \in Key /\ KeyOf[awaits[s]] # KeyOf[r]
    BY <2>1, <2>2, RequestAssumption DEF Owns
  <2> QED
    BY <2>2, <2>3 DEF Owns
<1>7. WaitersAwaitRequests' /\ WaitersAwaitTheEntry'
  BY <1>6 DEF WaitersAwaitRequests, WaitersAwaitTheEntry, Owns
<1> QED
  BY <1>2, <1>5, <1>7

\* What an answer does, its handler or its response being at its end.
LEMMA StepComplete ==
  ASSUME Inductive, NEW r \in Request, stage[r] \in {"running", "ended"},
         NEW bytes \in Nat, Complete(r, bytes), UNCHANGED <<now, awaits>>
  PROVE  /\ Moved(r) /\ stage' \in [Request -> Stages] /\ entry' \in [Key -> Entry \cup {NoEntry}]
         /\ EntriesDescribed' /\ WaitersAwaitRequests' /\ WaitersAwaitTheEntry'
<1> DEFINE k == KeyOf[r]
           entries == [entry EXCEPT ![k] = Completed(r, bytes)]
           gone == Evicted(entries, cachedBytes + bytes)
<1>1. k \in Key /\ Typed
  BY RequestAssumption DEF Inductive
<1>2. entry \in [Key -> Entry \cup {NoEntry}]
  BY <1>1 DEF Typed
<1>3. CASE ~Owns(r) /\ stage' = [stage EXCEPT ![r] = "executed"] /\ UNCHANGED entry
  <2>1. Moved(r) /\ stage'[r] = "executed" /\ \A s \in Request \ {r} : stage'[s] = stage[s]
    BY <1>1, <1>3 DEF Moved, Typed, Stages
  <2>2. EntriesDescribed' /\ WaitersAwaitRequests' /\ WaitersAwaitTheEntry'
    BY <1>3, <2>1, AloneKept
  <2> QED
    BY <1>2, <1>3, <2>1, <2>2 DEF Moved
<1>4. CASE Owns(r) /\ entry' = [entry EXCEPT ![k] = NoEntry] /\ Resolve(r, "executed")
  <2>1. entry' \in [Key -> Entry \cup {NoEntry}]
    BY <1>2, <1>4
  <2>2. entry'[k] = NoEntry /\ \A j \in Key \ {k} : entry'[j] = entry[j]
    BY <1>1, <1>2, <1>4
  <2>3. Moved(r) /\ EntriesDescribed' /\ WaitersAwaitRequests' /\ WaitersAwaitTheEntry'
    BY <1>4, <2>1, <2>2, Released
  <2> QED
    BY <2>1, <2>3 DEF Moved
<1>5. CASE /\ Owns(r) /\ Resolve(r, "executed")
           /\ entry' = [j \in Key |-> IF j \in gone THEN NoEntry ELSE entries[j]]
  <2>1. Completed(r, bytes) \in Entry
          /\ Completed(r, bytes).state = "completed" /\ Completed(r, bytes).by = r
    BY <1>1 DEF Completed, Entry, Typed
  <2>2. entries \in [Key -> Entry \cup {NoEntry}]
    BY <1>2, <2>1
  <2>3. entries[k] = Completed(r, bytes) /\ \A j \in Key \ {k} : entries[j] = entry[j]
    BY <1>1, <1>2
  <2>4. \A j \in gone : entries[j].state = "completed"
    BY EvictedAreCompleted
  <2>5. entry' \in [Key -> Entry \cup {NoEntry}]
          /\ \A j \in Key : entry'[j] = IF j \in gone THEN NoEntry ELSE entries[j]
    BY <1>5, <2>2
  <2> HIDE DEF entries, gone
  <2>6. \A j \in Key : \/ entry'[j] = NoEntry
                       \/ j # k /\ entry'[j] = entry[j]
                       \/ j = k /\ entry'[j].by = r /\ entry'[j].state = "completed"
    BY <2>1, <2>3, <2>5
  <2>7. \A j \in Key \ {k} : entry[j].state = "pending" => entry'[j] = entry[j]
    BY <2>3, <2>4, <2>5
  <2>8. Moved(r) /\ EntriesDescribed' /\ WaitersAwaitRequests' /\ WaitersAwaitTheEntry'
    BY <1>5, <2>5, <2>6, <2>7, Released
  <2> QED
    BY <2>5, <2>8 DEF Moved
<1> QED
  BY <1>3, <1>4, <1>5 DEF Complete

LEMMA StepAnswer ==
  ASSUME Inductive, NEW r \in Request, SendJson(r) \/ Finish(r)
  PROVE  Inductive'
<1>1. PICK bytes \in Nat : Complete(r, bytes)
  BY SizeAssumption DEF SendJson, Finish
<1>2. stage[r] \in {"running", "ended"} /\ UNCHANGED <<now, awaits>>
  BY DEF SendJson, Finish
<1>3. /\ Moved(r) /\ stage' \in [Request -> Stages] /\ entry' \in [Key -> Entry \cup {NoEntry}]
      /\ EntriesDescribed' /\ WaitersAwaitRequests' /\ WaitersAwaitTheEntry'
  BY <1>1, <1>2, StepComplete
<1>4. answer' \in [Request -> Request \cup {Nobody}]
        /\ \A s \in Request \ {r} : answer'[s] = answer[s]
  BY DEF SendJson, Finish, Inductive, Typed
<1>5. Typed'
  BY <1>2, <1>3, <1>4 DEF Inductive, Typed
<1>6. RepliesAreOfRequests' /\ ReplayIsOfTheSameRequest'
  BY <1>3, <1>4, RepliesKept
<1> QED
  BY <1>3, <1>5, <1>6 DEF Inductive

LEMMA StepDisconnect ==
  ASSUME Inductive, NEW r \in Request, Disconnect(r)
  PROVE  Inductive'
<1>1. CASE UNCHANGED <<stage, entry>>
  BY <1>1 DEF Disconnect, Inductive, Typed, EntriesDescribed, EntryIsOf, WaitersAwaitRequests,
     WaitersAwaitTheEntry, Owns, RepliesAreOfRequests, ReplayIsOfTheSameRequest
<1>2. CASE /\ stage[r] \in {"running", "ended"} /\ Owns(r) /\ Resolve(r, stage[r])
           /\ entry' = [entry EXCEPT ![KeyOf[r]] = NoEntry]
  <2>1. entry \in [Key -> Entry \cup {NoEntry}] /\ KeyOf[r] \in Key
    BY RequestAssumption DEF Inductive, Typed
  <2>2. entry' \in [Key -> Entry \cup {NoEntry}]
    BY <1>2, <2>1
  <2>3. entry'[KeyOf[r]] = NoEntry /\ \A j \in Key \ {KeyOf[r]} : entry'[j] = entry[j]
    BY <1>2, <2>1
  <2>4. UNCHANGED <<now, awaits, answer>>
    BY DEF Disconnect
  <2>5. Moved(r) /\ EntriesDescribed' /\ WaitersAwaitRequests' /\ WaitersAwaitTheEntry'
    BY <1>2, <2>2, <2>3, <2>4, Released
  <2>6. Typed'
    BY <2>2, <2>4, <2>5 DEF Moved, Inductive, Typed
  <2>7. RepliesAreOfRequests' /\ ReplayIsOfTheSameRequest'
    BY <2>4, <2>5, RepliesKept
  <2> QED
    BY <2>5, <2>6, <2>7 DEF Inductive
<1> QED
  BY <1>1, <1>2 DEF Disconnect

\* A request is looked up: it takes a free key, is refused, answered, or waits.
LEMMA StepLookUp ==
  ASSUME Inductive, NEW r \in Request, LookUp(r)
  PROVE  Inductive'
<1> DEFINE k == KeyOf[r]
           cache == PruneExpired.entry
           found == cache[k]
<1>1. k \in Key /\ Typed /\ stage[r] = "looking" /\ UNCHANGED now
  BY RequestAssumption DEF Inductive, LookUp
<1>2. cache \in [Key -> Entry \cup {NoEntry}]
  BY <1>1, Pruned
<1>3. \A j \in Key : /\ cache[j] \in {entry[j], NoEntry}
                     /\ entry[j].state = "pending" => cache[j] = entry[j]
  BY <1>1, Pruned
<1>4. \A j \in Key : entry[j] # NoEntry => entry[j].by \in Request /\ entry[j].by # r
                                             /\ EntryIsOf(entry[j], j, stage)
  BY <1>1, EntryStates DEF Inductive, EntriesDescribed, EntryIsOf
<1>5. found # NoEntry => found = entry[k] /\ found.by \in Request /\ found.by # r
                           /\ found.state \in {"pending", "completed"} /\ KeyOf[found.by] = k
  BY <1>1, <1>3, <1>4, EntryStates DEF EntryIsOf
<1> HIDE DEF cache
<1>6. ASSUME NEW to, stage' = [stage EXCEPT ![r] = to], to \in Stages,
             entry' \in [Key -> Entry \cup {NoEntry}],
             \A j \in Key : \/ entry'[j] \in {entry[j], NoEntry}
                            \/ j = k /\ to = "running" /\ entry'[j] = Pending(r),
             \A j \in Key : entry[j].state = "pending" => entry'[j] = entry[j]
      PROVE  /\ stage' \in [Request -> Stages] /\ EntriesDescribed'
             /\ \A s \in Request \ {r} : stage'[s] = stage[s]
             /\ stage'[r] = to
  <2>1. stage' \in [Request -> Stages] /\ stage'[r] = to /\ \A s \in Request \ {r} : stage'[s] = stage[s]
    BY <1>1, <1>6 DEF Typed
  <2>2. ASSUME NEW j \in Key PROVE EntryIsOf(entry'[j], j, stage')
    <3>1. CASE entry'[j] = NoEntry
      BY <3>1 DEF EntryIsOf, NoEntry
    <3>2. CASE entry'[j] = entry[j] /\ entry[j] # NoEntry
      BY <1>4, <2>1, <3>2 DEF EntryIsOf
    <3>3. CASE j = k /\ to = "running" /\ entry'[j] = Pending(r)
      BY <2>1, <3>3 DEF EntryIsOf, Pending
    <3> QED
      BY <1>6, <3>1, <3>2, <3>3
  <2> QED
    BY <2>1, <2>2 DEF EntriesDescribed, EntryIsOf
<1>7. ASSUME NEW s \in Request \ {r}, stage[s] = "waiting", awaits'[s] = awaits[s],
             \A j \in Key : entry[j].state = "pending" => entry'[j] = entry[j]
      PROVE  /\ awaits'[s] \in Request /\ KeyOf[awaits'[s]] = KeyOf[s]
             /\ entry'[KeyOf[awaits'[s]]].state = "pending"
             /\ entry'[KeyOf[awaits'[s]]].by = awaits'[s]
  <2>1. awaits[s] \in Request /\ Owns(awaits[s]) /\ KeyOf[awaits[s]] = KeyOf[s]
    BY <1>7 DEF Inductive, WaitersAwaitRequests, WaitersAwaitTheEntry
  <2>2. KeyOf[awaits[s]] \in Key
    BY <2>1, RequestAssumption
  <2> QED
    BY <1>7, <2>1, <2>2 DEF Owns
<1>8. ASSUME NEW to, stage' = [stage EXCEPT ![r] = to], to \in Stages \ {"waiting"},
             entry' \in [Key -> Entry \cup {NoEntry}], UNCHANGED awaits,
             \A j \in Key : \/ entry'[j] \in {entry[j], NoEntry}
                            \/ j = k /\ to = "running" /\ entry'[j] = Pending(r),
             \A j \in Key : entry[j].state = "pending" => entry'[j] = entry[j]
      PROVE  /\ EntriesDescribed' /\ WaitersAwaitRequests' /\ WaitersAwaitTheEntry'
             /\ answer' \in [Request -> Request \cup {Nobody}] => Typed'
  <2>1. /\ stage' \in [Request -> Stages] /\ EntriesDescribed' /\ stage'[r] = to
        /\ \A s \in Request \ {r} : stage'[s] = stage[s]
    BY <1>6, <1>8
  <2>2. WaitersAwaitRequests' /\ WaitersAwaitTheEntry'
    BY <1>7, <1>8, <2>1 DEF WaitersAwaitRequests, WaitersAwaitTheEntry, Owns
  <2>3. answer' \in [Request -> Request \cup {Nobody}] => Typed'
    BY <1>1, <1>8, <2>1 DEF Typed
  <2> QED
    BY <2>1, <2>2, <2>3
<1>9. CASE /\ found = NoEntry /\ entry' = [cache EXCEPT ![k] = Pending(r)]
           /\ stage' = [stage EXCEPT ![r] = "running"] /\ UNCHANGED <<awaits, answer>>
  <2>1. Pending(r) \in Entry
    BY <1>1 DEF Pending, Entry, Typed
  <2>2. entry' \in [Key -> Entry \cup {NoEntry}]
          /\ entry'[k] = Pending(r) /\ \A j \in Key \ {k} : entry'[j] = cache[j]
    BY <1>1, <1>2, <1>9, <2>1
  <2>3. entry[k].state # "pending"
    BY <1>1, <1>3, <1>9 DEF NoEntry
  <2>4. EntriesDescribed' /\ WaitersAwaitRequests' /\ WaitersAwaitTheEntry' /\ Typed'
    BY <1>1, <1>3, <1>8, <1>9, <2>2, <2>3 DEF Typed, Stages
  <2>5. Moved(r)
    BY <1>1, <1>9 DEF Moved, Typed, Stages
  <2>6. RepliesAreOfRequests' /\ ReplayIsOfTheSameRequest'
    BY <1>9, <2>5, RepliesKept
  <2> QED
    BY <2>4, <2>6 DEF Inductive
<1>10. CASE /\ entry' = cache /\ stage' = [stage EXCEPT ![r] = "refused"]
            /\ UNCHANGED <<awaits, answer>>
  <2>1. EntriesDescribed' /\ WaitersAwaitRequests' /\ WaitersAwaitTheEntry' /\ Typed'
    BY <1>1, <1>2, <1>3, <1>8, <1>10 DEF Typed, Stages
  <2>2. Moved(r)
    BY <1>1, <1>10 DEF Moved, Typed, Stages
  <2>3. RepliesAreOfRequests' /\ ReplayIsOfTheSameRequest'
    BY <1>10, <2>2, RepliesKept
  <2> QED
    BY <2>1, <2>3 DEF Inductive
<1>11. CASE /\ found # NoEntry /\ Payload[found.by] = Payload[r] /\ found.state = "completed"
            /\ entry' = cache /\ stage' = [stage EXCEPT ![r] = "replayed"]
            /\ answer' = [answer EXCEPT ![r] = found.by] /\ UNCHANGED awaits
  <2>1. found.by \in Request /\ found.by # r /\ KeyOf[found.by] = k /\ stage[found.by] = "executed"
    BY <1>1, <1>4, <1>5, <1>11 DEF EntryIsOf
  <2>2. answer' \in [Request -> Request \cup {Nobody}] /\ answer'[r] = found.by
          /\ \A s \in Request \ {r} : answer'[s] = answer[s]
    BY <1>1, <1>11, <2>1 DEF Typed
  <2>3. EntriesDescribed' /\ WaitersAwaitRequests' /\ WaitersAwaitTheEntry' /\ Typed'
    BY <1>1, <1>2, <1>3, <1>8, <1>11, <2>2 DEF Stages
  <2>4. stage'[r] = "replayed" /\ \A s \in Request \ {r} : stage'[s] = stage[s]
    BY <1>1, <1>11 DEF Typed
  <2>5. RepliesAreOfRequests'
    BY <2>1, <2>2, <2>4 DEF Inductive, RepliesAreOfRequests
  <2>6. ReplayIsOfTheSameRequest'
    <3> SUFFICES ASSUME NEW s \in Request, stage'[s] = "replayed"
                 PROVE  /\ answer'[s] # s /\ stage'[answer'[s]] = "executed"
                        /\ KeyOf[answer'[s]] = KeyOf[s] /\ Payload[answer'[s]] = Payload[s]
      BY DEF ReplayIsOfTheSameRequest
    <3>1. CASE s = r
      BY <1>11, <2>1, <2>2, <2>4, <3>1
    <3>2. CASE s # r
      <4>1. /\ answer[s] \in Request /\ answer[s] # s /\ stage[answer[s]] = "executed"
            /\ KeyOf[answer[s]] = KeyOf[s] /\ Payload[answer[s]] = Payload[s]
        BY <2>4, <3>2 DEF Inductive, RepliesAreOfRequests, ReplayIsOfTheSameRequest
      <4> QED
        BY <1>1, <2>2, <2>4, <3>2, <4>1
    <3> QED
      BY <3>1, <3>2
  <2> QED
    BY <2>3, <2>5, <2>6 DEF Inductive
<1>12. CASE /\ found # NoEntry /\ found.state = "pending"
            /\ entry' = cache /\ stage' = [stage EXCEPT ![r] = "waiting"]
            /\ awaits' = [awaits EXCEPT ![r] = found.by] /\ UNCHANGED answer
  <2>1. awaits' \in [Request -> Request \cup {Nobody}] /\ awaits'[r] = found.by
          /\ \A s \in Request \ {r} : awaits'[s] = awaits[s]
    BY <1>1, <1>5, <1>12 DEF Typed
  <2>2. /\ stage' \in [Request -> Stages] /\ EntriesDescribed' /\ stage'[r] = "waiting"
        /\ \A s \in Request \ {r} : stage'[s] = stage[s]
    BY <1>2, <1>3, <1>6, <1>12 DEF Stages
  <2>3. Typed'
    BY <1>1, <1>2, <1>12, <2>1, <2>2 DEF Typed
  <2>4. ASSUME NEW s \in Request, stage'[s] = "waiting"
        PROVE  /\ awaits'[s] \in Request /\ KeyOf[awaits'[s]] = KeyOf[s]
               /\ entry'[KeyOf[awaits'[s]]].state = "pending"
               /\ entry'[KeyOf[awaits'[s]]].by = awaits'[s]
    <3>1. CASE s = r
      BY <1>5, <1>12, <2>1, <3>1
    <3>2. CASE s # r
      BY <1>3, <1>7, <1>12, <2>1, <2>2, <2>4, <3>2
    <3> QED
      BY <3>1, <3>2
  <2>5. WaitersAwaitRequests' /\ WaitersAwaitTheEntry'
    BY <2>4 DEF WaitersAwaitRequests, WaitersAwaitTheEntry, Owns
  <2>6. Moved(r)
    BY <1>1, <2>2 DEF Moved
  <2>7. RepliesAreOfRequests' /\ ReplayIsOfTheSameRequest'
    BY <1>12, <2>6, RepliesKept
  <2> QED
    BY <2>2, <2>3, <2>5, <2>7 DEF Inductive
<1> QED
  BY <1>9, <1>10, <1>11, <1>12 DEF LookUp, cache

\* Time passes, or nothing does.
LEMMA StepTick ==
  ASSUME Inductive, Tick \/ UNCHANGED vars
  PROVE  Inductive'
<1>1. now' \in Nat /\ UNCHANGED <<stage, awaits, answer, entry>>
  BY DEF Tick, vars, Inductive, Typed
<1> QED
  BY <1>1 DEF Inductive, Typed, EntriesDescribed, EntryIsOf, WaitersAwaitRequests,
     WaitersAwaitTheEntry, Owns, RepliesAreOfRequests, ReplayIsOfTheSameRequest

-----------------------------------------------------------------------------
(* The theorems.                                                           *)

LEMMA InductiveInit == Init => Inductive
  BY DEF Init, Inductive, Typed, Stages, EntriesDescribed, EntryIsOf, NoEntry,
     WaitersAwaitRequests, WaitersAwaitTheEntry, RepliesAreOfRequests, ReplayIsOfTheSameRequest

LEMMA InductiveStep == Inductive /\ [Next]_vars => Inductive'
  BY StepArrive, StepLookUp, StepAnswer, StepSendEmpty, StepDisconnect, StepTick DEF Next

\* The invariant holds in every behaviour.
THEOREM InductiveHolds == Spec => []Inductive
  BY InductiveInit, InductiveStep, PTL DEF Spec

\* However clients hang up and handlers are late, whoever waits waits for the
\* execution that the cache has under the key and that will wake it (complete and
\* releasePending of http/headless-idempotency.ts).
THEOREM WaitersAwaitWhatWakesThem == Spec => []WaitersAwaitTheEntry
<1>1. Inductive => WaitersAwaitTheEntry
  BY DEF Inductive
<1> QED
  BY <1>1, InductiveHolds, PTL

\* An answer that is replayed is that of an execution of the very same request, whatever
\* has been evicted, released or executed again in the meantime (prepare).
THEOREM ReplaysAreOfTheSameRequest == Spec => []ReplayIsOfTheSameRequest
<1>1. Inductive => ReplayIsOfTheSameRequest
  BY DEF Inductive
<1> QED
  BY <1>1, InductiveHolds, PTL

\* An answer is replayed within its lifetime only: what a lookup finds was looked at by
\* pruneExpired in the same step.
THEOREM ReplaysAreFresh == Spec => NothingStaleReplayed
<1> DEFINE Fresh == \A r \in Request :
                      stage[r] # "replayed" /\ stage'[r] = "replayed" =>
                        entry[KeyOf[r]].at >= now - Lifetime
<1>1. ASSUME Inductive, [Next]_vars PROVE Fresh
  <2> SUFFICES ASSUME NEW r \in Request, stage[r] # "replayed", stage'[r] = "replayed"
               PROVE  entry[KeyOf[r]].at >= now - Lifetime
    OBVIOUS
  <2>1. KeyOf[r] \in Key /\ Typed
    BY <1>1, RequestAssumption DEF Inductive
  <2>2. LookUp(r)
    <3>1. ASSUME NEW s \in Request, Arrive(s) \/ SendEmpty(s) PROVE FALSE
      BY <2>1, <3>1 DEF Arrive, SendEmpty, Typed
    <3>2. ASSUME NEW s \in Request, SendJson(s) \/ Finish(s) PROVE FALSE
      <4>1. stage' = [stage EXCEPT ![s] = "executed"] \/ Resolve(s, "executed")
        BY <3>2 DEF SendJson, Finish, Complete
      <4> QED
        BY <2>1, <4>1 DEF Resolve, Typed
    <3>3. ASSUME NEW s \in Request, Disconnect(s) PROVE FALSE
      BY <2>1, <3>3 DEF Disconnect, Resolve, Typed
    <3>4. ASSUME NEW s \in Request, s # r, LookUp(s) PROVE FALSE
      BY <2>1, <3>4 DEF LookUp, Typed
    <3>5. ~(Tick \/ UNCHANGED vars)
      BY DEF Tick, vars
    <3> QED
      BY <1>1, <3>1, <3>2, <3>3, <3>4, <3>5 DEF Next
  <2>3. PruneExpired.entry[KeyOf[r]].state = "completed"
    BY <2>1, <2>2 DEF LookUp, Typed
  <2>4. entry[KeyOf[r]].state = "completed" /\ KeyOf[r] \notin Expired
    BY <2>1, <2>3, Pruned
  <2>5. entry[KeyOf[r]].at \in Nat /\ now \in Nat /\ Lifetime \in Nat
    BY <2>1, <2>4, SizeAssumption DEF Typed, Entry, NoEntry
  <2>6. ~(entry[KeyOf[r]].at < now - Lifetime)
    BY <2>1, <2>4 DEF Expired, IsCompleted
  <2> QED
    BY <2>5, <2>6
<1> QED
  BY <1>1, InductiveHolds, PTL DEF Spec, NothingStaleReplayed

-----------------------------------------------------------------------------
(* The weight of a set of entries.  Each fact about all finite sets is     *)
(* proved by a smallest set that refutes it, from which one element can be *)
(* taken: the library's induction takes the fact as an operator.           *)

\* Of a set of finite sets one has the fewest elements.
LEMMA SmallestSet ==
  ASSUME NEW C, C # {}, \A S \in C : IsFiniteSet(S)
  PROVE  \E S \in C : \A T \in C : ~(Cardinality(T) < Cardinality(S))
<1> DEFINE sizes == {Cardinality(S) : S \in C}
<1>1. sizes \subseteq Nat /\ sizes # {}
  BY FS_CardinalityType
<1>2. PICK n \in sizes : \A m \in sizes : ~(<<m, n>> \in OpToRel(<, Nat))
  <2> HIDE DEF sizes
  <2> QED
    BY <1>1, NatLessThanWellFounded, WFMin, Zenon
<1>3. \A m \in sizes : <<m, n>> \in OpToRel(<, Nat) <=> m < n
  BY <1>1 DEF OpToRel
<1> QED
  BY <1>2, <1>3

\* The element MapThenSumSet takes next, and the table of all sums it makes.
Taken(s) == CHOOSE x \in s : TRUE
IsTable(g, S, e) ==
  g = [s \in SUBSET S |-> IF s = {} THEN 0 ELSE e[Taken(s)].bytes + g[s \ {Taken(s)}]]

LEMMA WeightIsInTable ==
  ASSUME NEW S, NEW e
  PROVE  Weight(S, e) = (CHOOSE g : IsTable(g, S, e))[S]
  BY DEF Weight, MapThenSumSet, MapThenFoldSet, IsTable, Taken

LEMMA TakesOne ==
  ASSUME NEW S, IsFiniteSet(S), S # {}
  PROVE  /\ Taken(S) \in S /\ IsFiniteSet(S \ {Taken(S)})
         /\ Cardinality(S \ {Taken(S)}) < Cardinality(S)
<1>1. Taken(S) \in S
  BY DEF Taken
<1>2. IsFiniteSet(S \ {Taken(S)}) /\ Cardinality(S \ {Taken(S)}) = Cardinality(S) - 1
  BY <1>1, FS_RemoveElement
<1>3. Cardinality(S) \in Nat
  BY FS_CardinalityType
<1> QED
  BY <1>1, <1>2, <1>3

LEMMA TablesAgree ==
  ASSUME NEW S, IsFiniteSet(S), NEW T \in SUBSET S, NEW e,
         NEW g, IsTable(g, S, e), NEW h, IsTable(h, T, e)
  PROVE  g[T] = h[T]
<1> SUFFICES ASSUME g[T] # h[T] PROVE FALSE
  OBVIOUS
<1> DEFINE odd == {s \in SUBSET T : g[s] # h[s]}
<1>1. odd # {} /\ \A s \in odd : IsFiniteSet(s)
  BY FS_Subset
<1>2. PICK s \in odd : \A t \in odd : ~(Cardinality(t) < Cardinality(s))
  <2> HIDE DEF odd
  <2> QED
    BY <1>1, SmallestSet
<1>3. s \in SUBSET S /\ s \in SUBSET T
  OBVIOUS
<1>4. /\ g[s] = IF s = {} THEN 0 ELSE e[Taken(s)].bytes + g[s \ {Taken(s)}]
      /\ h[s] = IF s = {} THEN 0 ELSE e[Taken(s)].bytes + h[s \ {Taken(s)}]
  BY <1>3 DEF IsTable
<1>5. s # {}
  BY <1>4
<1>6. s \ {Taken(s)} \notin odd
  BY <1>1, <1>2, <1>5, TakesOne
<1> QED
  BY <1>3, <1>4, <1>5, <1>6

\* As far as there are tables, the weight of a set is that of one element and the rest.
LEMMA Unfolds ==
  ASSUME NEW S, IsFiniteSet(S), NEW e, \A T \in SUBSET S : \E g : IsTable(g, T, e)
  PROVE  Weight(S, e) = IF S = {} THEN 0
                        ELSE e[Taken(S)].bytes + Weight(S \ {Taken(S)}, e)
<1> DEFINE T == S \ {Taken(S)}
           g == CHOOSE f : IsTable(f, S, e)
           h == CHOOSE f : IsTable(f, T, e)
<1>1. IsTable(g, S, e) /\ IsTable(h, T, e)
  <2>1. (\E f : IsTable(f, S, e)) /\ (\E f : IsTable(f, T, e))
    OBVIOUS
  <2> QED
    BY <2>1
<1>2. Weight(S, e) = g[S] /\ Weight(T, e) = h[T]
  BY WeightIsInTable
<1> HIDE DEF g, h
<1>3. g[T] = h[T]
  BY <1>1, TablesAgree
<1>4. g[S] = IF S = {} THEN 0 ELSE e[Taken(S)].bytes + g[T]
  BY <1>1 DEF IsTable
<1> QED
  BY <1>2, <1>3, <1>4

LEMMA TablesExist ==
  ASSUME NEW S, IsFiniteSet(S), NEW e
  PROVE  \E g : IsTable(g, S, e)
<1> SUFFICES ASSUME ~\E g : IsTable(g, S, e) PROVE FALSE
  OBVIOUS
<1> DEFINE odd == {T \in SUBSET S : ~\E g : IsTable(g, T, e)}
<1>1. odd # {} /\ \A T \in odd : IsFiniteSet(T)
  BY FS_Subset
<1>2. PICK T \in odd : \A U \in odd : ~(Cardinality(U) < Cardinality(T))
  <2> HIDE DEF odd
  <2> QED
    BY <1>1, SmallestSet
<1>3. IsFiniteSet(T) /\ T \in SUBSET S
  BY FS_Subset
<1>4. ASSUME NEW U \in SUBSET T, U # T PROVE \E g : IsTable(g, U, e)
  <2>1. Cardinality(U) < Cardinality(T)
    BY <1>3, <1>4, FS_Subset, FS_CardinalityType
  <2> QED
    BY <1>2, <1>3, <2>1
<1> DEFINE value(u) == IF u = {} THEN 0 ELSE e[Taken(u)].bytes + Weight(u \ {Taken(u)}, e)
           g == [u \in SUBSET T |-> value(u)]
<1>5. ASSUME NEW u \in SUBSET T, u # {} PROVE g[u \ {Taken(u)}] = Weight(u \ {Taken(u)}, e)
  <2> DEFINE w == u \ {Taken(u)}
  <2>1. Taken(u) \in u /\ IsFiniteSet(w) /\ w \in SUBSET T
    BY <1>3, <1>5, TakesOne, FS_Subset
  <2>2. \A x \in SUBSET w : x \in SUBSET T /\ x # T
    BY <2>1
  <2>3. \A x \in SUBSET w : \E f : IsTable(f, x, e)
    BY <2>2, <1>4
  <2>4. Weight(w, e) = value(w)
    BY <2>1, <2>3, Unfolds
  <2> QED
    BY <2>1, <2>4
<1>6. IsTable(g, T, e)
  <2>1. \A u \in SUBSET T : value(u) = IF u = {} THEN 0 ELSE e[Taken(u)].bytes + g[u \ {Taken(u)}]
    BY <1>5
  <2> QED
    BY <2>1 DEF IsTable
<1> QED
  BY <1>6

LEMMA WeightUnfolds ==
  ASSUME NEW S, IsFiniteSet(S), NEW e
  PROVE  Weight(S, e) = IF S = {} THEN 0
                        ELSE e[Taken(S)].bytes + Weight(S \ {Taken(S)}, e)
<1>1. \A T \in SUBSET S : \E g : IsTable(g, T, e)
  BY FS_Subset, TablesExist
<1> QED
  BY <1>1, Unfolds

LEMMA WeightOfNone == \A e : Weight({}, e) = 0
  BY WeightUnfolds, FS_EmptySet

LEMMA WeightIsNatural ==
  ASSUME NEW S, IsFiniteSet(S), NEW e, \A k \in S : e[k].bytes \in Nat
  PROVE  Weight(S, e) \in Nat
<1> SUFFICES ASSUME Weight(S, e) \notin Nat PROVE FALSE
  OBVIOUS
<1> DEFINE odd == {T \in SUBSET S : Weight(T, e) \notin Nat}
<1>1. odd # {} /\ \A T \in odd : IsFiniteSet(T)
  BY FS_Subset
<1>2. PICK T \in odd : \A U \in odd : ~(Cardinality(U) < Cardinality(T))
  <2> HIDE DEF odd
  <2> QED
    BY <1>1, SmallestSet
<1>3. T # {} /\ IsFiniteSet(T)
  BY <1>1, WeightOfNone
<1>4. Taken(T) \in S /\ T \ {Taken(T)} \in SUBSET S /\ T \ {Taken(T)} \notin odd
  BY <1>2, <1>3, TakesOne
<1>5. Weight(T, e) = e[Taken(T)].bytes + Weight(T \ {Taken(T)}, e)
  BY <1>3, WeightUnfolds
<1> QED
  BY <1>4, <1>5

\* Any element may be taken out first.
LEMMA WeightOfRest ==
  ASSUME NEW S, IsFiniteSet(S), NEW e, \A k \in S : e[k].bytes \in Nat, NEW x \in S
  PROVE  Weight(S, e) = e[x].bytes + Weight(S \ {x}, e)
<1> SUFFICES ASSUME Weight(S, e) # e[x].bytes + Weight(S \ {x}, e) PROVE FALSE
  OBVIOUS
<1> DEFINE Holds(T) == \A y \in T : Weight(T, e) = e[y].bytes + Weight(T \ {y}, e)
           odd == {T \in SUBSET S : ~Holds(T)}
<1>1. odd # {} /\ \A T \in odd : IsFiniteSet(T)
  BY FS_Subset
<1>2. PICK T \in odd : \A U \in odd : ~(Cardinality(U) < Cardinality(T))
  <2> HIDE DEF odd
  <2> QED
    BY <1>1, SmallestSet
<1>3. PICK y \in T : Weight(T, e) # e[y].bytes + Weight(T \ {y}, e)
  OBVIOUS
<1> DEFINE c == Taken(T)
<1>4. IsFiniteSet(T) /\ c \in T /\ T \in SUBSET S
  BY <1>1, <1>3, TakesOne
<1>5. Weight(T, e) = e[c].bytes + Weight(T \ {c}, e)
  BY <1>3, <1>4, WeightUnfolds
<1>6. c # y
  BY <1>3, <1>5
<1>7. Cardinality(T \ {c}) < Cardinality(T) /\ Cardinality(T \ {y}) < Cardinality(T)
  <2>1. Cardinality(T \ {c}) = Cardinality(T) - 1 /\ Cardinality(T \ {y}) = Cardinality(T) - 1
    BY <1>3, <1>4, FS_RemoveElement
  <2> QED
    BY <1>4, <2>1, FS_CardinalityType
<1>8. Holds(T \ {c}) /\ Holds(T \ {y})
  BY <1>2, <1>4, <1>7
<1>9. /\ Weight(T \ {c}, e) = e[y].bytes + Weight((T \ {c}) \ {y}, e)
      /\ Weight(T \ {y}, e) = e[c].bytes + Weight((T \ {y}) \ {c}, e)
  BY <1>3, <1>4, <1>6, <1>8
<1>10. (T \ {c}) \ {y} = (T \ {y}) \ {c} /\ IsFiniteSet((T \ {y}) \ {c})
  BY <1>4, FS_Subset
<1>11. /\ e[y].bytes \in Nat /\ e[c].bytes \in Nat
       /\ Weight((T \ {y}) \ {c}, e) \in Nat
  BY <1>3, <1>4, <1>10, WeightIsNatural
<1>12. Weight((T \ {c}) \ {y}, e) = Weight((T \ {y}) \ {c}, e)
  BY <1>10
<1> HIDE DEF c, odd, Holds
<1>13. Weight(T, e) = e[c].bytes + (e[y].bytes + Weight((T \ {y}) \ {c}, e))
  BY <1>5, <1>9, <1>12
<1>14. Weight(T, e) # e[y].bytes + (e[c].bytes + Weight((T \ {y}) \ {c}, e))
  BY <1>3, <1>9
<1> QED
  BY <1>11, <1>13, <1>14

\* The weight depends on the entries of the set only.
LEMMA WeightOfSame ==
  ASSUME NEW S, IsFiniteSet(S), NEW e, NEW f, \A k \in S : e[k].bytes = f[k].bytes
  PROVE  Weight(S, e) = Weight(S, f)
<1> SUFFICES ASSUME Weight(S, e) # Weight(S, f) PROVE FALSE
  OBVIOUS
<1> DEFINE odd == {T \in SUBSET S : Weight(T, e) # Weight(T, f)}
<1>1. odd # {} /\ \A T \in odd : IsFiniteSet(T)
  BY FS_Subset
<1>2. PICK T \in odd : \A U \in odd : ~(Cardinality(U) < Cardinality(T))
  <2> HIDE DEF odd
  <2> QED
    BY <1>1, SmallestSet
<1>3. T # {} /\ IsFiniteSet(T)
  BY <1>1, WeightOfNone
<1>4. Taken(T) \in S /\ T \ {Taken(T)} \in SUBSET S /\ T \ {Taken(T)} \notin odd
  BY <1>2, <1>3, TakesOne
<1>5. /\ Weight(T, e) = e[Taken(T)].bytes + Weight(T \ {Taken(T)}, e)
      /\ Weight(T, f) = f[Taken(T)].bytes + Weight(T \ {Taken(T)}, f)
  BY <1>3, WeightUnfolds
<1> QED
  BY <1>4, <1>5

LEMMA WeightOfMore ==
  ASSUME NEW S, IsFiniteSet(S), NEW x, x \notin S, NEW e, NEW f,
         \A k \in S : f[k].bytes = e[k].bytes /\ e[k].bytes \in Nat, f[x].bytes \in Nat
  PROVE  Weight(S \cup {x}, f) = Weight(S, e) + f[x].bytes /\ Weight(S, e) \in Nat
<1> DEFINE T == S \cup {x}
<1>1. IsFiniteSet(T) /\ x \in T /\ T \ {x} = S /\ \A k \in T : f[k].bytes \in Nat
  BY FS_AddElement
<1> HIDE DEF T
<1>2. Weight(T, f) = f[x].bytes + Weight(T \ {x}, f)
  BY <1>1, WeightOfRest
<1>3. Weight(S, f) = Weight(S, e) /\ Weight(S, e) \in Nat
  BY WeightOfSame, WeightIsNatural
<1>4. Weight(T \ {x}, f) = Weight(S, f)
  BY <1>1, Zenon
<1>5. Weight(T, f) = Weight(S, e) + f[x].bytes
  BY <1>2, <1>3, <1>4
<1> QED
  BY <1>3, <1>5 DEF T

\* What is left when a part is taken out.
LEMMA WeightWithout ==
  ASSUME NEW S, IsFiniteSet(S), NEW e, \A k \in S : e[k].bytes \in Nat, NEW T \in SUBSET S
  PROVE  /\ Weight(S \ T, e) = Weight(S, e) - Weight(T, e)
         /\ Weight(S, e) \in Nat /\ Weight(T, e) \in Nat /\ Weight(T, e) <= Weight(S, e)
<1>1. ASSUME NEW U \in SUBSET S PROVE IsFiniteSet(U) /\ Weight(U, e) \in Nat
  BY FS_Subset, WeightIsNatural
<1>2. Weight(S \ T, e) = Weight(S, e) - Weight(T, e)
  <2> SUFFICES ASSUME Weight(S \ T, e) # Weight(S, e) - Weight(T, e) PROVE FALSE
    OBVIOUS
  <2> DEFINE odd == {U \in SUBSET S : Weight(S \ U, e) # Weight(S, e) - Weight(U, e)}
  <2>1. odd # {} /\ \A U \in odd : IsFiniteSet(U)
    BY <1>1
  <2>2. PICK U \in odd : \A V \in odd : ~(Cardinality(V) < Cardinality(U))
    <3> HIDE DEF odd
    <3> QED
      BY <2>1, SmallestSet
  <2>3. U # {}
    <3>1. S \ {} = S /\ Weight(S, e) \in Nat /\ Weight({}, e) = 0
      BY <1>1, WeightOfNone
    <3>2. {} \notin odd
      BY <3>1
    <3> QED
      BY <3>2
  <2> DEFINE x == Taken(U)
             V == U \ {x}
  <2>4. /\ IsFiniteSet(U) /\ x \in U /\ Cardinality(V) < Cardinality(U) /\ U \in SUBSET S
        /\ V \in SUBSET S
    BY <2>1, <2>3, TakesOne
  <2>5. Weight(S \ V, e) = Weight(S, e) - Weight(V, e)
    BY <2>2, <2>4
  <2>6. Weight(U, e) = e[x].bytes + Weight(V, e)
    BY <2>3, <2>4, WeightUnfolds
  <2>7. x \in S \ V /\ (S \ V) \ {x} = S \ U
    BY <2>4
  <2>8. Weight(S \ V, e) = e[x].bytes + Weight(S \ U, e)
    <3> DEFINE R == S \ V
    <3>1. R \in SUBSET S /\ IsFiniteSet(R) /\ (\A k \in R : e[k].bytes \in Nat) /\ x \in R
      BY <1>1, <2>7
    <3> HIDE DEF R, x, V
    <3>2. Weight(R, e) = e[x].bytes + Weight(R \ {x}, e)
      BY <3>1, WeightOfRest
    <3> QED
      BY <2>7, <3>2 DEF R
  <2>9. Weight(S \ U, e) # Weight(S, e) - Weight(U, e)
    OBVIOUS
  <2>10. e[x].bytes \in Nat /\ Weight(S, e) \in Nat /\ Weight(V, e) \in Nat
           /\ Weight(S \ U, e) \in Nat
    BY <1>1, <2>4
  <2> HIDE DEF x, V, odd
  <2> QED
    BY <2>5, <2>6, <2>8, <2>9, <2>10
<1>3. S \ T \in SUBSET S /\ S \in SUBSET S
  OBVIOUS
<1>4. Weight(S, e) \in Nat /\ Weight(T, e) \in Nat /\ Weight(S \ T, e) \in Nat
  BY <1>1, <1>3
<1> QED
  BY <1>2, <1>4

-----------------------------------------------------------------------------
(* The account of the cache's bytes: what the invariant says.              *)

Answers(entries) == {k \in Key : entries[k].state = "completed"}

\* The Map is finite and ordered, and the account is that of its answers.
Accounted(entries, pairs, bytes) ==
  /\ IsFiniteSet(Cached(entries)) /\ IsOrderOf(pairs, Cached(entries))
  /\ bytes = Weight(Answers(entries), entries)

Within(entries, bytes) ==
  bytes <= MaxBytes /\ Cardinality(Answers(entries)) <= MaxEntries

Balanced == Accounted(entry, order, cachedBytes) /\ Within(entry, cachedBytes)

EntriesTyped(entries) == entries \in [Key -> Entry \cup {NoEntry}]

LEMMA AnswersAreCached ==
  ASSUME NEW entries, EntriesTyped(entries)
  PROVE  /\ Answers(entries) \subseteq Cached(entries)
         /\ Cached(entries) \subseteq Key
         /\ \A k \in Cached(entries) : entries[k].bytes \in Nat
  BY DEF EntriesTyped, Answers, Cached, Entry, NoEntry

-----------------------------------------------------------------------------
(* The account: what the operations on the Map do to it.                   *)

LEMMA OrderWithout ==
  ASSUME NEW pairs, NEW keys, IsOrderOf(pairs, keys), NEW gone
  PROVE  IsOrderOf(Without(gone, pairs), keys \ gone)
<1>1. \A j, k : <<j, k>> \in Without(gone, pairs)
                  <=> <<j, k>> \in pairs /\ j \notin gone /\ k \notin gone
  BY DEF Without
<1>2. Without(gone, pairs) \subseteq (keys \ gone) \X (keys \ gone)
  BY DEF Without, IsOrderOf
<1> QED
  BY <1>1, <1>2 DEF IsOrderOf

LEMMA OrderAtTheEnd ==
  ASSUME NEW pairs, NEW entries, IsOrderOf(pairs, Cached(entries)), NEW k
  PROVE  IsOrderOf(AtTheEnd(k, entries, pairs), Cached(entries) \cup {k})
<1> DEFINE rest == Cached(entries) \ {k}
           earlier == Without({k}, pairs)
<1>1. IsOrderOf(earlier, rest)
  BY OrderWithout
<1>2. AtTheEnd(k, entries, pairs) = earlier \cup (rest \X {k})
  BY DEF AtTheEnd
<1>3. Cached(entries) \cup {k} = rest \cup {k} /\ k \notin rest
  OBVIOUS
<1> HIDE DEF rest, earlier
<1>4. \A i, j : <<i, j>> \in AtTheEnd(k, entries, pairs)
                  <=> <<i, j>> \in earlier \/ (i \in rest /\ j = k)
  BY <1>2
<1>5. \A i, j : <<i, j>> \in earlier => i \in rest /\ j \in rest
  BY <1>1 DEF IsOrderOf
<1>6. AtTheEnd(k, entries, pairs) \subseteq (rest \cup {k}) \X (rest \cup {k})
  BY <1>1, <1>2 DEF IsOrderOf
<1>7. IsOrderOf(AtTheEnd(k, entries, pairs), rest \cup {k})
  BY <1>1, <1>3, <1>4, <1>5, <1>6 DEF IsOrderOf
<1> QED
  BY <1>3, <1>7

\* Some entries are dropped, and what the answers among them weigh is taken off.
LEMMA Dropped ==
  ASSUME NEW entries, EntriesTyped(entries), NEW pairs, NEW bytes,
         Accounted(entries, pairs, bytes), NEW gone, gone \subseteq Cached(entries),
         NEW new, new = [k \in Key |-> IF k \in gone THEN NoEntry ELSE entries[k]]
  PROVE  /\ Accounted(new, Without(gone, pairs),
                      bytes - Weight(gone \cap Answers(entries), entries))
         /\ Cached(new) = Cached(entries) \ gone
         /\ Answers(new) = Answers(entries) \ gone
         /\ Weight(gone \cap Answers(entries), entries) \in Nat /\ bytes \in Nat
<1>1. Cached(new) = Cached(entries) \ gone
  BY DEF Cached
<1>2. Answers(new) = Answers(entries) \ gone
  BY DEF Answers, NoEntry
<1>3. IsFiniteSet(Cached(new)) /\ IsFiniteSet(Answers(entries)) /\ IsFiniteSet(Answers(new))
  BY <1>1, <1>2, FS_Subset, AnswersAreCached DEF Accounted
<1>4. IsOrderOf(Without(gone, pairs), Cached(new))
  BY <1>1, OrderWithout DEF Accounted
<1>5. \A k \in Answers(new) : new[k].bytes = entries[k].bytes
  BY <1>2 DEF Answers
<1>6. Weight(Answers(new), new) = Weight(Answers(new), entries)
  BY <1>3, <1>5, WeightOfSame
<1> DEFINE all == Answers(entries)
           lost == gone \cap Answers(entries)
<1>7. /\ Weight(all \ lost, entries) = Weight(all, entries) - Weight(lost, entries)
      /\ Weight(all, entries) \in Nat /\ Weight(lost, entries) \in Nat
  <2>1. lost \in SUBSET all /\ \A k \in all : entries[k].bytes \in Nat
    BY AnswersAreCached
  <2> HIDE DEF all, lost
  <2> QED
    BY <1>3, <2>1, WeightWithout DEF all
<1>8. all \ lost = Answers(new)
  BY <1>2
<1> QED
  BY <1>1, <1>2, <1>3, <1>4, <1>6, <1>7, <1>8 DEF Accounted

\* With less than before the limits are kept.
LEMMA WithinLess ==
  ASSUME NEW entries, EntriesTyped(entries), NEW bytes \in Nat, Within(entries, bytes),
         IsFiniteSet(Cached(entries)),
         NEW new, Answers(new) \subseteq Answers(entries), NEW left \in Nat
  PROVE  Within(new, bytes - left)
<1>1. IsFiniteSet(Answers(entries))
  BY FS_Subset, AnswersAreCached
<1>2. /\ Cardinality(Answers(new)) <= Cardinality(Answers(entries))
      /\ Cardinality(Answers(new)) \in Nat /\ Cardinality(Answers(entries)) \in Nat
  BY <1>1, FS_Subset, FS_CardinalityType
<1>3. MaxBytes \in Nat /\ MaxEntries \in Nat
  BY SizeAssumption
<1> QED
  BY <1>2, <1>3 DEF Within

\* A request takes a key that has no entry.
LEMMA Claimed ==
  ASSUME NEW entries, EntriesTyped(entries), NEW pairs, NEW bytes,
         Accounted(entries, pairs, bytes), NEW k \in Key, entries[k] = NoEntry,
         NEW r, NEW new, new = [entries EXCEPT ![k] = Pending(r)]
  PROVE  /\ Accounted(new, AtTheEnd(k, entries, pairs), bytes)
         /\ Answers(new) = Answers(entries)
<1>1. new[k] = Pending(r) /\ \A j \in Key \ {k} : new[j] = entries[j]
  BY DEF EntriesTyped
<1>2. Cached(new) = Cached(entries) \cup {k}
  BY <1>1 DEF Cached, Pending, NoEntry
<1>3. Answers(new) = Answers(entries) /\ k \notin Answers(entries)
  BY <1>1 DEF Answers, Pending, NoEntry
<1>4. IsFiniteSet(Answers(entries)) /\ IsFiniteSet(Cached(new))
  BY <1>2, FS_Subset, FS_AddElement, AnswersAreCached DEF Accounted
<1>5. \A j \in Answers(entries) : new[j].bytes = entries[j].bytes
  BY <1>1, <1>3 DEF Answers
<1>6. Weight(Answers(entries), new) = Weight(Answers(entries), entries)
  BY <1>4, <1>5, WeightOfSame
<1>7. IsOrderOf(AtTheEnd(k, entries, pairs), Cached(new))
  <2>1. IsOrderOf(pairs, Cached(entries))
    BY DEF Accounted
  <2>2. IsOrderOf(AtTheEnd(k, entries, pairs), Cached(entries) \cup {k})
    BY <2>1, OrderAtTheEnd
  <2> QED
    BY <1>2, <2>2
<1> QED
  BY <1>3, <1>4, <1>6, <1>7 DEF Accounted

\* An answer takes the place of its pending entry.
LEMMA Answered ==
  ASSUME NEW entries, EntriesTyped(entries), NEW pairs, NEW bytes,
         Accounted(entries, pairs, bytes), NEW k \in Key, entries[k].state = "pending",
         NEW r, NEW size \in Nat,
         NEW new, new[k] = Completed(r, size), \A j \in Key \ {k} : new[j] = entries[j]
  PROVE  /\ Accounted(new, pairs, bytes + size) /\ bytes \in Nat
         /\ Cached(new) = Cached(entries)
<1>2. Cached(new) = Cached(entries)
  BY DEF Cached, Completed, NoEntry
<1> DEFINE old == Answers(entries)
<1>3. Answers(new) = old \cup {k} /\ k \notin old
  BY DEF Answers, Completed
<1>4. IsFiniteSet(old) /\ IsFiniteSet(old \cup {k})
  BY FS_Subset, FS_AddElement, AnswersAreCached DEF Accounted
<1>5. \A j \in old : new[j].bytes = entries[j].bytes /\ entries[j].bytes \in Nat
  BY <1>3, AnswersAreCached DEF Answers
<1>6. new[k].bytes = size
  BY DEF Completed
<1>7. Weight(old \cup {k}, new) = Weight(old, entries) + size /\ Weight(old, entries) \in Nat
  <2> HIDE DEF old
  <2>1. new[k].bytes \in Nat
    BY <1>6
  <2>2. /\ Weight(old \cup {k}, new) = Weight(old, entries) + new[k].bytes
        /\ Weight(old, entries) \in Nat
    BY <1>3, <1>4, <1>5, <2>1, WeightOfMore
  <2> QED
    BY <1>6, <2>2
<1>8. bytes = Weight(old, entries)
  BY DEF Accounted
<1> QED
  BY <1>2, <1>3, <1>7, <1>8 DEF Accounted

-----------------------------------------------------------------------------
(* The account: eviction.                                                  *)

Earlier(entries, k) == {j \in Answers(entries) : Before(j, k)}

\* In the order of the Map there are fewer answers before an earlier one.
LEMMA EarlierGrows ==
  ASSUME NEW entries, EntriesTyped(entries), IsFiniteSet(Cached(entries)),
         IsOrderOf(order, Cached(entries)),
         NEW j \in Answers(entries), NEW k \in Answers(entries), Before(j, k)
  PROVE  /\ Earlier(entries, j) \subseteq Earlier(entries, k)
         /\ j \in Earlier(entries, k) /\ j \notin Earlier(entries, j)
         /\ Cardinality(Earlier(entries, j)) < Cardinality(Earlier(entries, k))
<1>1. Answers(entries) \subseteq Cached(entries)
  BY AnswersAreCached
<1>2. Earlier(entries, j) \subseteq Earlier(entries, k)
  BY <1>1 DEF Earlier, Before, IsOrderOf
<1>3. j \in Earlier(entries, k) /\ j \notin Earlier(entries, j)
  BY <1>1 DEF Earlier, Before, IsOrderOf
<1>4. IsFiniteSet(Earlier(entries, k)) /\ IsFiniteSet(Earlier(entries, j))
  BY <1>1, FS_Subset DEF Earlier
<1>5. /\ Cardinality(Earlier(entries, j)) <= Cardinality(Earlier(entries, k))
      /\ Cardinality(Earlier(entries, j)) # Cardinality(Earlier(entries, k))
      /\ Cardinality(Earlier(entries, j)) \in Nat /\ Cardinality(Earlier(entries, k)) \in Nat
  BY <1>2, <1>3, <1>4, FS_Subset, FS_CardinalityType
<1> QED
  BY <1>2, <1>3, <1>5

LEMMA EvictedAre ==
  ASSUME NEW entries, NEW bytes, NEW k \in Key
  PROVE  k \in Evicted(entries, bytes) <=>
           /\ k \in Answers(entries)
           /\ \/ Cardinality(Cached(entries)) - Cardinality(Earlier(entries, k)) > MaxEntries
              \/ bytes - Weight(Earlier(entries, k), entries) > MaxBytes
<1>1. Earlier(entries, k) = {j \in Key : entries[j].state = "completed" /\ Before(j, k)}
  BY DEF Earlier, Answers
<1> QED
  BY <1>1, Zenon DEF Evicted, Answers

\* What is evicted are the answers before the first that is kept, if one is.
LEMMA EvictedUpTo ==
  ASSUME NEW entries, EntriesTyped(entries), NEW bytes \in Nat,
         Accounted(entries, order, bytes),
         NEW gone, gone = Evicted(entries, bytes), ~(Answers(entries) \subseteq gone)
  PROVE  \E k \in Answers(entries) \ gone : gone = Earlier(entries, k)
<1> DEFINE Ahead(k) == Earlier(entries, k)
           heads == {Ahead(k) : k \in Answers(entries) \ gone}
<1>1. /\ IsFiniteSet(Cached(entries)) /\ IsOrderOf(order, Cached(entries))
      /\ Answers(entries) \subseteq Cached(entries) /\ Answers(entries) \subseteq Key
      /\ \A k \in Cached(entries) : entries[k].bytes \in Nat
  BY AnswersAreCached DEF Accounted
<1>2. ASSUME NEW k \in Key
      PROVE  /\ IsFiniteSet(Ahead(k)) /\ Cardinality(Ahead(k)) \in Nat
             /\ Ahead(k) \subseteq Answers(entries)
  <2>1. Ahead(k) \in SUBSET Answers(entries) /\ Ahead(k) \in SUBSET Cached(entries)
    BY <1>1 DEF Earlier
  <2>2. IsFiniteSet(Ahead(k))
    BY <1>1, <2>1, FS_Subset
  <2> QED
    BY <2>1, <2>2, FS_CardinalityType
<1>3. PICK k \in Answers(entries) \ gone :
        \A j \in Answers(entries) \ gone : ~(Cardinality(Ahead(j)) < Cardinality(Ahead(k)))
  <2>1. heads # {} /\ \A S \in heads : IsFiniteSet(S)
    BY <1>1, <1>2
  <2>2. PICK S \in heads : \A T \in heads : ~(Cardinality(T) < Cardinality(S))
    <3> HIDE DEF heads
    <3> QED
      BY <2>1, SmallestSet
  <2>3. PICK k \in Answers(entries) \ gone : S = Ahead(k)
    OBVIOUS
  <2> QED
    BY <2>2, <2>3
<1>4. k \in Key /\ k \in Answers(entries)
  BY <1>1, <1>3
<1>5. ASSUME NEW j \in Ahead(k), j \notin gone PROVE FALSE
  <2>1. j \in Answers(entries) /\ Before(j, k)
    BY DEF Earlier
  <2>2. Cardinality(Ahead(j)) < Cardinality(Ahead(k))
    BY <1>1, <1>4, <2>1, EarlierGrows
  <2> QED
    BY <1>3, <1>5, <2>1, <2>2
<1>6. ASSUME NEW j \in gone, j \notin Ahead(k) PROVE FALSE
  <2>1. j \in Key /\ j \in Answers(entries)
    BY EvictedAre DEF Evicted
  <2>2. Before(k, j)
    <3>1. j # k /\ ~Before(j, k)
      BY <1>3, <1>6, <2>1 DEF Earlier
    <3> QED
      BY <1>1, <1>4, <2>1, <3>1 DEF IsOrderOf, Before
  <2>3. /\ Ahead(k) \subseteq Ahead(j)
        /\ Cardinality(Ahead(k)) < Cardinality(Ahead(j))
    BY <1>1, <1>4, <2>1, <2>2, EarlierGrows
  <2>4. /\ Weight(Ahead(k), entries) <= Weight(Ahead(j), entries)
        /\ Weight(Ahead(k), entries) \in Nat /\ Weight(Ahead(j), entries) \in Nat
    <3>1. /\ IsFiniteSet(Ahead(j)) /\ Ahead(k) \in SUBSET Ahead(j)
          /\ \A i \in Ahead(j) : entries[i].bytes \in Nat
      BY <1>1, <1>2, <2>1, <2>3
    <3> HIDE DEF Ahead
    <3> QED
      BY <3>1, WeightWithout
  <2>5. /\ ~(Cardinality(Cached(entries)) - Cardinality(Ahead(k)) > MaxEntries)
        /\ ~(bytes - Weight(Ahead(k), entries) > MaxBytes)
    BY <1>3, <1>4, EvictedAre
  <2>6. \/ Cardinality(Cached(entries)) - Cardinality(Ahead(j)) > MaxEntries
        \/ bytes - Weight(Ahead(j), entries) > MaxBytes
    BY <1>6, <2>1, EvictedAre
  <2>7. /\ Cardinality(Cached(entries)) \in Nat /\ MaxEntries \in Nat /\ MaxBytes \in Nat
        /\ Cardinality(Ahead(j)) \in Nat /\ Cardinality(Ahead(k)) \in Nat
    BY <1>1, <1>2, <1>4, <2>1, FS_CardinalityType, SizeAssumption
  <2> HIDE DEF Ahead
  <2> QED
    BY <2>3, <2>4, <2>5, <2>6, <2>7
<1>7. gone = Ahead(k)
  BY <1>5, <1>6
<1> QED
  BY <1>3, <1>7

\* After eviction the cache is within its limits.
LEMMA EvictedEnough ==
  ASSUME NEW entries, EntriesTyped(entries), NEW bytes \in Nat,
         Accounted(entries, order, bytes),
         NEW gone, gone = Evicted(entries, bytes),
         NEW new, new = [k \in Key |-> IF k \in gone THEN NoEntry ELSE entries[k]]
  PROVE  /\ Accounted(new, Without(gone, order), bytes - Weight(gone, entries))
         /\ Within(new, bytes - Weight(gone, entries))
         /\ Weight(gone, entries) \in Nat
<1>1. gone \subseteq Answers(entries) /\ Answers(entries) \subseteq Cached(entries)
  BY EvictedAre, AnswersAreCached DEF Evicted
<1>2. gone \cap Answers(entries) = gone
  BY <1>1
<1>3. /\ Accounted(new, Without(gone, order), bytes - Weight(gone \cap Answers(entries), entries))
      /\ Answers(new) = Answers(entries) \ gone
      /\ Weight(gone \cap Answers(entries), entries) \in Nat
  BY <1>1, Dropped
<1>4. Weight(gone \cap Answers(entries), entries) = Weight(gone, entries)
  BY <1>2, Zenon
<1>5. MaxBytes \in Nat /\ MaxEntries \in Nat
  BY SizeAssumption
<1>6. CASE Answers(entries) \subseteq gone
  <2>1. gone = Answers(entries)
    BY <1>1, <1>6
  <2>2. Weight(gone, entries) = bytes
    BY <2>1, Zenon DEF Accounted
  <2>3. Answers(new) = {}
    BY <1>3, <2>1
  <2>4. Cardinality(Answers(new)) = 0
    BY <2>3, FS_EmptySet, Zenon
  <2> QED
    BY <1>3, <1>4, <1>5, <2>2, <2>4 DEF Within
<1>7. CASE ~(Answers(entries) \subseteq gone)
  <2>1. PICK k \in Answers(entries) \ gone : gone = Earlier(entries, k)
    BY <1>7, EvictedUpTo
  <2>2. k \in Key /\ k \notin Evicted(entries, bytes)
    BY DEF Answers
  <2>3. /\ ~(Cardinality(Cached(entries)) - Cardinality(Earlier(entries, k)) > MaxEntries)
        /\ ~(bytes - Weight(Earlier(entries, k), entries) > MaxBytes)
    BY <2>1, <2>2, EvictedAre
  <2>4. /\ Cardinality(Earlier(entries, k)) = Cardinality(gone)
        /\ Weight(Earlier(entries, k), entries) = Weight(gone, entries)
    BY <2>1, Zenon
  <2>5. IsFiniteSet(Cached(entries)) /\ gone \in SUBSET Cached(entries)
    BY <1>1 DEF Accounted
  <2>6. /\ Cardinality(Cached(entries) \ gone) = Cardinality(Cached(entries)) - Cardinality(gone)
        /\ IsFiniteSet(Cached(entries) \ gone)
        /\ Cardinality(gone) \in Nat /\ Cardinality(Cached(entries)) \in Nat
    <3>1. Cached(entries) \cap gone = gone
      BY <2>5
    <3>2. /\ Cardinality(Cached(entries) \ gone)
                = Cardinality(Cached(entries)) - Cardinality(Cached(entries) \cap gone)
          /\ IsFiniteSet(Cached(entries) \ gone) /\ IsFiniteSet(gone)
      BY <2>5, FS_Difference, FS_Subset
    <3>3. Cardinality(Cached(entries) \cap gone) = Cardinality(gone)
      BY <3>1, Zenon
    <3> QED
      BY <2>5, <3>2, <3>3, FS_CardinalityType
  <2>7. /\ Cardinality(Answers(new)) <= Cardinality(Cached(entries) \ gone)
        /\ Cardinality(Answers(new)) \in Nat
    <3>1. Answers(new) \in SUBSET (Cached(entries) \ gone)
      BY <1>1, <1>3
    <3> QED
      BY <2>6, <3>1, FS_Subset, FS_CardinalityType
  <2>8. Cardinality(Answers(new)) <= MaxEntries /\ bytes - Weight(gone, entries) <= MaxBytes
    BY <1>3, <1>4, <1>5, <2>3, <2>4, <2>6, <2>7
  <2> QED
    BY <1>3, <1>4, <2>8 DEF Within
<1> QED
  BY <1>6, <1>7

-----------------------------------------------------------------------------
(* The account: the steps.                                                 *)

\* An entry that is pending is released, or its answer is too large to keep.
LEMMA ReleaseBalances ==
  ASSUME Typed, Balanced, NEW k \in Key, entry[k].state = "pending",
         entry' = [entry EXCEPT ![k] = NoEntry], order' = Without({k}, order),
         UNCHANGED cachedBytes
  PROVE  Balanced'
<1>1. EntriesTyped(entry) /\ {k} \subseteq Cached(entry) /\ {k} \cap Answers(entry) = {}
  BY DEF Typed, EntriesTyped, Cached, Answers, NoEntry
<1>2. entry' = [j \in Key |-> IF j \in {k} THEN NoEntry ELSE entry[j]]
  BY DEF Typed
<1>3. Weight({k} \cap Answers(entry), entry) = 0
  <2>1. Weight({k} \cap Answers(entry), entry) = Weight({}, entry)
    BY <1>1, Zenon
  <2> QED
    BY <2>1, WeightOfNone
<1>4. Accounted(entry, order, cachedBytes)
  BY DEF Balanced
<1>5. /\ Accounted(entry', order', cachedBytes - Weight({k} \cap Answers(entry), entry))
      /\ Answers(entry') = Answers(entry) \ {k} /\ cachedBytes \in Nat
  BY <1>1, <1>2, <1>4, Dropped
<1>6. cachedBytes - Weight({k} \cap Answers(entry), entry) = cachedBytes
  BY <1>3, <1>5
<1>7. /\ Within(entry, cachedBytes) /\ IsFiniteSet(Cached(entry))
      /\ Answers(entry') \subseteq Answers(entry)
  BY <1>5 DEF Balanced, Accounted
<1>8. Within(entry', cachedBytes - 0)
  BY <1>1, <1>5, <1>7, WithinLess
<1>9. cachedBytes - 0 = cachedBytes
  BY <1>5
<1> QED
  BY <1>5, <1>6, <1>8, <1>9 DEF Balanced, Accounted, Within, Answers, Cached

\* What pruneExpired leaves.
LEMMA PruneBalances ==
  ASSUME Typed, Balanced
  PROVE  /\ Accounted(PruneExpired.entry, PruneExpired.order, PruneExpired.bytes)
         /\ Within(PruneExpired.entry, PruneExpired.bytes)
         /\ EntriesTyped(PruneExpired.entry)
<1> DEFINE new == PruneExpired.entry
<1>1. EntriesTyped(entry) /\ Expired \subseteq Answers(entry) /\ Answers(entry) \subseteq Cached(entry)
  BY AnswersAreCached DEF Typed, EntriesTyped, Expired, IsCompleted, Answers
<1>2. /\ new = [k \in Key |-> IF k \in Expired THEN NoEntry ELSE entry[k]]
      /\ PruneExpired.order = Without(Expired, order)
      /\ PruneExpired.bytes = cachedBytes - Weight(Expired, entry)
  BY DEF PruneExpired
<1>3. EntriesTyped(new)
  BY <1>1, <1>2 DEF EntriesTyped
<1> HIDE DEF new
<1>4. Expired \cap Answers(entry) = Expired
  BY <1>1
<1>5. Weight(Expired \cap Answers(entry), entry) = Weight(Expired, entry)
  BY <1>4, Zenon
<1>6. /\ Accounted(new, Without(Expired, order), cachedBytes - Weight(Expired \cap Answers(entry), entry))
      /\ Answers(new) = Answers(entry) \ Expired
      /\ Weight(Expired \cap Answers(entry), entry) \in Nat /\ cachedBytes \in Nat
  BY <1>1, <1>2, Dropped DEF Balanced
<1>7. Within(new, cachedBytes - Weight(Expired \cap Answers(entry), entry))
  BY <1>1, <1>6, WithinLess DEF Balanced, Accounted
<1> QED
  BY <1>2, <1>3, <1>5, <1>6, <1>7 DEF new

LEMMA LookUpBalances ==
  ASSUME Typed, Balanced, NEW r \in Request, LookUp(r)
  PROVE  Balanced'
<1> DEFINE k == KeyOf[r]
           cache == PruneExpired
<1>1. /\ Accounted(cache.entry, cache.order, cache.bytes) /\ Within(cache.entry, cache.bytes)
      /\ EntriesTyped(cache.entry) /\ k \in Key
  BY PruneBalances, RequestAssumption
<1>2. cachedBytes' = cache.bytes
  BY DEF LookUp
<1>3. CASE /\ cache.entry[k] = NoEntry
           /\ entry' = [cache.entry EXCEPT ![k] = Pending(r)]
           /\ order' = AtTheEnd(k, cache.entry, cache.order)
  <2> HIDE DEF k, cache
  <2>1. /\ Accounted(entry', AtTheEnd(k, cache.entry, cache.order), cache.bytes)
        /\ Answers(entry') = Answers(cache.entry)
    BY <1>1, <1>3, Claimed
  <2> QED
    BY <1>1, <1>2, <1>3, <2>1 DEF Balanced, Accounted, Within, Answers, Cached
<1>4. CASE entry' = cache.entry /\ order' = cache.order
  BY <1>1, <1>2, <1>4 DEF Balanced, Accounted, Within, Answers, Cached
<1>5. CASE /\ cache.entry[k] # NoEntry
           /\ entry' = cache.entry /\ order' = AtTheEnd(k, cache.entry, cache.order)
  <2>1. k \in Cached(cache.entry)
    BY <1>1, <1>5 DEF Cached
  <2> HIDE DEF k, cache
  <2>2. IsOrderOf(cache.order, Cached(cache.entry))
    BY <1>1 DEF Accounted
  <2>3. IsOrderOf(AtTheEnd(k, cache.entry, cache.order), Cached(cache.entry) \cup {k})
    BY <2>2, OrderAtTheEnd
  <2>4. Cached(cache.entry) \cup {k} = Cached(cache.entry)
    BY <2>1
  <2>5. IsOrderOf(order', Cached(cache.entry))
    BY <1>5, <2>3, <2>4, Zenon
  <2> QED
    BY <1>1, <1>2, <1>5, <2>5 DEF Balanced, Accounted, Within, Answers, Cached
<1> QED
  BY <1>3, <1>4, <1>5 DEF LookUp

LEMMA CompleteBalances ==
  ASSUME Typed, Balanced, NEW r \in Request, NEW bytes \in Nat, Complete(r, bytes)
  PROVE  Balanced'
<1> DEFINE k == KeyOf[r]
           entries == [entry EXCEPT ![k] = Completed(r, bytes)]
           gone == Evicted(entries, cachedBytes + bytes)
<1>1. k \in Key /\ EntriesTyped(entry)
  BY RequestAssumption DEF Typed, EntriesTyped
<1>2. CASE UNCHANGED <<entry, order, cachedBytes>>
  BY <1>2 DEF Balanced, Accounted, Within, Answers, Cached
<1>3. CASE /\ Owns(r) /\ entry' = [entry EXCEPT ![k] = NoEntry]
           /\ order' = Without({k}, order) /\ UNCHANGED cachedBytes
  BY <1>1, <1>3, ReleaseBalances DEF Owns
<1>4. CASE /\ Owns(r)
           /\ entry' = [j \in Key |-> IF j \in gone THEN NoEntry ELSE entries[j]]
           /\ order' = Without(gone, order)
           /\ cachedBytes' = cachedBytes + bytes - Weight(gone, entries)
  <2>1. entries[k] = Completed(r, bytes) /\ \A j \in Key \ {k} : entries[j] = entry[j]
    BY <1>1 DEF EntriesTyped
  <2>2. EntriesTyped(entries)
    BY <1>1 DEF EntriesTyped, Completed, Entry, Typed
  <2>3. entry[k].state = "pending"
    BY <1>4 DEF Owns
  <2> HIDE DEF k, entries
  <2>4. Accounted(entries, order, cachedBytes + bytes) /\ cachedBytes \in Nat
    BY <1>1, <2>1, <2>3, Answered DEF Balanced
  <2> DEFINE sum == cachedBytes + bytes
  <2>5. sum \in Nat /\ Accounted(entries, order, sum)
    BY <2>4
  <2>6. gone = Evicted(entries, sum)
    OBVIOUS
  <2>7. entry' = [j \in Key |-> IF j \in gone THEN NoEntry ELSE entries[j]]
    BY <1>4
  <2> HIDE DEF gone, sum
  <2>8. /\ Accounted(entry', Without(gone, order), sum - Weight(gone, entries))
        /\ Within(entry', sum - Weight(gone, entries))
        /\ Weight(gone, entries) \in Nat
    BY <2>2, <2>5, <2>6, <2>7, EvictedEnough
  <2>9. cachedBytes' = sum - Weight(gone, entries)
    BY <1>4, <2>4, <2>8 DEF sum
  <2>10. Accounted(entry', order', cachedBytes') /\ Within(entry', cachedBytes')
    BY <1>4, <2>8, <2>9
  <2> QED
    BY <2>10 DEF Balanced, Accounted, Within, Answers, Cached
<1> QED
  BY <1>2, <1>3, <1>4 DEF Complete

LEMMA StepBalances ==
  ASSUME Typed, Balanced, [Next]_vars
  PROVE  Balanced'
<1>1. CASE UNCHANGED <<entry, order, cachedBytes>>
  BY <1>1 DEF Balanced, Accounted, Within, Answers, Cached
<1>2. ASSUME NEW r \in Request, SendJson(r) \/ Finish(r) PROVE Balanced'
  <2>1. PICK bytes \in Nat : Complete(r, bytes)
    BY <1>2, SizeAssumption DEF SendJson, Finish
  <2> QED
    BY <2>1, CompleteBalances
<1>3. ASSUME NEW r \in Request, Disconnect(r) PROVE Balanced'
  <2>1. CASE /\ Owns(r) /\ entry' = [entry EXCEPT ![KeyOf[r]] = NoEntry]
             /\ order' = Without({KeyOf[r]}, order) /\ UNCHANGED cachedBytes
    BY <2>1, RequestAssumption, ReleaseBalances DEF Owns
  <2> QED
    BY <1>1, <1>3, <2>1 DEF Disconnect
<1>4. ASSUME NEW r \in Request, Arrive(r) \/ SendEmpty(r) PROVE Balanced'
  BY <1>1, <1>4 DEF Arrive, SendEmpty
<1> QED
  BY <1>1, <1>2, <1>3, <1>4, LookUpBalances DEF Next, Tick, vars

LEMMA InitBalances == Init => Balanced
<1> SUFFICES ASSUME Init PROVE Balanced
  OBVIOUS
<1>1. Cached(entry) = {} /\ Answers(entry) = {} /\ order = {} /\ cachedBytes = 0
  BY DEF Init, Cached, Answers, NoEntry
<1>2. /\ IsFiniteSet(Cached(entry)) /\ Cardinality(Answers(entry)) = 0
      /\ Weight(Answers(entry), entry) = 0
  BY <1>1, FS_EmptySet, WeightOfNone, Zenon
<1>3. IsOrderOf(order, Cached(entry))
  BY <1>1 DEF IsOrderOf
<1> QED
  BY <1>1, <1>2, <1>3, SizeAssumption DEF Balanced, Accounted, Within

\* However answers come late, are too large, expire or are evicted and whoever hangs up, the
\* cache's account of its bytes is right and the cache is within its limits
\* (complete, pruneExpired and enforceBounds of http/headless-idempotency.ts).
THEOREM BytesAreAccounted == Spec => []BytesAccounted
<1>1. Inductive /\ Balanced /\ [Next]_vars => Balanced'
  BY StepBalances DEF Inductive
<1>2. Balanced => BytesAccounted
  BY DEF Balanced, Accounted, Within, BytesAccounted, Answers, IsCompleted
<1> QED
  BY <1>1, <1>2, InitBalances, InductiveHolds, PTL DEF Spec

-----------------------------------------------------------------------------
(* The type invariant.                                                     *)

Bounded ==
  /\ now \in 0..MaxTime /\ connected \in [Request -> BOOLEAN]
  /\ entry \in [Key -> Entries]

LEMMA EntriesMade ==
  ASSUME now \in 0..MaxTime, NEW r \in Request
  PROVE  /\ NoEntry \in Entries /\ Pending(r) \in Entries
         /\ \A bytes \in JsonBytes \cup {0} : Completed(r, bytes) \in Entries
<1>1. NoEntry \in Entries
  BY DEF Entries
<1>2. Pending(r) \in Entries
  BY DEF Pending, Entries
<1>3. \A bytes \in JsonBytes \cup {0} : Completed(r, bytes) \in Entries
  BY DEF Completed, Entries
<1> QED
  BY <1>1, <1>2, <1>3

LEMMA StepIsBounded ==
  ASSUME Typed, Bounded, [Next]_vars
  PROVE  Bounded'
<1>1. MaxTime \in Nat /\ KeyOf \in [Request -> Key]
  BY SizeAssumption, RequestAssumption
<1>2. ASSUME NEW r \in Request, Arrive(r) \/ SendEmpty(r) PROVE Bounded'
  BY <1>2 DEF Arrive, SendEmpty, Bounded
<1>3. ASSUME NEW r \in Request, LookUp(r) PROVE Bounded'
  <2> DEFINE cache == PruneExpired.entry
  <2>1. NoEntry \in Entries /\ Pending(r) \in Entries
    BY EntriesMade DEF Bounded
  <2>2. cache \in [Key -> Entries]
    BY <2>1 DEF Bounded, PruneExpired
  <2>3. entry' = cache \/ entry' = [cache EXCEPT ![KeyOf[r]] = Pending(r)]
    BY <1>3 DEF LookUp
  <2> HIDE DEF cache
  <2>4. entry' \in [Key -> Entries]
    BY <2>1, <2>2, <2>3
  <2> QED
    BY <1>3, <2>4 DEF LookUp, Bounded
<1>4. ASSUME NEW r \in Request, NEW bytes \in JsonBytes \cup {0}, Complete(r, bytes)
      PROVE  entry' \in [Key -> Entries]
  <2> DEFINE entries == [entry EXCEPT ![KeyOf[r]] = Completed(r, bytes)]
             gone == Evicted(entries, cachedBytes + bytes)
  <2>1. NoEntry \in Entries /\ Completed(r, bytes) \in Entries
    BY EntriesMade DEF Bounded
  <2>2. entries \in [Key -> Entries] /\ entry \in [Key -> Entries]
    BY <2>1 DEF Bounded
  <2>3. \/ entry' = entry \/ entry' = [entry EXCEPT ![KeyOf[r]] = NoEntry]
        \/ entry' = [j \in Key |-> IF j \in gone THEN NoEntry ELSE entries[j]]
    BY <1>4 DEF Complete
  <2> HIDE DEF entries, gone
  <2> QED
    BY <2>1, <2>2, <2>3
<1>5. ASSUME NEW r \in Request, SendJson(r) \/ Finish(r) PROVE Bounded'
  BY <1>4, <1>5 DEF SendJson, Finish, Bounded
<1>6. ASSUME NEW r \in Request, Disconnect(r) PROVE Bounded'
  <2>1. NoEntry \in Entries
    BY EntriesMade DEF Bounded
  <2>2. entry' = entry \/ entry' = [entry EXCEPT ![KeyOf[r]] = NoEntry]
    BY <1>6 DEF Disconnect
  <2>3. entry' \in [Key -> Entries]
    BY <2>1, <2>2 DEF Bounded
  <2> QED
    BY <1>6, <2>3 DEF Disconnect, Bounded
<1>7. CASE Tick
  BY <1>1, <1>7 DEF Tick, Bounded
<1>8. CASE UNCHANGED vars
  BY <1>8 DEF vars, Bounded
<1> QED
  BY <1>2, <1>3, <1>5, <1>6, <1>7, <1>8 DEF Next

\* The cache, its order and the requests keep their types: the Map's order is always one
\* of just the keys that have an entry.
THEOREM TypeCorrect == Spec => []TypeOK
<1>1. Init => Bounded
  BY SizeAssumption DEF Init, Bounded, Entries
<1>2. Inductive /\ Bounded /\ [Next]_vars => Bounded'
  BY StepIsBounded DEF Inductive
<1>3. Inductive /\ Balanced /\ Bounded => TypeOK
  <2> SUFFICES ASSUME Inductive, Balanced, Bounded PROVE TypeOK
    OBVIOUS
  <2>1. cachedBytes \in Nat
    <3>1. /\ IsFiniteSet(Answers(entry))
          /\ \A k \in Answers(entry) : entry[k].bytes \in Nat
      BY AnswersAreCached, FS_Subset DEF Inductive, Typed, EntriesTyped, Balanced, Accounted
    <3> QED
      BY <3>1, WeightIsNatural DEF Balanced, Accounted
  <2> QED
    BY <2>1 DEF Inductive, Typed, Bounded, Balanced, Accounted, TypeOK
<1>4. Inductive /\ Balanced /\ [Next]_vars => Balanced'
  BY StepBalances DEF Inductive
<1> QED
  BY <1>1, <1>2, <1>3, <1>4, InitBalances, InductiveHolds, PTL DEF Spec
=============================================================================
