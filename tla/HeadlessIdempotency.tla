------------------------ MODULE HeadlessIdempotency ------------------------
(***************************************************************************)
(* The replay cache for mutations with an Idempotency-Key:                 *)
(* src/http/headless-idempotency.ts and the places of src/http/router.ts   *)
(* that prepare a request and record its answer.                           *)
(*                                                                         *)
(* A request is looked up, waits for the execution under way, is answered  *)
(* from the cache or executes the mutation itself.  Handlers, answers and  *)
(* clients that hang up interleave; the code between two awaits is one     *)
(* step.  The kernel behind the handlers is left out: what matters here is *)
(* which request executes and whose answer it gets.                        *)
(***************************************************************************)
EXTENDS Integers, FiniteSets, FiniteSetsExt

CONSTANTS
  Request,      \* requests that pass the checks of headers and body
  Key,          \* idempotency keys
  KeyOf,        \* the key each request carries
  Payload,      \* its fingerprint: method, resource and body
  MayLeave,     \* requests whose client may hang up
  JsonBytes,    \* possible sizes of a JSON answer
  MayBeEmpty,   \* a mutation may answer 204
  MaxResponse,  \* maximumCachedResponseBytes
  MaxBytes,     \* maximumCacheBytes
  MaxEntries,   \* maximumEntries
  Lifetime,     \* entryLifetimeMs
  MaxTime       \* bound: the clock

ASSUME RequestAssumption == IsFiniteSet(Request) /\ KeyOf \in [Request -> Key]
ASSUME LeaveAssumption == MayLeave \subseteq Request /\ MayBeEmpty \in BOOLEAN
ASSUME SizeAssumption ==
  /\ JsonBytes \subseteq Nat
  /\ {MaxResponse, MaxBytes, Lifetime, MaxTime} \subseteq Nat
  /\ MaxEntries \in Nat \ {0}

VARIABLES
  now,
  stage,        \* "new", "looking", "waiting", "running", "ended" or how it finished
  connected,    \* the client has not hung up
  awaits,       \* the request whose execution a request awaits or last awaited
  answer,       \* the request whose execution it was answered from
  entry,        \* entries.get(key)
  order,        \* the Map's order: pairs of keys, the earlier one first
  cachedBytes

vars == <<now, stage, connected, awaits, answer, entry, order, cachedBytes>>

Nobody == "nobody"
NoEntry == [state |-> "none", by |-> Nobody, at |-> 0, bytes |-> 0]
Pending(r) == [state |-> "pending", by |-> r, at |-> now, bytes |-> 0]
Completed(r, bytes) == [state |-> "completed", by |-> r, at |-> now, bytes |-> bytes]

Stages == {"new", "looking", "waiting", "running", "ended", "executed", "replayed",
           "refused"}

Init ==
  /\ now = 0
  /\ stage = [r \in Request |-> "new"]
  /\ connected = [r \in Request |-> TRUE]
  /\ awaits = [r \in Request |-> Nobody]
  /\ answer = [r \in Request |-> Nobody]
  /\ entry = [k \in Key |-> NoEntry]
  /\ order = {}
  /\ cachedBytes = 0

IsCompleted(k) == entry[k].state = "completed"
Weight(keys, entries) == MapThenSumSet(LAMBDA k : entries[k].bytes, keys)

\* The keys of the Map, their order without some of them, and with k at its end.
Cached(entries) == {k \in Key : entries[k] # NoEntry}
Without(keys, pairs) == {p \in pairs : p[1] \notin keys /\ p[2] \notin keys}
AtTheEnd(k, entries, pairs) ==
  Without({k}, pairs) \cup ((Cached(entries) \ {k}) \X {k})

-----------------------------------------------------------------------------
(* prepare *)

\* Mutant of Expired: an answer lives one tick too long.
ExpiredLate == {k \in Key : IsCompleted(k) /\ entry[k].at < now - Lifetime - 1}

Expired == {k \in Key : IsCompleted(k) /\ entry[k].at < now - Lifetime}

\* What the cache holds after pruneExpired.
PruneExpired ==
  [entry |-> [k \in Key |-> IF k \in Expired THEN NoEntry ELSE entry[k]],
   order |-> Without(Expired, order),
   bytes |-> cachedBytes - Weight(Expired, entry)]

\* The request's body has been read.
Arrive(r) ==
  /\ stage[r] = "new"
  /\ stage' = [stage EXCEPT ![r] = "looking"]
  /\ UNCHANGED <<now, connected, awaits, answer, entry, order, cachedBytes>>

\* Mutant of LookUp: the fingerprint is not compared.
LookUpByKey(r) ==
  LET k == KeyOf[r]
      cache == PruneExpired
      found == cache.entry[k]
  IN /\ stage[r] = "looking"
     /\ cachedBytes' = cache.bytes
     /\ \/ /\ found = NoEntry
           /\ entry' = [cache.entry EXCEPT ![k] = Pending(r)]
           /\ order' = AtTheEnd(k, cache.entry, cache.order)
           /\ stage' = [stage EXCEPT ![r] = "running"]
           /\ UNCHANGED <<awaits, answer>>
        \/ /\ found.state = "completed"
           /\ entry' = cache.entry
           /\ order' = AtTheEnd(k, cache.entry, cache.order)
           /\ stage' = [stage EXCEPT ![r] = "replayed"]
           /\ answer' = [answer EXCEPT ![r] = found.by]
           /\ UNCHANGED awaits
        \/ /\ found.state = "pending"
           /\ stage' = [stage EXCEPT ![r] = "waiting"]
           /\ awaits' = [awaits EXCEPT ![r] = found.by]
           /\ entry' = cache.entry /\ order' = cache.order
           /\ UNCHANGED answer
     /\ UNCHANGED <<now, connected>>

\* One round of prepare's loop: the request becomes the one that executes, is
\* refused, is answered from the cache (which makes its entry the youngest) or
\* waits for the execution under way.
LookUp(r) ==
  LET k == KeyOf[r]
      cache == PruneExpired
      found == cache.entry[k]
      same == found # NoEntry /\ Payload[found.by] = Payload[r]
  IN /\ stage[r] = "looking"
     /\ cachedBytes' = cache.bytes
     /\ \/ /\ found = NoEntry
           /\ entry' = [cache.entry EXCEPT ![k] = Pending(r)]
           /\ order' = AtTheEnd(k, cache.entry, cache.order)
           /\ stage' = [stage EXCEPT ![r] = "running"]
           /\ UNCHANGED <<awaits, answer>>
        \/ /\ found # NoEntry /\ ~same
           /\ stage' = [stage EXCEPT ![r] = "refused"]
           /\ entry' = cache.entry /\ order' = cache.order
           /\ UNCHANGED <<awaits, answer>>
        \/ /\ same /\ found.state = "completed"
           /\ entry' = cache.entry
           /\ order' = AtTheEnd(k, cache.entry, cache.order)
           /\ stage' = [stage EXCEPT ![r] = "replayed"]
           /\ answer' = [answer EXCEPT ![r] = found.by]
           /\ UNCHANGED awaits
        \/ /\ same /\ found.state = "pending"
           /\ stage' = [stage EXCEPT ![r] = "waiting"]
           /\ awaits' = [awaits EXCEPT ![r] = found.by]
           /\ entry' = cache.entry /\ order' = cache.order
           /\ UNCHANGED answer
     /\ UNCHANGED <<now, connected>>

-----------------------------------------------------------------------------
(* The end of an execution *)

\* pending.resolve(): everyone who awaits r looks again.  r itself moves to `to`.
Resolve(r, to) ==
  stage' = [s \in Request |->
              IF s = r THEN to
              ELSE IF stage[s] = "waiting" /\ awaits[s] = r THEN "looking"
              ELSE stage[s]]

\* The entry of r's key is still the one that r put there.
Owns(r) == entry[KeyOf[r]].state = "pending" /\ entry[KeyOf[r]].by = r

\* j comes before k in the Map's order.
Before(j, k) == <<j, k>> \in order

\* enforceBounds: completed entries are dropped in the Map's order, pending
\* ones skipped, as long as the cache is not within its limits.
Evicted(entries, bytes) ==
  {k \in Key :
     LET dropped == {j \in Key : entries[j].state = "completed" /\ Before(j, k)}
     IN /\ entries[k].state = "completed"
        /\ \/ Cardinality(Cached(entries)) - Cardinality(dropped) > MaxEntries
           \/ bytes - Weight(dropped, entries) > MaxBytes}

\* complete: the answer takes the place of the pending entry, unless that is
\* gone; an answer that is too large is not kept.
Complete(r, bytes) ==
  LET k == KeyOf[r]
      entries == [entry EXCEPT ![k] = Completed(r, bytes)]
      gone == Evicted(entries, cachedBytes + bytes)
  IN \/ /\ ~Owns(r)
        /\ stage' = [stage EXCEPT ![r] = "executed"]
        /\ UNCHANGED <<entry, order, cachedBytes>>
     \/ /\ Owns(r) /\ bytes > MaxResponse
        /\ entry' = [entry EXCEPT ![k] = NoEntry]
        /\ order' = Without({k}, order)
        /\ UNCHANGED cachedBytes
        /\ Resolve(r, "executed")
     \/ /\ Owns(r) /\ bytes <= MaxResponse
        /\ entry' = [j \in Key |-> IF j \in gone THEN NoEntry ELSE entries[j]]
        /\ order' = Without(gone, order)
        /\ cachedBytes' = cachedBytes + bytes - Weight(gone, entries)
        /\ Resolve(r, "executed")

\* sendJson: the answer, an error's too, is recorded before it is sent.
SendJson(r) ==
  /\ stage[r] = "running"
  /\ \E bytes \in JsonBytes : Complete(r, bytes)
  /\ answer' = [answer EXCEPT ![r] = r]
  /\ UNCHANGED <<now, connected, awaits>>

\* The handler ends its response with 204 and no body.
SendEmpty(r) ==
  /\ MayBeEmpty
  /\ stage[r] = "running"
  /\ stage' = [stage EXCEPT ![r] = "ended"]
  /\ answer' = [answer EXCEPT ![r] = r]
  /\ UNCHANGED <<now, connected, awaits, entry, order, cachedBytes>>

\* "finish" after a 204, which is emitted only while the connection lives.
Finish(r) ==
  /\ stage[r] = "ended" /\ connected[r]
  /\ Complete(r, 0)
  /\ UNCHANGED <<now, connected, awaits, answer>>

\* Mutant of Disconnect: the waiters of a released entry are not woken.
ReleaseSilently(r) ==
  /\ r \in MayLeave /\ connected[r] /\ stage[r] \in {"looking", "waiting", "running", "ended"}
  /\ connected' = [connected EXCEPT ![r] = FALSE]
  /\ IF stage[r] \in {"running", "ended"} /\ Owns(r)
       THEN /\ entry' = [entry EXCEPT ![KeyOf[r]] = NoEntry]
            /\ order' = Without({KeyOf[r]}, order)
       ELSE UNCHANGED <<entry, order>>
  /\ UNCHANGED <<now, stage, awaits, answer, cachedBytes>>

\* The client hangs up.  The response's "close" releases the entry of the
\* request, if it has one already; the handler runs on.
Disconnect(r) ==
  /\ r \in MayLeave /\ connected[r] /\ stage[r] \in {"looking", "waiting", "running", "ended"}
  /\ connected' = [connected EXCEPT ![r] = FALSE]
  /\ IF stage[r] \in {"running", "ended"} /\ Owns(r)
       THEN /\ entry' = [entry EXCEPT ![KeyOf[r]] = NoEntry]
            /\ order' = Without({KeyOf[r]}, order)
            /\ Resolve(r, stage[r])
       ELSE UNCHANGED <<stage, entry, order>>
  /\ UNCHANGED <<now, awaits, answer, cachedBytes>>

Tick ==
  /\ now < MaxTime
  /\ now' = now + 1
  /\ UNCHANGED <<stage, connected, awaits, answer, entry, order, cachedBytes>>

Next ==
  \/ \E r \in Request : Arrive(r) \/ LookUp(r) \/ SendJson(r) \/ SendEmpty(r)
                        \/ Finish(r) \/ Disconnect(r)
  \/ Tick

Spec == Init /\ [][Next]_vars

\* Lookups run, handlers answer and what was answered is handed over.
FairSpec ==
  Spec /\ \A r \in Request :
            WF_vars(LookUp(r)) /\ WF_vars(SendJson(r) \/ SendEmpty(r)) /\ WF_vars(Finish(r))

-----------------------------------------------------------------------------
(* Properties *)

Entries == {[state |-> s, by |-> r, at |-> t, bytes |-> b] :
              s \in {"pending", "completed"}, r \in Request, t \in 0..MaxTime,
              b \in JsonBytes \cup {0}} \cup {NoEntry}

\* pairs is a strict total order of the keys.
IsOrderOf(pairs, keys) ==
  /\ pairs \subseteq keys \X keys
  /\ \A j, k \in keys : j # k => (<<j, k>> \in pairs <=> <<k, j>> \notin pairs)
  /\ \A j, k, l \in keys : <<j, k>> \in pairs /\ <<k, l>> \in pairs => <<j, l>> \in pairs
  /\ \A k \in keys : <<k, k>> \notin pairs

\* Every variable stays in its range; order is a strict order of the cached keys.
TypeOK ==
  /\ now \in 0..MaxTime
  /\ stage \in [Request -> Stages]
  /\ connected \in [Request -> BOOLEAN]
  /\ awaits \in [Request -> Request \cup {Nobody}]
  /\ answer \in [Request -> Request \cup {Nobody}]
  /\ entry \in [Key -> Entries]
  /\ IsOrderOf(order, Cached(entry))
  /\ cachedBytes \in Nat

\* Nobody waits for an execution that can no longer wake it: whoever waits,
\* waits for the one in the cache, also when a client hung up, its retry runs
\* and the first execution answers late (complete and releasePending compare
\* the entry with their own).
WaitersAwaitTheEntry ==
  \A r \in Request :
    stage[r] = "waiting" => Owns(awaits[r]) /\ KeyOf[awaits[r]] = KeyOf[r]

\* A replayed answer is the answer of an execution of the very same request.
ReplayIsOfTheSameRequest ==
  \A r \in Request :
    stage[r] = "replayed" =>
      LET s == answer[r]
      IN /\ s # r /\ stage[s] = "executed"
         /\ KeyOf[s] = KeyOf[r] /\ Payload[s] = Payload[r]

\* The cache's own account of its bytes is right, whatever was pruned, evicted,
\* released or too large to keep, and within its limits.
BytesAccounted ==
  /\ cachedBytes = Weight({k \in Key : IsCompleted(k)}, entry)
  /\ cachedBytes <= MaxBytes
  /\ Cardinality({k \in Key : IsCompleted(k)}) <= MaxEntries

\* An answer is not replayed after its lifetime, however long the request
\* waited before it was looked up.
NothingStaleReplayed ==
  [][\A r \in Request :
       stage[r] # "replayed" /\ stage'[r] = "replayed" =>
         entry[KeyOf[r]].at >= now - Lifetime]_vars

\* "protects an authenticated JSON mutation from duplicate execution"
\* (docs/headless-api.md): no mutation is executed twice at the same time.
NoConcurrentExecution ==
  \A r, s \in Request :
    stage[r] = "running" /\ stage[s] = "running" /\ KeyOf[r] = KeyOf[s] => r = s

\* "Concurrent or later identical requests receive the original status and JSON
\* body" (docs/headless-api.md): a request that waited for an execution whose
\* answer could be kept does not execute the mutation again.
WaitersAreReplayed ==
  [][\A r \in Request :
       stage[r] = "looking" /\ stage'[r] = "running" /\ awaits[r] # Nobody =>
         stage[awaits[r]] # "executed"]_vars

\* An answer without a body whose client was gone before it executed: nothing
\* completes or releases its entry (both listeners are registered too late).
EntryStranded == \E r \in Request : stage[r] = "ended" /\ ~connected[r] /\ Owns(r)

\* A waiting request is answered, executes itself or is refused, as long as no
\* entry is stranded.
WaitersAreServed ==
  []~EntryStranded =>
    \A r \in Request :
      stage[r] \in {"looking", "waiting"} ~> stage[r] \notin {"looking", "waiting"}
=============================================================================
