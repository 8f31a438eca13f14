-------------------------- MODULE Requests_proofs ---------------------------
(* Proofs about Idempotency, for any number of requests and keys and for    *)
(* every timeout, lock and retention period in that order; then about        *)
(* StripeSessions, for any number of handlers and sessions.                 *)
EXTENDS MCRequests, FiniteSetTheorems, TLAPS

InProgress(k) == cache[k].status = "IN_PROGRESS"

\* A waiting request whose record is in the cache asked for it, under its key.
HoldsOwnRecord ==
    \A r \in Requests, k \in Keys :
        Waiting(r) /\ cache[k] # NoRecord /\ cache[k].id = request[r].record =>
            /\ request[r].key = k
            /\ request[r].payload = cache[k].payload

\* A completed record holds the answer to its own payload.
StoredAnswer ==
    \A k \in Keys : cache[k].status = "COMPLETED" => cache[k].answer = cache[k].payload

\* While timers run on time a request times out before its record is unlocked.
LockLasts ==
    ~late => \A r \in Requests, k \in Keys :
        Waiting(r) /\ InProgress(k) /\ cache[k].id = request[r].record =>
            request[r].left < cache[k].lock

\* A key without a record has not been executed, unless something went wrong.
ExecutedHasRecord ==
    \A k \in Keys : ~disturbed[k] /\ cache[k] = NoRecord => executed[k] = 0

Own == HoldsOwnRecord /\ StoredAnswer /\ AnsweredByOwnPayload
Inv == TypeOK /\ Own /\ NoOrphanedLock /\ LockLasts /\ ExecutedHasRecord /\ ExecutedOnce

-----------------------------------------------------------------------------
(* The fields of records and requests.                                      *)

LEMMA RecordFields ==
  ASSUME NEW c \in CachedRecords \cup {NoRecord}
  PROVE  /\ c = NoRecord <=> c.status = "none"
         /\ c # NoRecord => c.id \in Records /\ c.payload \in Payloads
         /\ c # NoRecord => c.status \in {"IN_PROGRESS", "COMPLETED"}
         /\ c.status = "IN_PROGRESS" => 
              /\ c.lock \in 0 .. LockTtl
              /\ c \in [status : {"IN_PROGRESS"}, id : Records, payload : Payloads, lock : 0 .. LockTtl]
         /\ c.status = "COMPLETED" => c.answer \in Payloads
  BY DEF CachedRecords, NoRecord

LEMMA WaitingFields ==
  ASSUME TypeOK, NEW r \in Requests, Waiting(r)
  PROVE  /\ request[r].key \in Keys /\ request[r].payload \in Payloads
         /\ request[r].record \in Records /\ request[r].left \in 0 .. Timeout
         /\ request[r] \in [at : {"waiting"}, key : Keys, payload : Payloads,
                            record : Records, left : 0 .. Timeout]
  BY DEF TypeOK, Waiting, RequestStates, Idle

LEMMA LessFact ==
  ASSUME NEW m \in Nat, NEW n \in 0 .. m
  PROVE  Less(n) \in 0 .. m /\ (n > 0 => Less(n) = n - 1) /\ (n = 0 => Less(n) = 0)
  BY DEF Less

\* While timers run on time every lock holds.
LEMMA LocksHold ==
  ASSUME TypeOK, NoOrphanedLock, LockLasts
  PROVE  LockOutlivesHandler
  <1>1. SUFFICES ASSUME ~late, NEW k \in Keys, InProgress(k)
                 PROVE  cache[k].lock > 0
    BY DEF LockOutlivesHandler, InProgress
  <1>2. PICK r \in Requests :
            Waiting(r) /\ request[r].key = k /\ request[r].record = cache[k].id
    BY <1>1 DEF NoOrphanedLock, InProgress
  <1>3. request[r].left < cache[k].lock
    BY <1>1, <1>2 DEF LockLasts
  <1>4. request[r].left \in 0 .. Timeout /\ cache[k].lock \in 0 .. LockTtl
    BY <1>1, <1>2, WaitingFields, RecordFields DEF TypeOK, InProgress
  <1>. QED BY <1>3, <1>4, IdempotencyAssumption

-----------------------------------------------------------------------------
(* Every step preserves the invariant.                                      *)

LEMMA InitInv == Init => Inv
  <1>. SUFFICES ASSUME Init PROVE Inv
    OBVIOUS
  <1>1. TypeOK
    <2>1. cache \in [Keys -> CachedRecords \cup {NoRecord}] /\ expiry \in [Keys -> SUBSET (0 .. Retention)]
      BY DEF Init
    <2>2. request \in [Requests -> RequestStates]
      BY DEF Init, RequestStates
    <2>3. executed \in [Keys -> 0 .. 2]
      BY DEF Init
    <2>4. disturbed \in [Keys -> BOOLEAN] /\ late \in BOOLEAN
      BY DEF Init
    <2>. QED BY <2>1, <2>2, <2>3, <2>4 DEF TypeOK
  <1>2. \A k \in Keys : cache[k] = NoRecord /\ cache[k].status = "none" /\ executed[k] = 0
    BY DEF Init, NoRecord
  <1>3. \A r \in Requests : request[r].at = "idle"
    BY DEF Init, Idle
  <1>4. Own /\ LockLasts
    BY <1>2, <1>3 DEF Own, HoldsOwnRecord, StoredAnswer, AnsweredByOwnPayload, LockLasts, Waiting
  <1>5. NoOrphanedLock /\ ExecutedHasRecord /\ ExecutedOnce
    BY <1>2 DEF NoOrphanedLock, ExecutedHasRecord, ExecutedOnce
  <1>. QED BY <1>1, <1>4, <1>5 DEF Inv

LEMMA NewRequestInv ==
  ASSUME Inv, NEW r \in Requests, NEW k \in Keys, NEW p \in Payloads, NEW id \in Records,
         NewRequest(r, k, p, id)
  PROVE  Inv'
  <1> DEFINE rec == [status |-> "IN_PROGRESS", id |-> id, payload |-> p, lock |-> LockTtl]
             req == [at |-> "waiting", key |-> k, payload |-> p, record |-> id, left |-> Timeout]
  <1>1. /\ cache' = [cache EXCEPT ![k] = rec]
        /\ request' = [request EXCEPT ![r] = req]
        /\ executed' = [executed EXCEPT ![k] = IF @ = 2 THEN 2 ELSE @ + 1]
        /\ expiry' = [expiry EXCEPT ![k] = @ \cup {Retention}]
        /\ disturbed' = disturbed /\ late' = late
        /\ cache[k] = NoRecord
    BY DEF NewRequest, Execute, Lock
  <1>2. rec \in CachedRecords /\ req \in RequestStates
    BY IdempotencyAssumption DEF CachedRecords, RequestStates
  <1>3. TypeOK'
    BY <1>1, <1>2, IdempotencyAssumption DEF Inv, TypeOK
  <1>4. /\ \A j \in Keys \ {k} : cache'[j] = cache[j] /\ (cache[j] # NoRecord => cache[j].id # id)
        /\ \A s \in Requests \ {r} :
              request'[s] = request[s] /\ (Waiting(s) => request[s].record # id)
        /\ cache'[k] = rec /\ request'[r] = req
    BY <1>1 DEF Inv, TypeOK, NewRequest, FreshRecord
  <1>5. Own' /\ LockLasts'
    <2>1. HoldsOwnRecord'
      BY <1>4 DEF Inv, Own, HoldsOwnRecord, Waiting
    <2>2. StoredAnswer' /\ AnsweredByOwnPayload'
      BY <1>4 DEF Inv, Own, StoredAnswer, AnsweredByOwnPayload
    <2>3. LockLasts'
      <3>1. SUFFICES ASSUME ~late, NEW s \in Requests, NEW j \in Keys,
                            Waiting(s)', InProgress(j)', (cache[j].id = request[s].record)'
                     PROVE  (request[s].left < cache[j].lock)'
        BY <1>1 DEF LockLasts
      <3>2. CASE s = r /\ j = k
        BY <1>4, <3>2, IdempotencyAssumption
      <3>3. CASE s = r /\ j # k
        BY <1>4, <3>1, <3>3 DEF InProgress, NoRecord
      <3>4. CASE s # r /\ j = k
        BY <1>4, <3>1, <3>4 DEF Waiting
      <3>5. CASE s # r /\ j # k
        BY <1>4, <3>1, <3>5 DEF Inv, LockLasts, Waiting, InProgress
      <3>. QED BY <3>2, <3>3, <3>4, <3>5
    <2>. QED BY <2>1, <2>2, <2>3 DEF Own
  <1>6. NoOrphanedLock'
    <2>1. ~Waiting(r)
      BY DEF NewRequest, Idle, Waiting
    <2>. QED BY <1>4, <2>1 DEF Inv, NoOrphanedLock, Waiting
  <1>7. ExecutedHasRecord' /\ ExecutedOnce'
    BY <1>1, <1>4 DEF Inv, TypeOK, ExecutedHasRecord, ExecutedOnce, NoRecord
  <1>. QED BY <1>3, <1>5, <1>6, <1>7 DEF Inv

LEMMA ReplayInv ==
  ASSUME Inv, NEW r \in Requests, NEW k \in Keys, NEW p \in Payloads, Replay(r, k, p)
  PROVE  Inv'
  <1>1. /\ request' = [request EXCEPT ![r] =
               [at |-> "answered", payload |-> p, answer |-> cache[k].answer]]
        /\ UNCHANGED <<cache, expiry, executed, disturbed, late>>
        /\ ~Waiting(r) /\ cache[k].status = "COMPLETED" /\ cache[k].payload = p
    BY DEF Replay, SameHash, Waiting, Idle
  <1>2. cache[k].answer = p
    BY <1>1 DEF Inv, Own, StoredAnswer
  <1>3. TypeOK'
    BY <1>1, <1>2 DEF Inv, TypeOK, RequestStates
  <1>4. /\ \A s \in Requests \ {r} : request'[s] = request[s]
        /\ request'[r].at = "answered" /\ request'[r].answer = request'[r].payload
    BY <1>1, <1>2 DEF Inv, TypeOK
  <1>. QED BY <1>1, <1>3, <1>4 DEF Inv, Own, HoldsOwnRecord, StoredAnswer, AnsweredByOwnPayload,
              LockLasts, NoOrphanedLock, ExecutedHasRecord, ExecutedOnce, Waiting, InProgress

\* Taking over a record needs a lock that has run out, so a timer was late.
LEMMA RetakeLockInv ==
  ASSUME Inv, NEW r \in Requests, NEW k \in Keys, NEW p \in Payloads, RetakeLock(r, k, p)
  PROVE  Inv'
  <1> DEFINE req == [at |-> "waiting", key |-> k, payload |-> p,
                     record |-> cache[k].id, left |-> Timeout]
  <1>1. /\ cache' = [cache EXCEPT ![k].lock = LockTtl]
        /\ request' = [request EXCEPT ![r] = req]
        /\ executed' = [executed EXCEPT ![k] = IF @ = 2 THEN 2 ELSE @ + 1]
        /\ UNCHANGED <<expiry, disturbed, late>>
        /\ ~Waiting(r) /\ InProgress(k) /\ cache[k].lock = 0 /\ cache[k].payload = p
    BY DEF RetakeLock, SameHash, Execute, Lock, Waiting, Idle, InProgress
  <1>2. late
    <2>1. LockOutlivesHandler
      BY LocksHold DEF Inv
    <2>. QED BY <1>1, <2>1 DEF LockOutlivesHandler, InProgress
  <1>3. cache[k] \in [status : {"IN_PROGRESS"}, id : Records, payload : Payloads, lock : 0 .. LockTtl]
    BY <1>1, RecordFields DEF Inv, TypeOK, InProgress
  <1>4. /\ cache'[k] \in CachedRecords /\ cache'[k] # NoRecord
        /\ cache'[k].id = cache[k].id /\ cache'[k].payload = cache[k].payload
        /\ cache'[k].status = "IN_PROGRESS"
    BY <1>1, <1>3, IdempotencyAssumption DEF Inv, TypeOK, CachedRecords, NoRecord
  <1>5. req \in RequestStates
    BY <1>3, IdempotencyAssumption DEF RequestStates
  <1>6. /\ \A j \in Keys \ {k} : cache'[j] = cache[j]
        /\ \A s \in Requests \ {r} : request'[s] = request[s]
        /\ request'[r] = req
    BY <1>1 DEF Inv, TypeOK
  <1>7. TypeOK'
    <2>1. cache' \in [Keys -> CachedRecords \cup {NoRecord}]
      BY <1>1, <1>4, <1>6 DEF Inv, TypeOK
    <2>2. request' \in [Requests -> RequestStates]
      BY <1>1, <1>5 DEF Inv, TypeOK
    <2>. QED BY <1>1, <2>1, <2>2 DEF Inv, TypeOK
  <1>8. HoldsOwnRecord'
    <2>1. \A j \in Keys \ {k} : cache[j] # NoRecord => cache[j].id # cache[k].id
      <3>1. PICK s \in Requests :
                Waiting(s) /\ request[s].key = k /\ request[s].record = cache[k].id
        BY <1>1 DEF Inv, NoOrphanedLock, InProgress
      <3>. QED BY <3>1 DEF Inv, Own, HoldsOwnRecord
    <2>2. cache[k] # NoRecord
      BY <1>3 DEF NoRecord
    <2>. QED BY <1>1, <1>4, <1>6, <2>1, <2>2 DEF Inv, Own, HoldsOwnRecord, Waiting
  <1>9. StoredAnswer' /\ AnsweredByOwnPayload' /\ NoOrphanedLock'
    BY <1>1, <1>4, <1>6
       DEF Inv, Own, StoredAnswer, AnsweredByOwnPayload, NoOrphanedLock, Waiting, InProgress
  <1>10. LockLasts' /\ ExecutedHasRecord' /\ ExecutedOnce'
    BY <1>1, <1>2, <1>4, <1>6 DEF Inv, TypeOK, LockLasts, ExecutedHasRecord, ExecutedOnce
  <1>. QED BY <1>7, <1>8, <1>9, <1>10 DEF Inv, Own

LEMMA HandlerAnswersInv ==
  ASSUME Inv, NEW r \in Requests, HandlerAnswers(r)
  PROVE  Inv'
  <1> DEFINE x == request[r].record
             done == [at |-> "answered", payload |-> request[r].payload, answer |-> request[r].payload]
  <1>1. /\ Waiting(r) /\ cache' = Completed(r)
        /\ request' = [request EXCEPT ![r] = done]
        /\ UNCHANGED <<expiry, executed, disturbed, late>>
    BY DEF HandlerAnswers
  <1>2. request[r].payload \in Payloads /\ x \in Records
    BY <1>1, WaitingFields DEF Inv
  <1>3. /\ \A s \in Requests \ {r} : request'[s] = request[s]
        /\ request'[r] = done
    BY <1>1 DEF Inv, TypeOK
  <1>4. ASSUME NEW k \in Keys
        PROVE  \/ cache'[k] = cache[k] /\ (cache[k] = NoRecord \/ cache[k].id # x)
               \/ /\ cache[k] # NoRecord /\ cache[k].id = x
                  /\ cache'[k].status = "COMPLETED" /\ cache'[k].id = x
                  /\ cache'[k].payload = cache[k].payload
                  /\ cache'[k].answer = cache'[k].payload
                  /\ cache'[k] \in CachedRecords /\ cache'[k] # NoRecord
    <2>1. CASE cache[k] # NoRecord /\ cache[k].id = x
      <3>1. cache[k].payload = request[r].payload
        BY <1>1, <2>1 DEF Inv, Own, HoldsOwnRecord
      <3>2. cache'[k] = [status |-> "COMPLETED", id |-> cache[k].id,
                         payload |-> cache[k].payload, answer |-> request[r].payload]
        BY <1>1, <2>1 DEF Completed
      <3>. QED BY <1>2, <2>1, <3>1, <3>2 DEF CachedRecords, NoRecord
    <2>2. CASE ~(cache[k] # NoRecord /\ cache[k].id = x)
      BY <1>1, <2>2 DEF Completed
    <2>. QED BY <2>1, <2>2
  <1>5. TypeOK'
    <2>1. cache' \in [Keys -> CachedRecords \cup {NoRecord}]
      <3>1. \A k \in Keys : cache'[k] \in CachedRecords \cup {NoRecord}
        BY <1>4 DEF Inv, TypeOK
      <3>2. cache' = [k \in Keys |-> cache'[k]]
        BY <1>1 DEF Completed
      <3>. QED BY <3>1, <3>2
    <2>2. request' \in [Requests -> RequestStates]
      BY <1>1, <1>2 DEF Inv, TypeOK, RequestStates
    <2>. QED BY <1>1, <2>1, <2>2 DEF Inv, TypeOK
  <1>6. Own'
    <2>1. ASSUME NEW k \in Keys, cache'[k] # NoRecord
          PROVE  cache[k] # NoRecord /\ cache'[k].id = cache[k].id /\ cache'[k].payload = cache[k].payload
      BY <1>4, <2>1
    <2>2. HoldsOwnRecord'
      BY <1>3, <2>1 DEF Inv, Own, HoldsOwnRecord, Waiting
    <2>3. ASSUME NEW k \in Keys, cache'[k].status = "COMPLETED"
          PROVE  cache'[k].answer = cache'[k].payload
      BY <1>4, <2>3 DEF Inv, Own, StoredAnswer
    <2>4. StoredAnswer'
      BY <2>3 DEF StoredAnswer
    <2>5. AnsweredByOwnPayload'
      BY <1>3 DEF Inv, Own, AnsweredByOwnPayload
    <2>. QED BY <2>2, <2>4, <2>5 DEF Own
  <1>7. NoOrphanedLock' /\ LockLasts'
    <2>1. ASSUME NEW k \in Keys, InProgress(k)'
          PROVE  cache'[k] = cache[k] /\ InProgress(k) /\ cache[k].id # x
      BY <1>4, <2>1 DEF InProgress, NoRecord
    <2>2. NoOrphanedLock'
      BY <1>3, <2>1 DEF Inv, NoOrphanedLock, Waiting, InProgress
    <2>3. LockLasts'
      BY <1>1, <1>3, <2>1 DEF Inv, LockLasts, Waiting
    <2>. QED BY <2>2, <2>3
  <1>8. ExecutedHasRecord' /\ ExecutedOnce'
    BY <1>1, <1>4 DEF Inv, ExecutedHasRecord, ExecutedOnce
  <1>. QED BY <1>5, <1>6, <1>7, <1>8 DEF Inv

\* An error or a timeout takes the request out and deletes the record of its key.
LEMMA GivesUpInv ==
  ASSUME Inv, NEW r \in Requests, Waiting(r), HandlerFails(r) \/ TimesOut(r)
  PROVE  Inv'
  <1> DEFINE k == request[r].key
  <1>1. /\ cache' = [cache EXCEPT ![k] = NoRecord]
        /\ disturbed' = [disturbed EXCEPT ![k] = TRUE]
        /\ request' = [request EXCEPT ![r] = request'[r]]
        /\ request'[r] \in {Idle, [at |-> "abandoned", key |-> k]}
        /\ UNCHANGED <<expiry, executed, late>>
    BY DEF HandlerFails, TimesOut, Forgotten, Inv, TypeOK
  <1>2. k \in Keys
    BY WaitingFields DEF Inv
  <1>3. TypeOK'
    BY <1>1, <1>2 DEF Inv, TypeOK, RequestStates
  <1>4. /\ \A s \in Requests \ {r} : request'[s] = request[s]
        /\ request'[r].at \in {"idle", "abandoned"}
        /\ \A j \in Keys \ {k} : cache'[j] = cache[j] /\ disturbed'[j] = disturbed[j]
        /\ cache'[k] = NoRecord /\ cache'[k].status = "none" /\ disturbed'[k]
    <2>1. /\ \A s \in Requests \ {r} : request'[s] = request[s]
          /\ request'[r].at \in {"idle", "abandoned"}
      BY <1>1 DEF Inv, TypeOK, Idle
    <2>2. /\ \A j \in Keys \ {k} : cache'[j] = cache[j]
          /\ cache'[k] = NoRecord /\ cache'[k].status = "none"
      BY <1>1, <1>2 DEF Inv, TypeOK, NoRecord
    <2>3. (\A j \in Keys \ {k} : disturbed'[j] = disturbed[j]) /\ disturbed'[k]
      BY <1>1, <1>2 DEF Inv, TypeOK
    <2>. QED BY <2>1, <2>2, <2>3
  <1>5. Own' /\ LockLasts'
    BY <1>1, <1>4 DEF Inv, Own, HoldsOwnRecord, StoredAnswer, AnsweredByOwnPayload,
                      LockLasts, Waiting, InProgress
  <1>6. NoOrphanedLock'
    BY <1>4 DEF Inv, NoOrphanedLock, Waiting
  <1>7. ExecutedHasRecord' /\ ExecutedOnce'
    BY <1>1, <1>4 DEF Inv, ExecutedHasRecord, ExecutedOnce
  <1>. QED BY <1>3, <1>5, <1>6, <1>7 DEF Inv

LEMMA LeavesInv ==
  ASSUME Inv, NEW r \in Requests, Leaves(r)
  PROVE  Inv'
  <1>1. /\ ~Waiting(r)
        /\ request' = [request EXCEPT ![r] = Idle]
        /\ UNCHANGED <<cache, expiry, executed, disturbed, late>>
    BY DEF Leaves, Waiting
  <1>2. /\ \A s \in Requests \ {r} : request'[s] = request[s]
        /\ request'[r].at = "idle"
    BY <1>1 DEF Inv, TypeOK, Idle
  <1>3. TypeOK'
    BY <1>1 DEF Inv, TypeOK, RequestStates
  <1>. QED BY <1>1, <1>2, <1>3 DEF Inv, Own, HoldsOwnRecord, StoredAnswer, AnsweredByOwnPayload,
              LockLasts, NoOrphanedLock, ExecutedHasRecord, ExecutedOnce, Waiting, InProgress

LEMMA RetentionEndsInv ==
  ASSUME Inv, NEW k \in Keys, RetentionEnds(k)
  PROVE  Inv'
  <1>1. /\ cache' = [cache EXCEPT ![k] = NoRecord]
        /\ expiry' = [expiry EXCEPT ![k] = @ \ {0}]
        /\ executed' = [executed EXCEPT ![k] = 0]
        /\ UNCHANGED <<request, disturbed, late>>
    BY DEF RetentionEnds, Forgotten
  <1>2. TypeOK'
    BY <1>1 DEF Inv, TypeOK
  <1>3. /\ \A j \in Keys \ {k} : cache'[j] = cache[j] /\ executed'[j] = executed[j]
        /\ cache'[k] = NoRecord /\ cache'[k].status = "none" /\ executed'[k] = 0
    BY <1>1 DEF Inv, TypeOK, NoRecord
  <1>. QED BY <1>1, <1>2, <1>3 DEF Inv, Own, HoldsOwnRecord, StoredAnswer, AnsweredByOwnPayload,
              LockLasts, NoOrphanedLock, ExecutedHasRecord, ExecutedOnce, Waiting, InProgress

LEMMA TickInv ==
  ASSUME Inv, Tick
  PROVE  Inv'
  <1>1. ASSUME NEW k \in Keys
        PROVE  /\ cache'[k] \in CachedRecords \cup {NoRecord}
               /\ ~InProgress(k) => cache'[k] = cache[k]
               /\ InProgress(k) =>
                     /\ cache'[k].status = "IN_PROGRESS" /\ cache'[k] # NoRecord
                     /\ cache'[k].id = cache[k].id /\ cache'[k].payload = cache[k].payload
                     /\ cache'[k].lock = Less(cache[k].lock)
    <2>1. CASE InProgress(k)
      <3>1. cache[k] \in [status : {"IN_PROGRESS"}, id : Records, payload : Payloads, lock : 0 .. LockTtl]
        BY <2>1, RecordFields DEF Inv, TypeOK, InProgress
      <3>2. cache'[k] = [cache[k] EXCEPT !.lock = Less(cache[k].lock)]
        BY <2>1 DEF Tick, InProgress
      <3>3. Less(cache[k].lock) \in 0 .. LockTtl
        BY <3>1, LessFact, IdempotencyAssumption
      <3>. QED BY <2>1, <3>1, <3>2, <3>3 DEF CachedRecords, NoRecord
    <2>2. CASE ~InProgress(k)
      BY <2>2 DEF Tick, InProgress, Inv, TypeOK
    <2>. QED BY <2>1, <2>2
  <1>2. ASSUME NEW r \in Requests
        PROVE  /\ request'[r] \in RequestStates
               /\ ~Waiting(r) => request'[r] = request[r]
               /\ Waiting(r) =>
                     /\ request'[r].at = "waiting"
                     /\ request'[r].key = request[r].key
                     /\ request'[r].payload = request[r].payload
                     /\ request'[r].record = request[r].record
                     /\ request'[r].left = Less(request[r].left)
    <2>1. CASE Waiting(r)
      <3>1. request[r] \in [at : {"waiting"}, key : Keys, payload : Payloads,
                            record : Records, left : 0 .. Timeout]
        BY <2>1, WaitingFields DEF Inv
      <3>2. request'[r] = [request[r] EXCEPT !.left = Less(request[r].left)]
        BY <2>1 DEF Tick
      <3>3. Less(request[r].left) \in 0 .. Timeout
        BY <3>1, LessFact, IdempotencyAssumption
      <3>. QED BY <2>1, <3>1, <3>2, <3>3 DEF RequestStates
    <2>2. CASE ~Waiting(r)
      BY <2>2 DEF Tick, Inv, TypeOK
    <2>. QED BY <2>1, <2>2
  <1>3. UNCHANGED <<executed, disturbed>> /\ late' \in BOOLEAN /\ (~late' => ~late)
    BY DEF Tick, Inv, TypeOK
  <1>4. TypeOK'
    <2>1. cache' \in [Keys -> CachedRecords \cup {NoRecord}]
      BY <1>1 DEF Tick
    <2>2. request' \in [Requests -> RequestStates]
      BY <1>2 DEF Tick
    <2>3. expiry' \in [Keys -> SUBSET (0 .. Retention)]
      <3>1. ASSUME NEW k \in Keys PROVE {Less(n) : n \in expiry[k]} \in SUBSET (0 .. Retention)
        BY LessFact, IdempotencyAssumption DEF Inv, TypeOK
      <3>. QED BY <3>1 DEF Tick
    <2>. QED BY <1>3, <2>1, <2>2, <2>3 DEF Inv, TypeOK
  <1>5. \A k \in Keys : /\ cache'[k] = NoRecord <=> cache[k] = NoRecord
                        /\ cache'[k].status = cache[k].status
                        /\ cache[k] # NoRecord => /\ cache'[k].id = cache[k].id
                                                  /\ cache'[k].payload = cache[k].payload
    BY <1>1, RecordFields DEF Inv, TypeOK, InProgress
  <1>6. \A r \in Requests : Waiting(r)' <=> Waiting(r)
    BY <1>2 DEF Waiting
  <1>7. HoldsOwnRecord' /\ NoOrphanedLock'
    <2>1. HoldsOwnRecord'
      BY <1>2, <1>5, <1>6 DEF Inv, Own, HoldsOwnRecord
    <2>2. NoOrphanedLock'
      BY <1>1, <1>2, <1>5, <1>6 DEF Inv, NoOrphanedLock, InProgress
    <2>. QED BY <2>1, <2>2
  <1>8. StoredAnswer' /\ AnsweredByOwnPayload'
    <2>1. StoredAnswer'
      BY <1>1, <1>5 DEF Inv, Own, StoredAnswer, InProgress
    <2>2. AnsweredByOwnPayload'
      BY <1>2 DEF Inv, Own, AnsweredByOwnPayload, Waiting
    <2>. QED BY <2>1, <2>2
  <1>9. LockLasts'
    <2>1. SUFFICES ASSUME ~late', NEW r \in Requests, NEW k \in Keys,
                          Waiting(r)', InProgress(k)', (cache[k].id = request[r].record)'
                   PROVE  (request[r].left < cache[k].lock)'
      BY DEF LockLasts
    <2>2. ~late /\ ~TimeoutDue(r)
      BY <2>1 DEF Tick, SomeTimerDue, Inv, TypeOK
    <2>3. Waiting(r) /\ InProgress(k) /\ cache[k].id = request[r].record
      BY <1>1, <1>2, <1>6, <2>1 DEF InProgress
    <2>4. request[r].left < cache[k].lock
      BY <2>2, <2>3 DEF Inv, LockLasts
    <2>5. request[r].left \in 0 .. Timeout /\ cache[k].lock \in 0 .. LockTtl
      BY <2>3, WaitingFields, RecordFields DEF Inv, TypeOK, InProgress
    <2>6. request[r].left > 0
      BY <2>2, <2>3, <2>5, IdempotencyAssumption DEF TimeoutDue
    <2>7. request'[r].left = request[r].left - 1 /\ cache'[k].lock = cache[k].lock - 1
      BY <1>1, <1>2, <2>3, <2>4, <2>5, <2>6, LessFact, IdempotencyAssumption
    <2>. QED BY <2>4, <2>5, <2>7, IdempotencyAssumption
  <1>10. ExecutedHasRecord' /\ ExecutedOnce'
    BY <1>3, <1>5 DEF Inv, ExecutedHasRecord, ExecutedOnce
  <1>. QED BY <1>4, <1>7, <1>8, <1>9, <1>10 DEF Inv, Own

LEMMA RestartInv ==
  ASSUME Inv, Restart
  PROVE  Inv'
  <1>1. TypeOK'
    BY DEF Inv, TypeOK, Restart, RequestStates
  <1>2. \A k \in Keys : cache'[k] = NoRecord /\ cache'[k].status = "none"
    BY DEF Restart, NoRecord
  <1>3. \A r \in Requests : request'[r].at = "idle"
    BY DEF Restart, Idle
  <1>4. ExecutedHasRecord' /\ ExecutedOnce'
    <2>1. ASSUME NEW k \in Keys, ~disturbed'[k] PROVE executed'[k] = 0
      <3>1. ~(executed[k] > 0)
        BY <2>1 DEF Restart
      <3>2. executed[k] \in 0 .. 2 /\ executed' = executed
        BY DEF Restart, Inv, TypeOK
      <3>. QED BY <3>1, <3>2
    <2>. QED BY <2>1 DEF ExecutedHasRecord, ExecutedOnce
  <1>. QED BY <1>1, <1>2, <1>3, <1>4 DEF Inv, Own, HoldsOwnRecord, StoredAnswer,
              AnsweredByOwnPayload, LockLasts, NoOrphanedLock, Waiting, InProgress

LEMMA InvPreserved == Inv /\ [Next]_vars => Inv'
  <1>. SUFFICES ASSUME Inv, [Next]_vars PROVE Inv'
    OBVIOUS
  <1>1. CASE UNCHANGED vars
    BY <1>1 DEF vars, Inv, Own, TypeOK, HoldsOwnRecord, StoredAnswer, AnsweredByOwnPayload,
                NoOrphanedLock, LockLasts, ExecutedHasRecord, ExecutedOnce, Waiting, InProgress
  <1>2. ASSUME NEW r \in Requests, Comes(r) PROVE Inv'
    BY <1>2, NewRequestInv, ReplayInv, RetakeLockInv DEF Comes
  <1>3. ASSUME NEW r \in Requests, HandlerFails(r) \/ TimesOut(r) PROVE Inv'
    BY <1>3, GivesUpInv DEF HandlerFails, TimesOut, TimeoutDue
  <1>. QED BY <1>1, <1>2, <1>3, HandlerAnswersInv, LeavesInv, RetentionEndsInv, TickInv, RestartInv
           DEF Next

-----------------------------------------------------------------------------
(* The theorems.                                                            *)

\* Inv holds in every reachable state.
THEOREM Invariant == Spec => []Inv
  BY InitInv, InvPreserved, PTL DEF Spec

\* Records, timers and requests always have their types: no timer counts below zero.
THEOREM TypeCorrect == Spec => []TypeOK
  <1>1. Inv => TypeOK
    BY DEF Inv
  <1>. QED BY <1>1, Invariant, PTL

\* A request is answered by an execution of what it asked for, also when it is
\* answered from a record that others completed.
THEOREM OwnAnswer == Spec => []AnsweredByOwnPayload
  <1>1. Inv => AnsweredByOwnPayload
    BY DEF Inv, Own
  <1>. QED BY <1>1, Invariant, PTL

\* A locked record always has a request that will unlock or delete it, although
\* errors, timeouts and retention timers delete by key whichever record is there.
THEOREM LocksHaveOwners == Spec => []NoOrphanedLock
  <1>1. Inv => NoOrphanedLock
    BY DEF Inv
  <1>. QED BY <1>1, Invariant, PTL

\* As long as timers run on time, no lock runs out before its request does.
THEOREM LocksOutlive == Spec => []LockOutlivesHandler
  <1>1. Inv => LockOutlivesHandler
    BY LocksHold DEF Inv
  <1>. QED BY <1>1, Invariant, PTL

\* A key is executed once in its retention period, unless an execution of it
\* failed, timed out or was lost in a restart.
THEOREM OncePerKey == Spec => []ExecutedOnce
  <1>1. Inv => ExecutedOnce
    BY DEF Inv
  <1>. QED BY <1>1, Invariant, PTL
-----------------------------------------------------------------------------
(* The sessions at Stripe.                                                  *)

\* Sessions that have been opened, and what names one of them.
Opened == {s \in Pages : session[s] # "none"}

Refs == {Stripe!NoRef, Stripe!Given} \cup {Stripe!SessionRef(s) : s \in Opened}
            \cup {Stripe!IntentRef(s) : s \in Opened}

Slots ==
    [at : {"idle", "load", "create"}] \cup [at : {"retrieve", "store"}, session : Opened]
        \cup [at : {"settle"}, status : Stripe!PaymentStatus, ref : Refs]

ChargesTyped ==
    /\ payment \in [status : Stripe!PaymentStatus, ref : Refs, provider : {"STRIPE", "null"}]
    /\ session \in [Pages -> {"none", "open", "complete", "expired"}]
    /\ offered \subseteq Opened
    /\ \A e \in sent : e.session \in Opened
    /\ call \in [Handlers -> Slots]

\* A handler between the first read of createPayment and its answer.
InLane(c) == call[c].at \in {"load", "retrieve", "create", "store"}

\* A session that was paid, or whose page somebody can still pay on.
Payable ==
    {s \in Pages : session[s] = "complete" \/ (session[s] = "open" /\ s \in offered)}

\* A pending payment knows the session that can be paid.
RefKnown == payment.status = "PENDING" => \A s \in Payable : payment.ref = Stripe!SessionRef(s)

\* What a handler has learned of the sessions is still so.
Learned(c) ==
    /\ call[c].at = "retrieve" =>
        /\ \A s \in Payable : s = call[c].session
        /\ payment.status = "PENDING" => payment.ref = Stripe!SessionRef(call[c].session)
    /\ call[c].at = "create" => \A s \in Payable : session[s] = "complete"
    /\ call[c].at = "store" => Payable = {}

OneByOne ==
    /\ \A c, d \in Handlers : InLane(c) /\ InLane(d) => c = d
    /\ \A s, t \in Payable : s = t
    /\ RefKnown
    /\ \A c \in Handlers : Learned(c)

StripeInv == ChargesTyped /\ (~excused => OneByOne)

LEMMA ChargesInit == Stripe!Init => StripeInv
  <1>. SUFFICES ASSUME Stripe!Init PROVE StripeInv
    OBVIOUS
  <1>1. ChargesTyped
    BY DEF Stripe!Init, ChargesTyped, Refs, Slots, Opened, Stripe!Idle, Stripe!PaymentStatus
  <1>2. OneByOne
    BY DEF Stripe!Init, OneByOne, InLane, Payable, RefKnown, Learned, Stripe!Idle
  <1>. QED BY <1>1, <1>2 DEF StripeInv

\* The steps of buyers and of Stripe.
AtStripe(s) == Stripe!Pay(s) \/ Stripe!Decline(s) \/ Stripe!Expire(s)

\* Opened sessions stay opened, and so what names one names one.
LEMMA StaysOpened ==
    ASSUME ChargesTyped, session' \in [Pages -> {"none", "open", "complete", "expired"}],
           \A s \in Pages : session'[s] = "none" => session[s] = "none"
    PROVE  Opened \subseteq Opened' /\ Refs \subseteq Refs' /\ Slots \subseteq Slots'
  <1>1. Opened \subseteq Opened'
    BY DEF Opened
  <1>2. Refs \subseteq Refs'
    BY <1>1 DEF Refs
  <1>3. Slots \subseteq Slots'
    BY <1>1, <1>2 DEF Slots
  <1>. QED BY <1>1, <1>2, <1>3

\* A handler takes slot content h, and the payment becomes p.
LEMMA ChargesMove ==
    ASSUME ChargesTyped, NEW c \in Handlers,
           session' \in [Pages -> {"none", "open", "complete", "expired"}],
           \A s \in Pages : session'[s] = "none" => session[s] = "none",
           call' = [call EXCEPT ![c] = call'[c]], call'[c] \in Slots',
           payment' \in [status : Stripe!PaymentStatus, ref : Refs, provider : {"STRIPE", "null"}],
           offered' \subseteq Opened, sent' = sent
    PROVE  ChargesTyped'
  <1>1. Opened \subseteq Opened' /\ Refs \subseteq Refs' /\ Slots \subseteq Slots'
    BY StaysOpened
  <1>2. call' \in [Handlers -> Slots']
    <2>1. \A d \in Handlers : call'[d] \in Slots'
      BY <1>1 DEF ChargesTyped
    <2>. QED BY <2>1 DEF ChargesTyped
  <1>3. payment' \in [status : Stripe!PaymentStatus, ref : Refs', provider : {"STRIPE", "null"}]
    BY <1>1
  <1>. QED BY <1>1, <1>2, <1>3 DEF ChargesTyped

LEMMA ChargesTypedStep == ChargesTyped /\ [Stripe!Next]_charges => ChargesTyped'
  <1>. SUFFICES ASSUME ChargesTyped, [Stripe!Next]_charges PROVE ChargesTyped'
    OBVIOUS
  <1>. DEFINE SessionRows == [Pages -> {"none", "open", "complete", "expired"}]
              PaymentRows == [status : Stripe!PaymentStatus, ref : Refs, provider : {"STRIPE", "null"}]
  <1>1. ASSUME NEW s \in Pages, AtStripe(s) PROVE ChargesTyped'
    <2>1. /\ session' \in SessionRows
          /\ \A t \in Pages : session'[t] = "none" => session[t] = "none"
          /\ \A e \in sent' : e \in sent \/ e.session = s
          /\ s \in Opened
          /\ UNCHANGED <<payment, offered, call>>
      BY <1>1 DEF AtStripe, Stripe!Pay, Stripe!Decline, Stripe!Expire, ChargesTyped, Stripe!Event, Opened
    <2>2. Opened \subseteq Opened' /\ Refs \subseteq Refs' /\ Slots \subseteq Slots'
      BY <2>1, StaysOpened
    <2>3. payment' \in [status : Stripe!PaymentStatus, ref : Refs', provider : {"STRIPE", "null"}]
      BY <2>1, <2>2 DEF ChargesTyped
    <2>4. call' \in [Handlers -> Slots']
      BY <2>1, <2>2 DEF ChargesTyped
    <2>. QED BY <2>1, <2>2, <2>3, <2>4 DEF ChargesTyped
  <1>2. ASSUME NEW c \in Handlers, Stripe!Starts(c) PROVE ChargesTyped'
    <2>. DEFINE Reads == /\ UNCHANGED <<payment, session, offered, sent>>
                         /\ call' = [call EXCEPT ![c] = call'[c]]
                         /\ call'[c] \in Slots
    <2>1. Reads
      <3>1. CASE Stripe!CreatePayment(c)
        BY <3>1 DEF Stripe!CreatePayment, Stripe!Goto, ChargesTyped, Slots
      <3>2. ASSUME NEW s \in Stripe!PaymentStatus, NEW ref \in Refs, Stripe!ReadPayment(c, s, ref)
            PROVE  Reads
        BY <3>2 DEF Stripe!ReadPayment, Stripe!Goto, ChargesTyped, Slots
      <3>3. \A e \in sent : Stripe!StatusOf(e.type) \in Stripe!PaymentStatus /\ Stripe!RefOf(e) \in Refs
        BY DEF ChargesTyped, Stripe!StatusOf, Stripe!RefOf, Stripe!PaymentStatus, Refs
      <3>4. payment.ref \in Refs /\ Stripe!Given \in Refs
        BY DEF ChargesTyped, Refs
      <3>5. "SUCCEEDED" \in Stripe!PaymentStatus /\ ByHand \subseteq Stripe!PaymentStatus
        BY ByHandAssumption DEF Stripe!PaymentStatus
      <3>6. ASSUME NEW e \in sent, Stripe!HandleProviderWebhook(c, e) PROVE Reads
        <4>1. Stripe!ReadPayment(c, Stripe!StatusOf(e.type), Stripe!RefOf(e))
          BY <3>6 DEF Stripe!HandleProviderWebhook
        <4>. HIDE DEF Reads
        <4>. QED BY <4>1, <3>2, <3>3
      <3>7. ASSUME NEW s \in ByHand, Stripe!SettleByHand(c, s) PROVE Reads
        <4>. HIDE DEF Reads
        <4>. QED BY <3>7, <3>2, <3>4, <3>5 DEF Stripe!SettleByHand
      <3>8. ASSUME Stripe!ProcessPayment(c) PROVE Reads
        <4>. HIDE DEF Reads
        <4>. QED BY <3>8, <3>2, <3>4, <3>5 DEF Stripe!ProcessPayment
      <3>. HIDE DEF Reads
      <3>. QED BY <1>2, <3>1, <3>6, <3>7, <3>8 DEF Stripe!Starts
    <2>2. /\ payment' \in PaymentRows /\ session' \in SessionRows /\ offered' \subseteq Opened
          /\ Slots' = Slots
      BY <2>1 DEF ChargesTyped, Slots, Refs, Opened
    <2>. QED BY <2>1, <2>2, ChargesMove
  <1>3. ASSUME NEW c \in Handlers, Stripe!GoesOn(c) PROVE ChargesTyped'
    <2>1. CASE Stripe!Load(c) \/ Stripe!Retrieve(c) \/ Stripe!RetrieveFails(c) \/ Stripe!Fail(c)
      <3>1. payment.ref.of = "session" => payment.ref.id \in Opened
        BY DEF ChargesTyped, Refs, Stripe!NoRef, Stripe!Given, Stripe!SessionRef, Stripe!IntentRef
      <3>2. /\ UNCHANGED <<payment, session, sent>>
            /\ call' = [call EXCEPT ![c] = call'[c]]
            /\ call'[c] \in Slots
            /\ offered' \subseteq Opened
        BY <2>1, <3>1 DEF Stripe!Load, Stripe!Retrieve, Stripe!RetrieveFails, Stripe!Fail,
           Stripe!Usable, Stripe!Goto, Stripe!Return, Stripe!Idle, ChargesTyped, Slots
      <3>3. payment' \in PaymentRows /\ session' \in SessionRows /\ Slots' = Slots
        BY <3>2 DEF ChargesTyped, Slots, Refs, Opened
      <3>. QED BY <3>2, <3>3, ChargesMove
    <2>2. ASSUME NEW s \in Pages, Stripe!CreateSession(c, s) PROVE ChargesTyped'
      <3>1. /\ session' \in SessionRows
            /\ \A t \in Pages : session'[t] = "none" => session[t] = "none"
            /\ s \in Opened'
            /\ UNCHANGED <<payment, offered, sent>>
            /\ call' = [call EXCEPT ![c] = call'[c]]
            /\ call'[c] = [at |-> "store", session |-> s]
        BY <2>2 DEF Stripe!CreateSession, Stripe!Goto, ChargesTyped, Opened
      <3>2. call'[c] \in Slots'
        BY <3>1 DEF Slots
      <3>3. payment' \in PaymentRows /\ offered' \subseteq Opened
        BY <3>1 DEF ChargesTyped
      <3>. QED BY <3>1, <3>2, <3>3, ChargesMove
    <2>3. CASE Stripe!StoreRef(c) \/ Stripe!Settle(c)
      <3>1. /\ Stripe!StoreRef(c) => call[c].session \in Opened
            /\ Stripe!Settle(c) => call[c].status \in Stripe!PaymentStatus /\ call[c].ref \in Refs
        BY DEF Stripe!StoreRef, Stripe!Settle, ChargesTyped, Slots
      <3>2. Stripe!StoreRef(c) => Stripe!SessionRef(call[c].session) \in Refs
        BY <3>1 DEF Refs
      <3>3. payment' \in PaymentRows
        BY <2>3, <3>1, <3>2 DEF Stripe!StoreRef, Stripe!Settle, ChargesTyped
      <3>4. /\ UNCHANGED <<session, sent>>
            /\ call' = [call EXCEPT ![c] = call'[c]]
            /\ call'[c] \in Slots
            /\ offered' \subseteq Opened
        BY <2>3, <3>1 DEF Stripe!StoreRef, Stripe!Settle, Stripe!Goto, Stripe!Return, Stripe!Idle,
           ChargesTyped, Slots
      <3>5. session' \in SessionRows /\ Slots' = Slots
        BY <3>4 DEF ChargesTyped, Slots, Refs, Opened
      <3>. QED BY <3>3, <3>4, <3>5, ChargesMove
    <2>. QED BY <1>3, <2>1, <2>2, <2>3 DEF Stripe!GoesOn
  <1>4. CASE UNCHANGED charges
    <2>1. Refs' = Refs /\ Slots' = Slots /\ Opened' = Opened
      BY <1>4 DEF charges, Slots, Refs, Opened
    <2>. QED BY <1>4, <2>1 DEF charges, ChargesTyped
  <1>. QED BY <1>1, <1>2, <1>3, <1>4 DEF Stripe!Next, Stripe!Stripe, AtStripe

\* A session is paid or runs out: what can be paid gets less.
LEMMA StripeKeeps ==
    ASSUME StripeInv, NEW s \in Pages, AtStripe(s), ChargesTyped'
    PROVE  StripeInv'
  <1>1. Payable' \subseteq Payable
    BY DEF AtStripe, Stripe!Pay, Stripe!Decline, Stripe!Expire, Payable, StripeInv, ChargesTyped
  <1>2. /\ UNCHANGED <<payment, call, excused>>
        /\ \A t \in Pages : session[t] = "complete" => session'[t] = "complete"
    BY DEF AtStripe, Stripe!Pay, Stripe!Decline, Stripe!Expire, StripeInv, ChargesTyped
  <1>3. Payable \subseteq Pages
    BY DEF Payable
  <1>4. OneByOne => OneByOne'
    <2>. SUFFICES ASSUME OneByOne PROVE OneByOne'
      OBVIOUS
    <2>1. ASSUME NEW c \in Handlers PROVE Learned(c)'
      BY <1>1, <1>2, <1>3 DEF OneByOne, Learned
    <2>2. RefKnown'
      BY <1>1, <1>2 DEF OneByOne, RefKnown
    <2>. QED BY <1>1, <1>2, <2>1, <2>2 DEF OneByOne, InLane
  <1>. QED BY <1>2, <1>4 DEF StripeInv

\* A handler c takes another slot content, and nothing else changes but excused.
LEMMA HandlerMoves ==
    ASSUME StripeInv, NEW c \in Handlers, ChargesTyped', excused => excused',
           UNCHANGED <<payment, session, offered>>,
           call' = [call EXCEPT ![c] = call'[c]],
           ~excused' => (InLane(c)' => \A d \in Handlers \ {c} : ~InLane(d)),
           ~excused' => (OneByOne => Learned(c)')
    PROVE  StripeInv'
  <1>. SUFFICES ASSUME ~excused' PROVE OneByOne'
    BY DEF StripeInv
  <1>1. OneByOne /\ Learned(c)'
    BY DEF StripeInv
  <1>2. Payable' = Payable
    BY DEF Payable
  <1>3. \A d \in Handlers \ {c} : call'[d] = call[d]
    BY DEF StripeInv, ChargesTyped
  <1>4. \A d \in Handlers : Learned(d)'
    BY <1>1, <1>2, <1>3 DEF OneByOne, Learned
  <1>5. RefKnown'
    BY <1>1, <1>2 DEF OneByOne, RefKnown
  <1>6. \A d, e \in Handlers : InLane(d)' /\ InLane(e)' => d = e
    BY <1>1, <1>3 DEF OneByOne, InLane
  <1>. QED BY <1>1, <1>2, <1>4, <1>5, <1>6 DEF OneByOne

LEMMA StartsKeep ==
    ASSUME StripeInv, NEW c \in Handlers, Stripe!Starts(c), ChargesTyped'
    PROVE  StripeInv'
  <1>1. CASE Stripe!CreatePayment(c)
    <2>1. /\ UNCHANGED <<payment, session, offered>>
          /\ call' = [call EXCEPT ![c] = call'[c]]
          /\ call'[c].at = "load"
          /\ excused => excused'
          /\ ~excused' => \A d \in Handlers : ~InLane(d)
      BY <1>1 DEF Stripe!CreatePayment, Stripe!Goto, StripeInv, ChargesTyped, InLane
    <2>. QED BY <2>1, HandlerMoves DEF InLane, Learned
  <1>2. CASE \E s, ref : Stripe!ReadPayment(c, s, ref)
    <2>1. /\ UNCHANGED <<payment, session, offered, excused>>
          /\ call' = [call EXCEPT ![c] = call'[c]]
          /\ call'[c].at = "settle"
      BY <1>2 DEF Stripe!ReadPayment, Stripe!Goto, StripeInv, ChargesTyped
    <2>. QED BY <2>1, HandlerMoves DEF InLane, Learned
  <1>. QED
    BY <1>1, <1>2 DEF Stripe!Starts, Stripe!HandleProviderWebhook, Stripe!SettleByHand,
       Stripe!ProcessPayment

\* The reads of createPayment: what c learns follows from what is known of the
\* row, and from what it had learned.
LEMMA ReadsKeep ==
    ASSUME StripeInv, NEW c \in Handlers, ChargesTyped',
           Stripe!Load(c) \/ Stripe!RetrieveFails(c) \/ Stripe!Fail(c)
    PROVE  StripeInv'
  <1>1. /\ UNCHANGED <<payment, session, offered>>
        /\ call' = [call EXCEPT ![c] = call'[c]]
        /\ excused => excused'
    BY DEF Stripe!Load, Stripe!RetrieveFails, Stripe!Fail, Stripe!Goto, Stripe!Return, StripeInv,
       ChargesTyped
  <1>2. ~excused' => (InLane(c)' => \A d \in Handlers \ {c} : ~InLane(d))
    BY <1>1 DEF StripeInv, OneByOne, InLane, Stripe!Load, Stripe!RetrieveFails, Stripe!Fail,
       Stripe!Return, Stripe!Goto, Stripe!Idle, ChargesTyped
  <1>3. ~excused' => (OneByOne => Learned(c)')
    <2>. SUFFICES ASSUME ~excused', OneByOne PROVE Learned(c)'
      OBVIOUS
    <2>1. Payable' = Payable
      BY <1>1 DEF Payable
    <2>2. CASE Stripe!Load(c)
      <3>1. CASE payment.status # "PENDING"
        BY <2>2, <3>1 DEF Stripe!Load, Stripe!Return, Stripe!Goto, Stripe!Idle, Learned, StripeInv,
           ChargesTyped
      <3>2. CASE payment.status = "PENDING" /\ payment.ref.of = "session"
        <4>1. /\ call'[c].at = "retrieve" /\ call'[c].session = payment.ref.id
          BY <2>2, <3>2 DEF Stripe!Load, Stripe!Goto, StripeInv, ChargesTyped
        <4>2. payment.ref = Stripe!SessionRef(payment.ref.id)
          BY <3>2 DEF StripeInv, ChargesTyped, Refs, Stripe!NoRef, Stripe!Given, Stripe!SessionRef,
             Stripe!IntentRef
        <4>3. \A s \in Payable : s = payment.ref.id
          <5>. SUFFICES ASSUME NEW s \in Payable PROVE s = payment.ref.id
            OBVIOUS
          <5>1. payment.ref = Stripe!SessionRef(s)
            BY <3>2 DEF OneByOne, RefKnown
          <5>. QED BY <5>1 DEF Stripe!SessionRef
        <4>. QED BY <1>1, <2>1, <4>1, <4>2, <4>3 DEF Learned
      <3>3. CASE payment.status = "PENDING" /\ payment.ref.of # "session"
        <4>1. call'[c].at = "create"
          BY <2>2, <3>3 DEF Stripe!Load, Stripe!Goto, StripeInv, ChargesTyped
        <4>2. Payable = {}
          <5>. SUFFICES ASSUME NEW s \in Payable PROVE FALSE
            OBVIOUS
          <5>1. payment.ref = Stripe!SessionRef(s)
            BY <3>3 DEF OneByOne, RefKnown
          <5>. QED BY <5>1, <3>3 DEF Stripe!SessionRef
        <4>. QED BY <2>1, <4>1, <4>2 DEF Learned
      <3>. QED BY <3>1, <3>2, <3>3
    <2>3. CASE Stripe!RetrieveFails(c)
      BY <2>3 DEF Stripe!RetrieveFails
    <2>4. CASE Stripe!Fail(c)
      BY <2>4 DEF Stripe!Fail, Stripe!Return, Stripe!Goto, Stripe!Idle, Learned, StripeInv, ChargesTyped
    <2>. QED BY <2>2, <2>3, <2>4
  <1>. QED BY <1>1, <1>2, <1>3, HandlerMoves

\* The session that providerRef names: it has a page, which the buyer is sent to
\* again, or a fresh one is needed.
LEMMA RetrieveKeeps ==
    ASSUME StripeInv, NEW c \in Handlers, ChargesTyped', Stripe!Retrieve(c)
    PROVE  StripeInv'
  <1>. DEFINE s == call[c].session
  <1>1. /\ call[c].at = "retrieve" /\ s \in Pages /\ s \in Opened
        /\ UNCHANGED <<payment, session, excused>>
        /\ call' = [call EXCEPT ![c] = call'[c]]
        /\ c \in DOMAIN call
        /\ \A d \in Handlers \ {c} : call'[d] = call[d]
    BY DEF Stripe!Retrieve, StripeInv, ChargesTyped, Slots, Stripe!Goto, Stripe!Return, Opened
  <1>2. ~excused => OneByOne /\ Learned(c) /\ \A d \in Handlers \ {c} : ~InLane(d)
    BY <1>1 DEF StripeInv, OneByOne, InLane
  <1>3. CASE session[s] = "open"
    <2>1. call'[c].at = "idle" /\ offered' = offered \cup {s}
      BY <1>1, <1>3 DEF Stripe!Retrieve, Stripe!Usable, Stripe!Return, Stripe!Goto, Stripe!Idle
    <2>. SUFFICES ASSUME ~excused PROVE OneByOne'
      BY <1>1 DEF StripeInv
    <2>2. \A t \in Payable' : t = s
      <3>1. \A t \in Payable : t = s
        BY <1>1, <1>2 DEF Learned
      <3>. QED BY <1>1, <2>1, <3>1 DEF Payable
    <2>3. RefKnown'
      BY <1>1, <1>2, <2>2 DEF Learned, RefKnown
    <2>4. \A d \in Handlers : ~InLane(d)'
      BY <1>1, <1>2, <2>1 DEF InLane
    <2>. QED BY <2>2, <2>3, <2>4 DEF OneByOne, Learned, InLane
  <1>4. CASE session[s] # "open"
    <2>1. call'[c].at = "create" /\ UNCHANGED offered
      BY <1>1, <1>4 DEF Stripe!Retrieve, Stripe!Usable, Stripe!Goto
    <2>2. Payable' = Payable
      BY <1>1, <2>1 DEF Payable
    <2>3. ~excused => Learned(c)'
      BY <1>1, <1>2, <1>4, <2>1, <2>2 DEF Learned, Payable
    <2>. QED BY <1>1, <1>2, <2>1, <2>3, HandlerMoves
  <1>. QED BY <1>3, <1>4

\* A session is opened: nothing else can be paid then.
LEMMA CreateKeeps ==
    ASSUME StripeInv, NEW c \in Handlers, ChargesTyped', NEW s \in Pages, Stripe!CreateSession(c, s)
    PROVE  StripeInv'
  <1>. SUFFICES ASSUME ~excused' PROVE OneByOne'
    BY DEF StripeInv
  <1>1. /\ call[c].at = "create" /\ session[s] = "none" /\ c \in DOMAIN call
        /\ session' = [session EXCEPT ![s] = "open"]
        /\ call' = [call EXCEPT ![c] = [at |-> "store", session |-> s]]
        /\ \A t \in Pages : session[t] # "complete"
        /\ ~excused
        /\ UNCHANGED <<payment, offered>>
    BY DEF Stripe!CreateSession, Stripe!Goto, StripeInv, ChargesTyped
  <1>2. OneByOne /\ Learned(c) /\ \A d \in Handlers \ {c} : ~InLane(d)
    BY <1>1 DEF StripeInv, OneByOne, InLane
  <1>3. Payable = {}
    BY <1>1, <1>2 DEF Learned, Payable
  <1>4. s \notin offered
    BY <1>1 DEF StripeInv, ChargesTyped, Opened
  <1>5. Payable' = {}
    <2>1. \A t \in Pages \ {s} : session'[t] = session[t]
      BY <1>1 DEF StripeInv, ChargesTyped
    <2>2. session'[s] = "open"
      BY <1>1 DEF StripeInv, ChargesTyped
    <2>. QED BY <1>1, <1>3, <1>4, <2>1, <2>2 DEF Payable
  <1>6. \A d \in Handlers : InLane(d)' => d = c
    BY <1>1, <1>2 DEF InLane
  <1>7. call'[c].at = "store"
    BY <1>1
  <1>8. \A d \in Handlers : Learned(d)'
    BY <1>5, <1>6, <1>7 DEF Learned, InLane
  <1>. QED BY <1>5, <1>6, <1>8 DEF OneByOne, RefKnown

\* Its id is stored and its page handed out.
LEMMA StoreKeeps ==
    ASSUME StripeInv, NEW c \in Handlers, ChargesTyped', Stripe!StoreRef(c)
    PROVE  StripeInv'
  <1>. SUFFICES ASSUME ~excused' PROVE OneByOne'
    BY DEF StripeInv
  <1>. DEFINE s == call[c].session
  <1>1. /\ call[c].at = "store" /\ s \in Pages /\ c \in DOMAIN call
        /\ payment'.ref = Stripe!SessionRef(s)
        /\ offered' = offered \cup {s}
        /\ call' = [call EXCEPT ![c] = Stripe!Idle]
        /\ ~excused
        /\ UNCHANGED session
    BY DEF Stripe!StoreRef, Stripe!Return, Stripe!Goto, StripeInv, ChargesTyped, Slots, Opened
  <1>2. OneByOne /\ Learned(c) /\ \A d \in Handlers \ {c} : ~InLane(d)
    BY <1>1 DEF StripeInv, OneByOne, InLane
  <1>3. \A t \in Payable' : t = s
    BY <1>1, <1>2 DEF Learned, Payable
  <1>4. \A d \in Handlers : ~InLane(d)'
    BY <1>1, <1>2 DEF InLane, Stripe!Idle
  <1>5. RefKnown'
    BY <1>1, <1>3 DEF RefKnown
  <1>. QED BY <1>3, <1>4, <1>5 DEF OneByOne, Learned, InLane

\* A settlement: a payment that stays pending has the id it had, or is excused.
LEMMA SettleKeeps ==
    ASSUME StripeInv, NEW c \in Handlers, ChargesTyped', Stripe!Settle(c)
    PROVE  StripeInv'
  <1>. SUFFICES ASSUME ~excused' PROVE OneByOne'
    BY DEF StripeInv
  <1>1. /\ call[c].at = "settle" /\ c \in DOMAIN call
        /\ payment'.status = "PENDING" => payment'.ref = payment.ref
        /\ payment'.status = "PENDING" => payment.status = "PENDING"
        /\ call' = [call EXCEPT ![c] = Stripe!Idle]
        /\ ~excused
        /\ UNCHANGED <<session, offered>>
    BY DEF Stripe!Settle, Stripe!Return, Stripe!Goto, StripeInv, ChargesTyped
  <1>2. OneByOne
    BY <1>1 DEF StripeInv
  <1>3. Payable' = Payable
    BY <1>1 DEF Payable
  <1>4. \A d \in Handlers : call'[d].at \in {call[d].at, "idle"} /\ (d # c => call'[d] = call[d])
    BY <1>1 DEF Stripe!Idle, StripeInv, ChargesTyped
  <1>5. call'[c].at = "idle"
    BY <1>1 DEF Stripe!Idle
  <1>6. \A d \in Handlers : Learned(d)'
    BY <1>1, <1>2, <1>3, <1>4, <1>5 DEF OneByOne, Learned
  <1>7. RefKnown'
    BY <1>1, <1>2, <1>3 DEF OneByOne, RefKnown
  <1>8. \A d, e \in Handlers : InLane(d)' /\ InLane(e)' => d = e
    BY <1>2, <1>4, <1>5 DEF OneByOne, InLane
  <1>. QED BY <1>2, <1>3, <1>6, <1>7, <1>8 DEF OneByOne

LEMMA ChargesStep == StripeInv /\ [Stripe!Next]_charges => StripeInv'
  <1>. SUFFICES ASSUME StripeInv, [Stripe!Next]_charges PROVE StripeInv'
    OBVIOUS
  <1>1. ChargesTyped'
    BY ChargesTypedStep DEF StripeInv
  <1>2. CASE UNCHANGED charges
    BY <1>1, <1>2 DEF charges, StripeInv, OneByOne, InLane, Payable, RefKnown, Learned
  <1>3. ASSUME NEW c \in Handlers, Stripe!GoesOn(c) PROVE StripeInv'
    BY <1>1, <1>3, ReadsKeep, RetrieveKeeps, CreateKeeps, StoreKeeps, SettleKeeps DEF Stripe!GoesOn
  <1>4. ASSUME NEW c \in Handlers, Stripe!Starts(c) PROVE StripeInv'
    BY <1>1, <1>4, StartsKeep
  <1>5. ASSUME NEW s \in Pages, AtStripe(s) PROVE StripeInv'
    BY <1>1, <1>5, StripeKeeps
  <1>. QED BY <1>2, <1>3, <1>4, <1>5 DEF Stripe!Next, Stripe!Stripe, AtStripe

\* A payment is charged once, for any number of requests, webhooks and sessions,
\* unless the code has lost sight of a session.
THEOREM ChargedAtMostOnce == PartsSpec => []ChargedOnce
  <1>1. PartsInit => StripeInv
    BY ChargesInit DEF PartsInit
  <1>2. StripeInv /\ [PartsNext]_parts => StripeInv'
    <2>1. [PartsNext]_parts => [Stripe!Next]_charges
      BY DEF PartsNext, parts, Interceptor, Sessions, charges
    <2>. QED BY <2>1, ChargesStep
  <1>3. StripeInv => ChargedOnce
    <2>. SUFFICES ASSUME StripeInv, ~excused
                  PROVE  Cardinality({s \in Pages : session[s] = "complete"}) <= 1
      <3>1. Stripe!Cardinality({s \in Pages : session[s] = "complete"})
              = Cardinality({s \in Pages : session[s] = "complete"})
        BY DEF Stripe!Cardinality, Cardinality
      <3>. QED BY <3>1 DEF ChargedOnce, Stripe!ChargedOnce
    <2>. DEFINE Complete == {s \in Pages : session[s] = "complete"}
    <2>1. \A s, t \in Complete : s = t
      BY DEF StripeInv, OneByOne, Payable
    <2>2. CASE Complete = {}
      BY <2>2, FS_EmptySet
    <2>3. CASE Complete # {}
      <3>1. PICK s \in Complete : TRUE
        BY <2>3
      <3>2. Complete = {s}
        BY <2>1, <3>1
      <3>3. Cardinality({s}) = 1
        BY FS_Singleton
      <3>. QED BY <3>2, <3>3
    <2>. QED BY <2>2, <2>3
  <1>. QED BY <1>1, <1>2, <1>3, PTL DEF PartsSpec
=============================================================================
