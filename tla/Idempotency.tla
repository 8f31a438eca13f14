---------------------------- MODULE Idempotency -----------------------------
(***************************************************************************)
(* IdempotencyInterceptor: the records, kept in memory, by which a mutating *)
(* request that is repeated with its Idempotency-Key is answered without    *)
(* being executed again.                                                    *)
(*                                                                         *)
(* Everything the interceptor does happens in callbacks of one event loop,  *)
(* so each is one step.  Time passes in ticks that count down the timeout   *)
(* of each request, the lock of each record and the retention timers.  A    *)
(* timer that is due may run late: the loop may be busy.                    *)
(*                                                                         *)
(* A key stands for scope and header together.  An execution answers with   *)
(* the payload it was given, so that an answer tells what was executed.     *)
(***************************************************************************)
EXTENDS Naturals, FiniteSets

CONSTANTS
    Requests,    \* requests that may be in progress at the same time
    Keys,
    Payloads,    \* hashes of body, params and query
    Records,     \* identities of record objects
    Timeout,     \* timeout(30000), in ticks
    LockTtl,     \* LOCK_TTL_MS
    Retention    \* RETENTION_MS

ASSUME IdempotencyAssumption ==
    /\ Timeout \in Nat /\ LockTtl \in Nat /\ Retention \in Nat
    /\ 0 < Timeout /\ Timeout < LockTtl /\ LockTtl < Retention

VARIABLES
    cache,       \* the record under each key
    expiry,      \* per key, the retention timers that are set
    request,     \* requests in progress
    executed,    \* history: executions since a key was last forgotten (up to 2)
    disturbed,   \* history: an execution of the key failed, timed out or was lost
    late         \* history: time has passed while a timer was due

vars == <<cache, expiry, request, executed, disturbed, late>>

NoRecord == [status |-> "none"]
CachedRecords ==
    [status : {"IN_PROGRESS"}, id : Records, payload : Payloads, lock : 0 .. LockTtl]
    \cup [status : {"COMPLETED"}, id : Records, payload : Payloads, answer : Payloads]

\* "waiting": the handler runs and the client waits for it.  "abandoned": the
\* client has its timeout error and the handler still runs.
Idle == [at |-> "idle"]
RequestStates ==
    {Idle}
    \cup [at : {"waiting"}, key : Keys, payload : Payloads, record : Records, left : 0 .. Timeout]
    \cup [at : {"abandoned"}, key : Keys]
    \cup [at : {"answered"}, payload : Payloads, answer : Payloads]

TypeOK ==
    /\ cache \in [Keys -> CachedRecords \cup {NoRecord}]
    /\ expiry \in [Keys -> SUBSET (0 .. Retention)]
    /\ request \in [Requests -> RequestStates]
    /\ executed \in [Keys -> 0 .. 2]
    /\ disturbed \in [Keys -> BOOLEAN]
    /\ late \in BOOLEAN

Init ==
    /\ cache = [k \in Keys |-> NoRecord]
    /\ expiry = [k \in Keys |-> {}]
    /\ request = [r \in Requests |-> Idle]
    /\ executed = [k \in Keys |-> 0]
    /\ disturbed = [k \in Keys |-> FALSE]
    /\ late = FALSE

Waiting(r) == request[r].at = "waiting"

-----------------------------------------------------------------------------
(* intercept, when the request comes in                                     *)

\* Mutated: the record is used whatever the request asks for.
AnyHash(k, p) == cache[k] # NoRecord

SameHash(k, p) == cache[k] # NoRecord /\ cache[k].payload = p

\* The handler is called and its answer awaited.
Execute(r, k, p, id) ==
    /\ request' = [request EXCEPT ![r] =
          [at |-> "waiting", key |-> k, payload |-> p, record |-> id, left |-> Timeout]]
    /\ executed' = [executed EXCEPT ![k] = IF @ = 2 THEN 2 ELSE @ + 1]

\* Ids of objects that nothing refers to any more may be used again.
FreshRecord(id) ==
    /\ \A k \in Keys : cache[k] # NoRecord => cache[k].id # id
    /\ \A r \in Requests : Waiting(r) => request[r].record # id

Lock == LockTtl

NewRequest(r, k, p, id) ==
    /\ request[r] = Idle
    /\ cache[k] = NoRecord
    /\ FreshRecord(id)
    /\ cache' = [cache EXCEPT ![k] =
          [status |-> "IN_PROGRESS", id |-> id, payload |-> p, lock |-> Lock]]
    /\ expiry' = [expiry EXCEPT ![k] = @ \cup {Retention}]
    /\ Execute(r, k, p, id)
    /\ UNCHANGED <<disturbed, late>>

Replay(r, k, p) ==
    /\ request[r] = Idle
    /\ SameHash(k, p)
    /\ cache[k].status = "COMPLETED"
    /\ request' = [request EXCEPT ![r] =
          [at |-> "answered", payload |-> p, answer |-> cache[k].answer]]
    /\ UNCHANGED <<cache, expiry, executed, disturbed, late>>

\* A record in progress whose lock has run out is taken over.  One whose lock
\* holds, or a record of another payload, is answered with a conflict: no step.
RetakeLock(r, k, p) ==
    /\ request[r] = Idle
    /\ SameHash(k, p)
    /\ cache[k].status = "IN_PROGRESS"
    /\ cache[k].lock = 0
    /\ cache' = [cache EXCEPT ![k].lock = Lock]
    /\ Execute(r, k, p, cache[k].id)
    /\ UNCHANGED <<expiry, disturbed, late>>

-----------------------------------------------------------------------------
(* The callbacks of the pipeline                                            *)

\* Mutated: the record is left as it is.
NotCompleted(r) == cache

\* mergeMap completes the object it has, which need not be in the cache any more.
Completed(r) ==
    [k \in Keys |->
        IF cache[k] # NoRecord /\ cache[k].id = request[r].record
        THEN [status |-> "COMPLETED", id |-> cache[k].id,
              payload |-> cache[k].payload, answer |-> request[r].payload]
        ELSE cache[k]]

HandlerAnswers(r) ==
    /\ Waiting(r)
    /\ cache' = Completed(r)
    /\ request' = [request EXCEPT ![r] =
          [at |-> "answered", payload |-> request[r].payload, answer |-> request[r].payload]]
    /\ UNCHANGED <<expiry, executed, disturbed, late>>

\* Mutated: after an error the record stays.
Kept(k) == cache

\* catchError deletes by key, whichever record is there.
Forgotten(k) == [cache EXCEPT ![k] = NoRecord]

HandlerFails(r) ==
    /\ Waiting(r)
    /\ cache' = Forgotten(request[r].key)
    /\ disturbed' = [disturbed EXCEPT ![request[r].key] = TRUE]
    /\ request' = [request EXCEPT ![r] = Idle]
    /\ UNCHANGED <<expiry, executed, late>>

\* Mutated: no timeout.
NeverDue(r) == FALSE

TimeoutDue(r) == Waiting(r) /\ request[r].left = 0

\* timeout unsubscribes and raises an error; the handler is not stopped.
TimesOut(r) ==
    /\ TimeoutDue(r)
    /\ cache' = Forgotten(request[r].key)
    /\ disturbed' = [disturbed EXCEPT ![request[r].key] = TRUE]
    /\ request' = [request EXCEPT ![r] = [at |-> "abandoned", key |-> request[r].key]]
    /\ UNCHANGED <<expiry, executed, late>>

\* An abandoned handler ends, or the answer of a request has been sent.
Leaves(r) ==
    /\ request[r].at \in {"abandoned", "answered"}
    /\ request' = [request EXCEPT ![r] = Idle]
    /\ UNCHANGED <<cache, expiry, executed, disturbed, late>>

\* The retention timer also deletes by key.
RetentionEnds(k) ==
    /\ 0 \in expiry[k]
    /\ cache' = Forgotten(k)
    /\ expiry' = [expiry EXCEPT ![k] = @ \ {0}]
    /\ executed' = [executed EXCEPT ![k] = 0]
    /\ UNCHANGED <<request, disturbed, late>>

-----------------------------------------------------------------------------
(* Time and the process                                                     *)

Less(n) == IF n = 0 THEN 0 ELSE n - 1

SomeTimerDue == (\E r \in Requests : TimeoutDue(r)) \/ (\E k \in Keys : 0 \in expiry[k])

Tick ==
    /\ cache' = [k \in Keys |-> IF cache[k].status = "IN_PROGRESS"
                                THEN [cache[k] EXCEPT !.lock = Less(@)]
                                ELSE cache[k]]
    /\ expiry' = [k \in Keys |-> {Less(n) : n \in expiry[k]}]
    /\ request' = [r \in Requests |-> IF Waiting(r)
                                      THEN [request[r] EXCEPT !.left = Less(@)]
                                      ELSE request[r]]
    /\ late' = (late \/ SomeTimerDue)
    /\ UNCHANGED <<executed, disturbed>>

\* The process starts anew, with an empty cache.
Restart ==
    /\ cache' = [k \in Keys |-> NoRecord]
    /\ expiry' = [k \in Keys |-> {}]
    /\ request' = [r \in Requests |-> Idle]
    /\ disturbed' = [k \in Keys |-> disturbed[k] \/ executed[k] > 0]
    /\ UNCHANGED <<executed, late>>

Comes(r) ==
    \E k \in Keys, p \in Payloads :
        \/ \E id \in Records : NewRequest(r, k, p, id)
        \/ Replay(r, k, p)
        \/ RetakeLock(r, k, p)

Next ==
    \/ \E r \in Requests :
          Comes(r) \/ HandlerAnswers(r) \/ HandlerFails(r) \/ TimesOut(r) \/ Leaves(r)
    \/ \E k \in Keys : RetentionEnds(k)
    \/ Tick
    \/ Restart

Spec == Init /\ [][Next]_vars

\* The clock goes on and a timer that is due runs at last.  Nothing is assumed
\* of handlers: they may hang.
FairSpec == Spec /\ WF_vars(Tick) /\ \A r \in Requests : WF_vars(TimesOut(r))

-----------------------------------------------------------------------------
(* Properties.                                                              *)

\* A request is answered by an execution of what it asked for, its own or an
\* earlier one, although records change hands and are deleted by key.
AnsweredByOwnPayload ==
    \A r \in Requests : request[r].at = "answered" => request[r].answer = request[r].payload

\* A locked record always has somebody who will unlock or delete it: after an
\* error or a timeout a retry is not refused until the lock runs out.
NoOrphanedLock ==
    \A k \in Keys : cache[k].status = "IN_PROGRESS" =>
        \E r \in Requests : Waiting(r) /\ request[r].key = k /\ request[r].record = cache[k].id

\* The lock outlives the timeout: as long as timers run on time no record in
\* progress is ever taken over.
LockOutlivesHandler ==
    ~late => \A k \in Keys : cache[k].status = "IN_PROGRESS" => cache[k].lock > 0

\* A key is executed once until it is forgotten after the retention period,
\* unless an execution of it failed or timed out, or the process restarted.
ExecutedOnce ==
    \A k \in Keys : ~late /\ ~disturbed[k] => executed[k] <= 1

\* A client is never left waiting, even by a handler that hangs.
ClientsAnswered == \A r \in Requests : Waiting(r) ~> ~Waiting(r)
=============================================================================
