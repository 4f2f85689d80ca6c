----------------------------- MODULE Resilience -----------------------------
(***************************************************************************)
(* internal/coordinator/resilience: the per-worker circuit breakers, which *)
(* are created on first use, and the retry helpers.                        *)
(*                                                                         *)
(* The breaker itself (sony/gobreaker) and the backoff loop                *)
(* (cenkalti/backoff) are external and modelled from how this package      *)
(* configures them.  Whether an open breaker has timed out and whether the *)
(* backoff runs out of time are left open.                                 *)
(***************************************************************************)
EXTENDS Integers, FiniteSets

CONSTANTS
  Hosts,       \* worker identifiers
  Callers,     \* goroutines that call Execute
  Breakers,    \* identities of breakers, a bound on how many are created
  MaxRequests, \* requests admitted while half-open
  MinRequests, \* requests before the failure ratio counts
  MaxCount,    \* bound: requests a breaker counts before its interval ends
  MaxGenerations,  \* bound: times a breaker starts its counts over
  MaxRetries   \* RetryConfig.MaxRetries

ASSUME ResilienceAssumption ==
  /\ {MaxRequests, MinRequests, MaxCount, MaxGenerations, MaxRetries} \subseteq Nat \ {0}
  /\ "none" \notin Breakers

NoBreaker == "none"

VARIABLES
  breakers,    \* CircuitManager.breakers: [Hosts -> breaker or NoBreaker]
  circuit,     \* [Breakers -> state and counts]
  call,        \* [Callers -> the Execute in progress]
  retired,     \* breakers taken out of the map by Remove (history)
  retry        \* the Retry or RetryWithResult call in progress

circuitVars == <<breakers, circuit, call, retired>>
resilienceVars == <<breakers, circuit, call, retired, retry>>

FreshCircuit == [state |-> "new", requests |-> 0, failures |-> 0,
                 successes |-> 0, generation |-> 0]
Idle == [at |-> "idle", host |-> NoBreaker, breaker |-> NoBreaker,
         generation |-> 0]
Untried == [helper |-> "none", attempts |-> 0, last |-> "none",
            lastErr |-> "none", returned |-> "pending"]

ResilienceTypeOK ==
  /\ breakers \in [Hosts -> Breakers \cup {NoBreaker}]
  /\ circuit \in [Breakers -> [state : {"new", "closed", "open", "half-open"},
                              requests : 0..MaxCount, failures : Nat,
                              successes : 0..MaxRequests, generation : Nat]]
  /\ call \in [Callers -> [at : {"idle", "create", "admit", "running"},
                           host : Hosts \cup {NoBreaker},
                           breaker : Breakers \cup {NoBreaker}, generation : Nat]]
  /\ retired \subseteq Breakers
  /\ retry.attempts \in Nat

ResilienceInit ==
  /\ breakers = [h \in Hosts |-> NoBreaker]
  /\ circuit = [b \in Breakers |-> FreshCircuit]
  /\ call = [c \in Callers |-> Idle]
  /\ retired = {}
  /\ retry = Untried

-----------------------------------------------------------------------------
(* CircuitManager.                                                         *)

\* getOrCreate under the read lock: use the breaker of the host if it exists.
Lookup(c, h) ==
  /\ call[c].at = "idle"
  /\ call' = [call EXCEPT ![c] =
                [Idle EXCEPT !.at = IF breakers[h] = NoBreaker THEN "create"
                                    ELSE "admit",
                             !.host = h, !.breaker = breakers[h]]]
  /\ UNCHANGED <<breakers, circuit, retired, retry>>

\* The write-locked half without the second look into the map.
AlwaysCreate(h) == TRUE
\* The second look: another caller may have created the breaker meanwhile.
StillMissing(h) == breakers[h] = NoBreaker

\* getOrCreate under the write lock.
Create(c) ==
  LET h == call[c].host
  IN /\ call[c].at = "create"
     /\ \/ /\ StillMissing(h)
           /\ \E b \in {x \in Breakers : circuit[x].state = "new"} :
                /\ breakers' = [breakers EXCEPT ![h] = b]
                /\ circuit' = [circuit EXCEPT ![b].state = "closed"]
                /\ call' = [call EXCEPT ![c].at = "admit", ![c].breaker = b]
        \/ /\ ~StillMissing(h)
           /\ call' = [call EXCEPT ![c].at = "admit", ![c].breaker = breakers[h]]
           /\ UNCHANGED <<breakers, circuit>>
     /\ UNCHANGED <<retired, retry>>

\* Remove: the breaker leaves the map; callers that hold it go on using it.
RemoveBreaker(h) ==
  /\ breakers[h] # NoBreaker
  /\ breakers' = [breakers EXCEPT ![h] = NoBreaker]
  /\ retired' = retired \cup {breakers[h]}
  /\ UNCHANGED <<circuit, call, retry>>

\* A new generation in state s: all counts are cleared (external).
NextGeneration(b, s) ==
  [state |-> s, requests |-> 0, failures |-> 0, successes |-> 0,
   generation |-> b.generation + 1]

\* The breaker admits or rejects the request (external, beforeRequest).  An open
\* breaker may have timed out, which makes it half-open.
Admit(c) ==
  /\ call[c].at = "admit"
  /\ circuit[call[c].breaker].requests < MaxCount
  /\ circuit[call[c].breaker].generation < MaxGenerations
  /\ LET b == circuit[call[c].breaker]
     IN \E now \in {b} \cup (IF b.state = "open"
                             THEN {NextGeneration(b, "half-open")} ELSE {}) :
          IF now.state = "open"
             \/ (now.state = "half-open" /\ now.requests >= MaxRequests)
          THEN /\ circuit' = [circuit EXCEPT ![call[c].breaker] = now]
               /\ call' = [call EXCEPT ![c] = Idle]
          ELSE /\ circuit' = [circuit EXCEPT ![call[c].breaker] =
                                [now EXCEPT !.requests = @ + 1]]
               /\ call' = [call EXCEPT ![c].at = "running",
                                       ![c].generation = now.generation]
  /\ UNCHANGED <<breakers, retired, retry>>

\* ReadyToTrip, as configured by getOrCreate: at least MinRequests requests, and
\* at least 60% of them failed.
ReadyToTrip(b) ==
  b.requests >= MinRequests /\ 10 * b.failures >= 6 * b.requests

\* The breaker counts the outcome of a request of the current generation
\* (external, afterRequest).
Counted(b, ok) ==
  IF ok
  THEN IF b.state = "half-open" /\ b.successes + 1 >= MaxRequests
       THEN NextGeneration(b, "closed")
       ELSE [b EXCEPT !.successes = IF @ < MaxRequests THEN @ + 1 ELSE @]
  ELSE LET f == [b EXCEPT !.failures = @ + 1, !.successes = 0]
       IN IF b.state = "half-open" \/ ReadyToTrip(f)
          THEN NextGeneration(b, "open") ELSE f

Finish(c) ==
  /\ call[c].at = "running"
  /\ \E ok \in BOOLEAN :
       LET b == circuit[call[c].breaker]
       IN circuit' = [circuit EXCEPT ![call[c].breaker] =
                        IF b.generation = call[c].generation
                        THEN Counted(b, ok) ELSE b]
  /\ call' = [call EXCEPT ![c] = Idle]
  /\ UNCHANGED <<breakers, retired, retry>>

\* The closed state's interval ends: the counts start over (external).
IntervalEnds(b) ==
  /\ circuit[b].state = "closed" /\ circuit[b].requests > 0
  /\ circuit[b].generation < MaxGenerations
  /\ circuit' = [circuit EXCEPT ![b] = NextGeneration(@, "closed")]
  /\ UNCHANGED <<breakers, call, retired, retry>>

-----------------------------------------------------------------------------
(* Retry, RetryNotify and RetryWithResult.                                 *)

PermanentCodes ==
  {"context.Canceled", "context.DeadlineExceeded", "Canceled",
   "InvalidArgument", "NotFound", "AlreadyExists", "PermissionDenied",
   "FailedPrecondition", "Unimplemented", "Unauthenticated"}
TransientCodes ==
  {"Unknown", "DeadlineExceeded", "ResourceExhausted", "Aborted", "Internal",
   "Unavailable", "DataLoss", "not a status"}

IsRetryable(err) == err \notin PermanentCodes

StartRetry ==
  /\ retry = Untried
  /\ \E f \in {"Retry", "RetryNotify", "RetryWithResult"} :
       retry' = [retry EXCEPT !.helper = f]
  /\ UNCHANGED circuitVars

\* One retry more than configured.
OneMoreRetry(n) == n <= MaxRetries + 1
\* WithMaxRetries: whether another attempt may follow the n-th (external).
MayRetry(n) == n <= MaxRetries

\* One attempt.  Success and a permanent error end the loop; a transient one
\* ends it when no retry is left, when the time is up or when the context ends.
Attempt ==
  LET ends == retry.last = "ok" \/ (retry.last # "none" /\ ~IsRetryable(retry.last))
  IN /\ retry.helper # "none"
     /\ retry.returned = "pending"
     /\ ~ends /\ MayRetry(retry.attempts)
     /\ \E err \in PermanentCodes \cup TransientCodes \cup {"ok"} :
          retry' = [retry EXCEPT !.attempts = @ + 1, !.last = err,
                                 !.lastErr = IF err = "ok" THEN @ ELSE err]
     /\ UNCHANGED circuitVars

\* The helper returns: the loop's error, or the context's when that ended the
\* wait; RetryWithResult returns lastErr when the loop had none.
Return ==
  /\ retry.helper # "none" /\ retry.attempts > 0
  /\ retry.returned = "pending"
  /\ \E loopErr \in {retry.last} \cup
                    (IF IsRetryable(retry.last) /\ retry.last # "ok"
                     THEN {"context.Canceled"} ELSE {}) :
       retry' = [retry EXCEPT !.returned =
                   IF loopErr = "ok" /\ retry.helper = "RetryWithResult"
                      /\ retry.lastErr # "none"
                   THEN retry.lastErr ELSE loopErr]
  /\ UNCHANGED circuitVars

RetryAgain ==
  /\ retry.returned # "pending"
  /\ retry' = Untried
  /\ UNCHANGED circuitVars

CircuitNext ==
  \/ \E c \in Callers :
       Create(c) \/ Admit(c) \/ Finish(c) \/ \E h \in Hosts : Lookup(c, h)
  \/ \E h \in Hosts : RemoveBreaker(h)
  \/ \E b \in Breakers : IntervalEnds(b)

RetryNext == StartRetry \/ Attempt \/ Return \/ RetryAgain

ResilienceNext == CircuitNext \/ RetryNext

ResilienceSpec == ResilienceInit /\ [][ResilienceNext]_resilienceVars

-----------------------------------------------------------------------------

\* All callers for a host share one breaker, so that its counts see every
\* request: only Remove makes a caller's breaker differ from the one in the map,
\* never two callers that find the map empty at the same time.
OneBreakerPerHost ==
  \A c \in Callers :
    call[c].at \in {"admit", "running"} =>
      call[c].breaker = breakers[call[c].host] \/ call[c].breaker \in retired

\* What a retry helper reports agrees with what it did: at most MaxRetries + 1
\* attempts, success only after a successful last attempt, and an error of
\* Retry or RetryNotify is one that the last attempt or the context raised.
\* (RetryWithResult also returns an earlier error together with a good result.)
RetryVerdict ==
  /\ retry.attempts <= MaxRetries + 1
  /\ retry.returned = "ok" =>
       retry.last = "ok" /\ (retry.helper = "RetryWithResult" => retry.attempts = 1)
  /\ retry.helper # "RetryWithResult" /\ retry.returned \notin {"ok", "pending"} =>
       retry.last # "ok" /\ retry.returned \in {retry.last, "context.Canceled"}

=============================================================================
