---------------------------- MODULE Coordinator -----------------------------
(***************************************************************************)
(* The coordinator's gRPC server (internal/coordinator/server/grpc.go)     *)
(* together with the registry and scheduler it calls and the workers it    *)
(* forwards to.                                                            *)
(*                                                                         *)
(* Every RPC runs in a goroutine of its own.  A handler holds no lock from *)
(* one step to the next: it reads a snapshot of the registry to choose a   *)
(* worker, books the task with IncrementTasks later, talks to the worker   *)
(* without any lock, and releases the booking with DecrementTasks.  pc is  *)
(* the place a handler has reached; in between anything may happen to the  *)
(* registry, to the worker and to the client.  Each of the server's        *)
(* counters is an atomic of its own, so every addition is a step: the      *)
(* dashboard and HealthCheck may read the counters between any two.  The   *)
(* tallies that only grow and are related to no other (cache hits and      *)
(* misses, builds of each kind) are left out.                              *)
(*                                                                         *)
(*   compile:  select - track - count - total - gauge - connect (- dial)   *)
(*             - send ...                                                  *)
(*   build:    select - connect (- dial) - track - count - total - gauge   *)
(*             - send ...                                                  *)
(*   both:     ... wait - release - finish (- store) - retire - ungauge    *)
(*             - leave - done                                              *)
(*   build without a worker:  select - nofail - leave - done               *)
(*   build from the cache:    hit - done                                   *)
(***************************************************************************)
EXTENDS Scheduler, WorkerServer

CONSTANTS
  Request,       \* [Calls -> [arch, os, platform, source]], see below
  Disturbances   \* the kinds of disturbance an instance lets happen

(* arch and os are TargetArch and the OS filter of a compile call (the     *)
(* client's OS in preprocessed mode, none in raw mode); platform is the    *)
(* target platform of a build and source the rest of what determines it:   *)
(* the hash of the project, the tool's version, mode, flavor, defines.     *)
ASSUME RequestAssumption ==
  \A c \in Calls : {"arch", "os", "platform", "source"} \subseteq DOMAIN Request[c]

VARIABLES
  pc,          \* [Calls -> PC], progress of the handler
  assigned,    \* [Calls -> Workers \cup {"none"}], the selected worker
  result,      \* [Calls -> Result], what the handler knows or answered
  ctxDone,     \* [Calls -> BOOLEAN], the client's context is over
  pool,        \* SUBSET Workers, connPool.conns
  stats,       \* the atomic counters of Server
  byWorker,    \* [Workers -> Int], activeTasksByWorker
  buildCache   \* set of keys with an entry in flutterCache or unityCache

coordVars == <<pc, assigned, result, ctxDone, pool, stats, byWorker, buildCache>>
vars == <<registry, workerVars, coordVars>>

InFlight == {"hit", "select", "nofail", "track", "count", "total", "gauge",
             "connect", "dial", "send", "wait", "release", "finish", "store",
             "retire", "ungauge", "leave"}
PC == InFlight \cup {"idle", "done", "aborted"}
Result == {"none", "ok", "fail", "error", "noworker", "unreachable", "cached"}

Counters == [activeTasks : Int, queuedTasks : Int, totalTasks : Nat,
             successTasks : Nat, failedTasks : Nat]
NoCounts == [activeTasks |-> 0, queuedTasks |-> 0, totalTasks |-> 0,
             successTasks |-> 0, failedTasks |-> 0]

Init ==
  /\ RegistryInit
  /\ WorkerInit
  /\ pc = [c \in Calls |-> "idle"]
  /\ assigned = [c \in Calls |-> "none"]
  /\ result = [c \in Calls |-> "none"]
  /\ ctxDone = [c \in Calls |-> FALSE]
  /\ pool = {}
  /\ stats = NoCounts
  /\ byWorker = [w \in Workers |-> 0]
  /\ buildCache = {}

Goto(c, label) == pc' = [pc EXCEPT ![c] = label]

(* The handler returns: its locals and its context are gone. *)
Return(c) ==
  /\ Goto(c, "done")
  /\ assigned' = [assigned EXCEPT ![c] = "none"]
  /\ ctxDone' = [ctxDone EXCEPT ![c] = FALSE]

(* A step from one place to the next that adds to one of the counters. *)
Tally(c, from, counts, to) ==
  /\ pc[c] = from
  /\ stats' = counts
  /\ Goto(c, to)
  /\ UNCHANGED <<registry, workerVars, assigned, result, ctxDone, pool,
                 byWorker, buildCache>>

(* A bound on the environment, so that a run can concentrate. *)
May(d) == d \in Disturbances

-----------------------------------------------------------------------------
(* Entering a handler *)

(* FlutterCacheKey and UnityCacheKey.  Only the latter has the target      *)
(* platform in it; each kind of build has a cache of its own.              *)
CacheKey(c) ==
  IF Kind[c] = "unity" THEN <<Kind[c], Request[c].source, Request[c].platform>>
                       ELSE <<Kind[c], Request[c].source>>

CompileEnter(c) ==
  /\ ~IsBuild(c)
  /\ Tally(c, "idle", [stats EXCEPT !.queuedTasks = stats.queuedTasks + 1], "select")

BuildCacheMiss(c) ==
  /\ IsBuild(c)
  /\ CacheKey(c) \notin buildCache
  /\ Tally(c, "idle", [stats EXCEPT !.queuedTasks = stats.queuedTasks + 1], "select")

(* A build answered from the cache counts as a task, and is never queued.  *)
BuildCacheHit(c) ==
  /\ pc[c] = "idle" /\ IsBuild(c)
  /\ CacheKey(c) \in buildCache
  /\ Goto(c, "hit")
  /\ result' = [result EXCEPT ![c] = "cached"]
  /\ stats' = [stats EXCEPT !.totalTasks = stats.totalTasks + 1]
  /\ UNCHANGED <<registry, workerVars, assigned, ctxDone, pool, byWorker,
                 buildCache>>

HitSuccess(c) ==
  /\ pc[c] = "hit"
  /\ stats' = [stats EXCEPT !.successTasks = stats.successTasks + 1]
  /\ Return(c)
  /\ UNCHANGED <<registry, workerVars, result, pool, byWorker, buildCache>>

-----------------------------------------------------------------------------
(* Choosing a worker *)

(* workerSupportsFlutterPlatform and workerSupportsUnityPlatform: an empty *)
(* list of platforms means all of them.                                    *)
SupportsPlatform(w, c) ==
  /\ Kind[c] \in Caps[w].builds
  /\ Caps[w].platforms = {} \/ Request[c].platform \in Caps[w].platforms

(* selectFlutterWorker and selectUnityWorker return the first match in the *)
(* random order of the registry's map, whatever its load.                  *)
Candidates(c) ==
  IF IsBuild(c)
  THEN {w \in Workers : SupportsPlatform(w, c) /\ IsHealthy(w)}
  ELSE Select("compile", Request[c].arch, Request[c].os)

SelectWorker(c) ==
  /\ pc[c] = "select"
  /\ \E w \in Candidates(c) : assigned' = [assigned EXCEPT ![c] = w]
  /\ Goto(c, IF IsBuild(c) THEN "connect" ELSE "track")
  /\ UNCHANGED <<registry, workerVars, result, ctxDone, pool, stats,
                 byWorker, buildCache>>

(* A build that finds no worker counts as a failed task, a compile call    *)
(* does not.                                                               *)
NoWorkerAvailable(c) ==
  /\ pc[c] = "select"
  /\ Candidates(c) = {}
  /\ Goto(c, IF IsBuild(c) THEN "nofail" ELSE "leave")
  /\ result' = [result EXCEPT ![c] = "noworker"]
  /\ stats' = IF IsBuild(c)
              THEN [stats EXCEPT !.totalTasks = stats.totalTasks + 1] ELSE stats
  /\ UNCHANGED <<registry, workerVars, assigned, ctxDone, pool, byWorker,
                 buildCache>>

NoWorkerFailed(c) ==
  Tally(c, "nofail", [stats EXCEPT !.failedTasks = stats.failedTasks + 1], "leave")

-----------------------------------------------------------------------------
(* Booking: the registry under its own lock, then the counters one by one *)

TrackInRegistry(c) ==
  /\ pc[c] = "track"
  /\ IncrementTasks(assigned[c])
  /\ Goto(c, "count")
  /\ UNCHANGED <<workerVars, assigned, result, ctxDone, pool, stats,
                 byWorker, buildCache>>

CountActive(c) ==
  Tally(c, "count", [stats EXCEPT !.activeTasks = stats.activeTasks + 1], "total")

CountTotal(c) ==
  Tally(c, "total", [stats EXCEPT !.totalTasks = stats.totalTasks + 1], "gauge")

CountByWorker(c) ==
  /\ pc[c] = "gauge"
  /\ byWorker' = [byWorker EXCEPT ![assigned[c]] = @ + 1]
  /\ Goto(c, IF IsBuild(c) THEN "send" ELSE "connect")
  /\ UNCHANGED <<registry, workerVars, assigned, result, ctxDone, pool, stats,
                 buildCache>>

-----------------------------------------------------------------------------
(* The call to the worker *)

(* connPool.get: a pooled connection, or a blocking dial outside the lock  *)
(* that succeeds only once the worker listens.  The pool is looked at once *)
(* more before the new connection goes in; either way it has one then.     *)
Connect(c) ==
  /\ pc[c] = "connect"
  /\ Goto(c, CASE assigned[c] \notin pool -> "dial"
               [] IsBuild(c)              -> "track"
               [] OTHER                   -> "send")
  /\ UNCHANGED <<registry, workerVars, assigned, result, ctxDone, pool, stats,
                 byWorker, buildCache>>

Dial(c) ==
  /\ pc[c] = "dial"
  /\ proc[assigned[c]] = "up"
  /\ pool' = pool \cup {assigned[c]}
  /\ Goto(c, IF IsBuild(c) THEN "track" ELSE "send")
  /\ UNCHANGED <<registry, workerVars, assigned, result, ctxDone, stats,
                 byWorker, buildCache>>

(* Mutants of DialFails: the dial ignores the context; a build that could  *)
(* not connect is counted as failed without having been counted at all.    *)
DialNeverFails(c) == pc[c] = "dial" /\ FALSE /\ UNCHANGED vars

DialFailureCounted(c) ==
  /\ ctxDone[c] /\ IsBuild(c)
  /\ Tally(c, "dial", [stats EXCEPT !.failedTasks = @ + 1], "leave")

(* The dial is bounded by the client's context alone.  A build returns     *)
(* here, uncounted; a compile call goes on to release its booking.         *)
DialFails(c) ==
  /\ pc[c] = "dial" /\ ctxDone[c]
  /\ Goto(c, IF IsBuild(c) THEN "leave" ELSE "release")
  /\ result' = [result EXCEPT ![c] = IF IsBuild(c) THEN "unreachable" ELSE "error"]
  /\ UNCHANGED <<registry, workerVars, assigned, ctxDone, pool, stats, byWorker,
                 buildCache>>

Send(c) ==
  /\ pc[c] = "send" /\ ~ctxDone[c]
  /\ proc[assigned[c]] = "up"
  /\ inbox' = [inbox EXCEPT ![assigned[c]] = @ \cup {c}]
  /\ Goto(c, "wait")
  /\ UNCHANGED <<registry, proc, activeTasks, running, refusing, served, reply,
                 assigned, result, ctxDone, pool, stats, byWorker, buildCache>>

ReceiveReply(c) ==
  /\ pc[c] = "wait" /\ reply[c] # "none"
  /\ result' = [result EXCEPT ![c] = reply[c]]
  /\ Goto(c, "release")
  /\ UNCHANGED <<registry, workerVars, assigned, ctxDone, pool, stats,
                 byWorker, buildCache>>

(* Mutant of CallFails: a failed call is reported as never dispatched. *)
ErrorMeansNotDispatched(c) ==
  /\ \/ pc[c] = "wait" /\ ~IsBuild(c)
     \/ pc[c] = "send" /\ proc[assigned[c]] # "up"
     \/ pc[c] \in {"send", "wait"} /\ ctxDone[c]
  /\ result' = [result EXCEPT ![c] = "unreachable"]
  /\ Goto(c, "release")
  /\ UNCHANGED <<registry, workerVars, assigned, ctxDone, pool, stats,
                 byWorker, buildCache>>

(* The call ends with an error although the worker may be running the      *)
(* task: RequestTimeout (compile only) or the client's context.  A call on *)
(* a connection that is down fails at once.                                *)
CallFails(c) ==
  /\ \/ pc[c] = "wait" /\ ~IsBuild(c)
     \/ pc[c] = "send" /\ proc[assigned[c]] # "up"
     \/ pc[c] \in {"send", "wait"} /\ ctxDone[c]
  /\ result' = [result EXCEPT ![c] = "error"]
  /\ Goto(c, "release")
  /\ UNCHANGED <<registry, workerVars, assigned, ctxDone, pool, stats,
                 byWorker, buildCache>>

(* The connection breaks, before or after the request was sent. *)
ConnectionLost(c) ==
  /\ May("connection_lost")
  /\ pc[c] \in {"send", "wait"}
  /\ result' = [result EXCEPT ![c] = "error"]
  /\ Goto(c, "release")
  /\ UNCHANGED <<registry, workerVars, assigned, ctxDone, pool, stats,
                 byWorker, buildCache>>

-----------------------------------------------------------------------------
(* The way out *)

(* A response carries the worker's compilation time even when the compiler *)
(* failed, but not when the executor did; an RPC error carries none, and   *)
(* builds always report zero.                                              *)
ReportedTimes(c) ==
  CASE IsBuild(c) \/ result[c] = "error" -> {0}
    [] result[c] = "fail"                -> Times \cup {0}
    [] OTHER                             -> Times

Release(c) ==
  /\ pc[c] = "release"
  /\ \E t \in ReportedTimes(c) :
       DecrementTasks(assigned[c], result[c] = "ok", t)
  /\ Goto(c, "finish")
  /\ UNCHANGED <<workerVars, assigned, result, ctxDone, pool, stats,
                 byWorker, buildCache>>

CountOutcome(c) ==
  Tally(c, "finish",
        IF result[c] = "ok"
        THEN [stats EXCEPT !.successTasks = stats.successTasks + 1]
        ELSE [stats EXCEPT !.failedTasks = stats.failedTasks + 1],
        IF IsBuild(c) THEN "store" ELSE "retire")

(* Mutant of StoreArtifacts: a build that ended without an RPC error is    *)
(* cached, successful or not.                                              *)
StoreAnyBuild(c) ==
  /\ pc[c] = "store"
  /\ buildCache' = IF result[c] # "error"
                   THEN buildCache \cup {CacheKey(c)} ELSE buildCache
  /\ Goto(c, "retire")
  /\ UNCHANGED <<registry, workerVars, assigned, result, ctxDone, pool, stats,
                 byWorker>>

(* A worker sends artifacts only with a successful build.                  *)
StoreArtifacts(c) ==
  /\ pc[c] = "store"
  /\ buildCache' = IF result[c] = "ok"
                   THEN buildCache \cup {CacheKey(c)} ELSE buildCache
  /\ Goto(c, "retire")
  /\ UNCHANGED <<registry, workerVars, assigned, result, ctxDone, pool, stats,
                 byWorker>>

(* The deferred decrements, the last one deferred first.                   *)
Retire(c) ==
  Tally(c, "retire", [stats EXCEPT !.activeTasks = stats.activeTasks - 1], "ungauge")

Ungauge(c) ==
  /\ pc[c] = "ungauge"
  /\ byWorker' = [byWorker EXCEPT ![assigned[c]] = @ - 1]
  /\ Goto(c, "leave")
  /\ UNCHANGED <<registry, workerVars, assigned, result, ctxDone, pool, stats,
                 buildCache>>

Leave(c) ==
  /\ pc[c] = "leave"
  /\ stats' = [stats EXCEPT !.queuedTasks = stats.queuedTasks - 1]
  /\ Return(c)
  /\ UNCHANGED <<registry, workerVars, result, pool, byWorker, buildCache>>

-----------------------------------------------------------------------------
(* The surroundings *)

(* The client's deadline passes, or the client goes away.  Once the call   *)
(* to the worker is over the handler does not look at its context again.   *)
UsesContext == {"select", "track", "count", "total", "gauge", "connect", "dial",
                "send", "wait"}
ClientGivesUp(c) ==
  /\ May("client_gives_up")
  /\ pc[c] \in UsesContext /\ ~ctxDone[c]
  /\ ctxDone' = [ctxDone EXCEPT ![c] = TRUE]
  /\ UNCHANGED <<registry, workerVars, pc, assigned, result, pool, stats,
                 byWorker, buildCache>>

(* Server.Handshake on behalf of a worker with the right token (any other  *)
(* is turned away before the registry is touched).  hg-worker always sends *)
(* a positive --max-parallel, so the default of 4 is never taken.          *)
Handshake(w) == Add(w, MaxConcurrent[w])

(* hg-worker registers before it listens, and registers again under the    *)
(* same identifier after a restart.                                        *)
WorkerRegisters(w) ==
  /\ StartProcess(w)
  /\ Handshake(w)
  /\ UNCHANGED coordVars

Heartbeat(w) ==
  /\ proc[w] \in {"starting", "up"}
  /\ Handshake(w)
  /\ UNCHANGED <<workerVars, coordVars>>

HeartbeatLost(w) ==
  /\ May("heartbeat_lost")
  /\ HeartbeatExpires(w)
  /\ UNCHANGED <<workerVars, coordVars>>

Cleanup ==
  /\ cleanupStaleWorkers
  /\ UNCHANGED <<workerVars, coordVars>>

WorkerStep(w) ==
  /\ \/ Listen(w)
     \/ \E c \in Calls : \/ RejectUnimplemented(w, c)
                         \/ Admit(w, c)
                         \/ RejectExhausted(w, c)
                         \/ \E success \in BOOLEAN : FinishTask(w, c, success)
  /\ UNCHANGED <<registry, coordVars>>

WorkerStops(w) ==
  /\ May("worker_stops")
  /\ Drain(w) \/ Terminate(w)
  /\ UNCHANGED <<registry, coordVars>>

CoordinatorRestarts ==
  /\ May("coordinator_restarts")
  /\ pc' = [c \in Calls |-> IF pc[c] \in InFlight THEN "aborted" ELSE pc[c]]
  /\ registry' = [w \in Workers |-> NoWorkerInfo]
  /\ pool' = {}
  /\ stats' = NoCounts
  /\ byWorker' = [w \in Workers |-> 0]
  /\ buildCache' = {}
  /\ assigned' = [c \in Calls |-> "none"]
  /\ ctxDone' = [c \in Calls |-> FALSE]
  /\ result' = [c \in Calls |-> IF pc[c] \in InFlight THEN "none" ELSE result[c]]
  /\ UNCHANGED workerVars

Enter(c) == CompileEnter(c) \/ BuildCacheHit(c) \/ BuildCacheMiss(c)

HandlerStep(c) ==
  \/ HitSuccess(c)
  \/ SelectWorker(c) \/ NoWorkerAvailable(c) \/ NoWorkerFailed(c)
  \/ TrackInRegistry(c) \/ CountActive(c) \/ CountTotal(c) \/ CountByWorker(c)
  \/ Connect(c) \/ Dial(c) \/ DialFails(c) \/ Send(c)
  \/ ReceiveReply(c) \/ CallFails(c)
  \/ Release(c) \/ CountOutcome(c) \/ StoreArtifacts(c)
  \/ Retire(c) \/ Ungauge(c) \/ Leave(c)

Next ==
  \/ \E c \in Calls : \/ Enter(c) \/ HandlerStep(c)
                      \/ ConnectionLost(c) \/ ClientGivesUp(c)
  \/ \E w \in Workers : \/ WorkerRegisters(w) \/ Heartbeat(w) \/ HeartbeatLost(w)
                        \/ WorkerStep(w) \/ WorkerStops(w)
  \/ Cleanup
  \/ CoordinatorRestarts

Spec == Init /\ [][Next]_vars

(* A handler keeps running, every RPC has a finite deadline at its client  *)
(* (Client.Compile and Client.Build), an executor is killed at its        *)
(* timeout, the heartbeat and cleanup tickers keep firing, and the time to *)
(* live of a dead worker's last heartbeat passes.  Nothing makes a client  *)
(* call, a worker start, or a connection hold.                             *)
Fairness ==
  /\ \A c \in Calls : WF_vars(HandlerStep(c)) /\ WF_vars(ClientGivesUp(c))
  /\ \A w \in Workers : /\ WF_vars(WorkerStep(w)) /\ WF_vars(Heartbeat(w))
                        /\ WF_vars(proc[w] = "down" /\ HeartbeatLost(w))
  /\ WF_vars(Cleanup)

FairSpec == Spec /\ Fairness

-----------------------------------------------------------------------------
(* Properties *)

(* The shape of the state of coordinator, registry and workers.  That the  *)
(* counters of the registry stay natural numbers is what the saturating    *)
(* subtraction and the division of DecrementTasks are there for.           *)
TypeOK ==
  /\ registry \in [Workers -> WorkerInfo]
  /\ WorkerTypeOK
  /\ pc \in [Calls -> PC]
  /\ assigned \in [Calls -> Workers \cup {"none"}]
  /\ result \in [Calls -> Result]
  /\ ctxDone \in [Calls -> BOOLEAN]
  /\ pool \subseteq Workers
  /\ stats \in Counters
  /\ byWorker \in [Workers -> Int]
  /\ buildCache \subseteq {CacheKey(c) : c \in Calls}

(* Handlers between IncrementTasks and DecrementTasks of a worker.  A      *)
(* compile call dials after it has booked, a build before.                 *)
DialsBooked(c) == pc[c] \in {"connect", "dial"} /\ ~IsBuild(c)
HoldsBooking(c) ==
  pc[c] \in {"count", "total", "gauge", "send", "wait", "release"} \/ DialsBooked(c)
Booked(w) == {c \in Calls : assigned[c] = w /\ HoldsBooking(c)}

(* Handlers between the two ends of each of the server's own counters.     *)
IsQueued(c) == pc[c] \in InFlight \ {"hit"}
IsActive(c) ==
  \/ pc[c] \in {"total", "gauge", "send", "wait", "release", "finish", "store", "retire"}
  \/ DialsBooked(c)
IsOpen(c) ==
  \/ pc[c] \in {"gauge", "send", "wait", "release", "finish", "nofail", "hit"}
  \/ DialsBooked(c)
IsGauged(c) ==
  \/ pc[c] \in {"send", "wait", "release", "finish", "store", "retire", "ungauge"}
  \/ DialsBooked(c)
Gauged(w) == {c \in Calls : assigned[c] = w /\ IsGauged(c)}

(* The load the scheduler sees is the number of handlers that really hold  *)
(* a booking on that worker.  Early returns, worker crashes, workers going *)
(* unhealthy with tasks in flight, restarts under the same identifier and  *)
(* a restart of the coordinator neither leak a booking nor release one     *)
(* twice (IncrementTasks/DecrementTasks around forwardCompile).            *)
BookingsExact ==
  \A w \in Workers : registry[w].ActiveTasks = Cardinality(Booked(w))

(* A worker shown as Busy has a task, so a worker left alone ends up Idle  *)
(* or Unhealthy, and its lifetime counters add up to what was dispatched.  *)
WorkerLedger ==
  \A w \in Workers :
    LET i == registry[w] IN
    /\ i.state = "Busy" => i.ActiveTasks > 0
    /\ i.TotalTasks = i.SuccessfulTasks + i.FailedTasks + i.ActiveTasks

(* The counters GetStats and HealthCheck load, at every moment one of them *)
(* can be loaded: the gauges of active, queued and per-worker tasks are    *)
(* the handlers inside the code they bracket, so they return to zero when  *)
(* the handlers do, and a task counted in totalTasks and not yet as        *)
(* succeeded or failed has a handler that is on its way to count it, on    *)
(* every path out of Compile and Build.                                    *)
CountersExact ==
  /\ stats.activeTasks = Cardinality({c \in Calls : IsActive(c)})
  /\ stats.queuedTasks = Cardinality({c \in Calls : IsQueued(c)})
  /\ stats.totalTasks = stats.successTasks + stats.failedTasks
                          + Cardinality({c \in Calls : IsOpen(c)})
  /\ \A w \in Workers : byWorker[w] = Cardinality(Gauged(w))

(* The average compile time the dashboard and the HEFT scheduler read      *)
(* never exceeds the longest time a worker reported, for every             *)
(* interleaving of successes and failures DecrementTasks is called with.   *)
AverageBounded ==
  \A w \in Workers : LET avg == registry[w].AvgCompileTime IN
    avg = 0 \/ \E t \in Times : avg <= t

(* "relax criteria but still respect capacity" (P2CScheduler.Select): no   *)
(* worker is booked beyond the number of tasks it said it can run.         *)
CapacityRespected ==
  \A w \in Workers : Registered(w) =>
    registry[w].ActiveTasks <= registry[w].MaxParallel

(* The artifact cache only ever answers with artifacts of a build that a   *)
(* worker completed for the same key.                                      *)
CacheSound ==
  /\ \A k \in buildCache : \E c \in Calls : CacheKey(c) = k /\ reply[c] = "ok"
  /\ \A c \in Calls : result[c] = "cached" =>
       \E d \in Calls \ {c} : CacheKey(d) = CacheKey(c) /\ reply[d] = "ok"

(* Only a handshake of a living worker process takes a worker out of       *)
(* Unhealthy: releasing its old tasks, or booking one chosen from an older *)
(* snapshot, never makes the scheduler trust it again.                     *)
OnlyHandshakeRevives ==
  [][\A w \in Workers :
       /\ registry[w].state = "Unhealthy"
       /\ registry'[w].state \in {"Idle", "Busy"}
       => proc[w] \in {"starting", "up"} \/ proc'[w] = "starting"]_vars

(* To its clients the coordinator is a CompileService. *)
Service == INSTANCE CompileService WITH
  KeyOf  <- [c \in Calls |-> CacheKey(c)],
  status <- [c \in Calls |-> CASE pc[c] = "idle"    -> "idle"
                               [] pc[c] = "done"    -> "answered"
                               [] pc[c] = "aborted" -> "broken"
                               [] OTHER             -> "pending"],
  answer <- [c \in Calls |-> IF pc[c] = "done" THEN result[c] ELSE "none"],
  ran    <- [c \in Calls |-> IF reply[c] \in {"ok", "fail"} THEN reply[c] ELSE "none"]

(* Every answer a client gets is justified by what the workers did with    *)
(* that call: no result without a run, no second run, and no run after an  *)
(* answer that said the task was not dispatched.                           *)
ImplementsService == Service!Spec

(* No call stays in its handler: every call that enters one is answered    *)
(* (or broken off by a coordinator restart), even if no worker ever works  *)
(* again.  The blocking dial is the one wait the coordinator itself puts   *)
(* no bound on.                                                            *)
EveryCallAnswered ==
  \A c \in Calls : []<>(pc[c] \notin InFlight)

(* A worker that stays down is in the end marked and never selected again. *)
DeadWorkerShunned ==
  \A w \in Workers :
    <>[](proc[w] = "down") => <>[](registry[w].state \in {"Absent", "Unhealthy"})

(* A worker that stays up is selectable again and again: after a missed    *)
(* heartbeat, after cleanup, and after the coordinator lost its registry.  *)
LiveWorkerTrusted ==
  \A w \in Workers : <>[](proc[w] = "up") => []<>IsHealthy(w)

=============================================================================
