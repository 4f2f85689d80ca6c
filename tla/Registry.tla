------------------------------ MODULE Registry ------------------------------
(***************************************************************************)
(* The coordinator's in-memory worker registry                             *)
(* (internal/coordinator/registry/registry.go).                            *)
(*                                                                         *)
(* Every method of InMemoryRegistry runs under the registry's mutex, so    *)
(* each one is a single step here.  A worker identifier that is not in     *)
(* the map has state "Absent".  LastHeartbeat is kept only as far as the   *)
(* code looks at it: stale is time.Since(LastHeartbeat) > ttl, set by the  *)
(* passing of time (HeartbeatExpires) and cleared by a heartbeat.          *)
(***************************************************************************)
EXTENDS Grid

CONSTANT
  Times         \* compile times (ms) a finished task may report

ASSUME TimesAssumption == Times \subseteq Nat

VARIABLE registry     \* [Workers -> WorkerInfo]: InMemoryRegistry.workers

WorkerState == {"Idle", "Busy", "Unhealthy"}

WorkerInfo ==
  [state           : WorkerState \cup {"Absent"},
   stale           : BOOLEAN,
   MaxParallel     : Nat,
   ActiveTasks     : Nat,
   TotalTasks      : Nat,
   SuccessfulTasks : Nat,
   FailedTasks     : Nat,
   AvgCompileTime  : Nat]

Fresh(state, maxParallel) ==
  [state |-> state, stale |-> FALSE, MaxParallel |-> maxParallel,
   ActiveTasks |-> 0, TotalTasks |-> 0, SuccessfulTasks |-> 0,
   FailedTasks |-> 0, AvgCompileTime |-> 0]

NoWorkerInfo == Fresh("Absent", 0)

Registered(w) == registry[w].state # "Absent"

IsHealthy(w) ==
  /\ registry[w].state \notin {"Absent", "Unhealthy"}
  /\ ~registry[w].stale

-----------------------------------------------------------------------------
(* What each mutating method does to the entry of one worker. *)

(* Mutant of Revived: a heartbeat does not bring a marked worker back.     *)
NotRevived(s) == s

Revived(s) == IF s = "Unhealthy" THEN "Idle" ELSE s

(* Add on a worker that is in the map, which is also how a heartbeat and a *)
(* restarted worker arrive: the counters stay.                             *)
Refreshed(i, maxParallel) ==
  [i EXCEPT !.MaxParallel = maxParallel, !.stale = FALSE,
            !.state = Revived(i.state)]

(* Mutant of Add: a second handshake starts a fresh entry. *)
AddReplaces(w, maxParallel) ==
  registry' = [registry EXCEPT ![w] = Fresh("Idle", maxParallel)]

Add(w, maxParallel) ==
  registry' =
    [registry EXCEPT ![w] =
       IF Registered(w)
       THEN Refreshed(registry[w], maxParallel)
       ELSE Fresh("Idle", maxParallel)]

(* A worker that is not registered makes the call fail; the callers ignore *)
(* the error, so nothing changes.                                          *)
Incremented(i) ==
  [i EXCEPT !.ActiveTasks = i.ActiveTasks + 1,
            !.TotalTasks = i.TotalTasks + 1,
            !.state = IF i.state = "Idle" THEN "Busy" ELSE i.state]

IncrementTasks(w) ==
  registry' = IF Registered(w)
              THEN [registry EXCEPT ![w] = Incremented(registry[w])]
              ELSE registry

(* Mutants of MovingAverage: the count is taken before the increment; the  *)
(* sample has the wrong sign.                                              *)
AverageOfOneMore(avg, successes, t) ==
  IF successes > 0 THEN (avg * successes + t) \div successes ELSE avg

AverageMinus(avg, successes, t) ==
  IF successes > 0 THEN (avg * (successes - 1) - t) \div successes ELSE avg

(* The running average: one more sample t, divided by the number of        *)
(* successful tasks.  The code applies it after failures too.              *)
MovingAverage(avg, successes, t) ==
  IF successes > 0 THEN (avg * (successes - 1) + t) \div successes ELSE avg

(* Mutants of Decremented: a failure is not counted; a worker without      *)
(* tasks becomes Idle whatever its state.                                  *)
FailureUncounted(i, success, t) ==
  [i EXCEPT !.ActiveTasks = IF i.ActiveTasks > 0 THEN i.ActiveTasks - 1 ELSE 0,
            !.SuccessfulTasks = IF success THEN @ + 1 ELSE @,
            !.state = IF i.ActiveTasks <= 1 /\ i.state = "Busy" THEN "Idle" ELSE @]

IdleWhenEmpty(i, success, t) ==
  [i EXCEPT !.ActiveTasks = IF i.ActiveTasks > 0 THEN i.ActiveTasks - 1 ELSE 0,
            !.SuccessfulTasks = IF success THEN @ + 1 ELSE @,
            !.FailedTasks = IF success THEN @ ELSE @ + 1,
            !.state = IF i.ActiveTasks <= 1 THEN "Idle" ELSE @]

Decremented(i, success, t) ==
  LET active    == IF i.ActiveTasks > 0 THEN i.ActiveTasks - 1 ELSE 0
      successes == IF success THEN i.SuccessfulTasks + 1 ELSE i.SuccessfulTasks
  IN  [i EXCEPT !.ActiveTasks = active,
                !.SuccessfulTasks = successes,
                !.FailedTasks = IF success THEN i.FailedTasks
                                           ELSE i.FailedTasks + 1,
                !.AvgCompileTime = MovingAverage(i.AvgCompileTime, successes, t),
                !.state = IF active = 0 /\ i.state = "Busy" THEN "Idle"
                                                            ELSE i.state]

DecrementTasks(w, success, t) ==
  registry' = IF Registered(w)
              THEN [registry EXCEPT ![w] = Decremented(registry[w], success, t)]
              ELSE registry

(* Mutant of StaleWorkers: the comparison with the time to live is turned  *)
(* around.                                                                 *)
FreshWorkers == {w \in Workers : Registered(w) /\ ~registry[w].stale}

(* The ticker of cleanupLoop.  Despite that function's comment a stale     *)
(* worker is not removed, only marked.                                     *)
StaleWorkers == {w \in Workers : Registered(w) /\ registry[w].stale}

cleanupStaleWorkers ==
  /\ \E w \in StaleWorkers : registry[w].state # "Unhealthy"
  /\ registry' = [w \in Workers |->
                    IF w \in StaleWorkers
                    THEN [registry[w] EXCEPT !.state = "Unhealthy"]
                    ELSE registry[w]]

(* The time to live of a heartbeat passes without another one. *)
HeartbeatExpires(w) ==
  /\ Registered(w) /\ ~registry[w].stale
  /\ registry' = [registry EXCEPT ![w].stale = TRUE]

RegistryInit == registry = [w \in Workers |-> NoWorkerInfo]

=============================================================================
