----------------------------- MODULE Scheduler ------------------------------
(***************************************************************************)
(* Worker selection (internal/coordinator/scheduler and the                *)
(* capability filter of the registry).  A scheduler reads one snapshot of  *)
(* the registry (ListByCapability holds the read lock and returns clones)  *)
(* and keeps no lock afterwards, so a selection is an operator of the      *)
(* registry's state: the set of workers it may return.  The set is empty   *)
(* exactly when the code returns ErrNoWorkers or ErrNoMatchingWorkers.     *)
(* The order of the snapshot is the random order of a Go map, so a         *)
(* position in it, or a tie, can fall on any of the workers.               *)
(***************************************************************************)
EXTENDS Registry

CONSTANTS
  Caps,            \* [Workers -> capabilities sent in the handshake]
  SchedulerType,   \* Config.SchedulerType
  BaseScore        \* [Workers -> Int], the load-independent part of scoreWorker

ASSUME BaseScoreAssumption == BaseScore \in [Workers -> Int]

Unspecified == "unspecified"

-----------------------------------------------------------------------------
(* matchesCapability and ListByCapability *)

ArchitectureMatches(w, arch) ==
  \/ arch = Unspecified
  \/ Caps[w].arch = arch
  \/ Caps[w].docker
  \/ Caps[w].crossCompile

(* Capabilities.builds is the set of build types whose capability message  *)
(* is present (for C++ with at least one compiler).  Unity has no case in  *)
(* the switch of matchesCapability and falls through to true.              *)
BuildTypeMatches(w, buildType) ==
  buildType \in {Unspecified, "unity"} \/ buildType \in Caps[w].builds

ListByCapability(buildType, arch) ==
  {w \in Workers : /\ IsHealthy(w)
                   /\ ArchitectureMatches(w, arch)
                   /\ BuildTypeMatches(w, buildType)}

(* An empty clientOS means no filter. *)
filterByOS(ws, clientOS) ==
  {w \in ws : \/ clientOS = Unspecified
              \/ Caps[w].os = clientOS
              \/ Caps[w].docker}

Matching(buildType, arch, clientOS) ==
  filterByOS(ListByCapability(buildType, arch), clientOS)

-----------------------------------------------------------------------------
(* The schedulers of newScheduler *)

(* The code reads a MaxParallel of zero or less as 4.  Handshake has done  *)
(* so before, so no entry has one.                                         *)
HasCapacity(w) == registry[w].ActiveTasks < registry[w].MaxParallel

(* Round robin over the idle workers with room, else over those with room. *)
SimpleSelect(ws) ==
  LET idle == {w \in ws : HasCapacity(w) /\ registry[w].state = "Idle"}
  IN  IF idle # {} THEN idle ELSE {w \in ws : HasCapacity(w)}

(* The default.  MaxParallel plays no part in it. *)
LeastLoadedSelect(ws) ==
  {w \in ws : \A v \in ws : registry[w].ActiveTasks <= registry[v].ActiveTasks}

(* The admission rules p2c and the learning schedulers share.  open is the *)
(* set of workers whose circuit breaker is open: when the breakers leave   *)
(* nobody they are ignored, the capacity never is.                         *)
eligibleWorkers(ws, open) ==
  LET closed == {w \in ws \ open : HasCapacity(w)}
  IN  IF closed # {} THEN closed ELSE {w \in ws : HasCapacity(w)}

(* Fifteen points off for every active task.  The latency tracker has no   *)
(* writer in the server, so its term is always that of an unknown worker.  *)
scoreWorker(w) == BaseScore[w] - 15 * registry[w].ActiveTasks

(* Two different candidates are drawn and the better one is returned.      *)
P2CSelect(ws, open) ==
  LET cands == eligibleWorkers(ws, open)
  IN  IF Cardinality(cands) <= 1 THEN cands
      ELSE {w \in cands : \E v \in cands \ {w} : scoreWorker(w) >= scoreWorker(v)}

(* epsilon-greedy, LinUCB and HEFT return the candidate their estimates    *)
(* favour, or a random one.  What they have learnt is not part of this     *)
(* state (see Learners), so it may be any of the candidates.               *)
LearningSelect(ws, open) == eligibleWorkers(ws, open)

(* newScheduler and SelectWith.  The server creates a CircuitManager but   *)
(* never runs a call through it, so no breaker exists and none is open.    *)
(* An unknown type falls back to the default.                              *)
Select(buildType, arch, clientOS) ==
  LET ws == Matching(buildType, arch, clientOS)
  IN  CASE SchedulerType = "simple" -> SimpleSelect(ws)
        [] SchedulerType = "p2c"    -> P2CSelect(ws, {})
        [] SchedulerType \in {"epsilon-greedy", "linucb", "heft"} ->
             LearningSelect(ws, {})
        [] OTHER                    -> LeastLoadedSelect(ws)

=============================================================================
