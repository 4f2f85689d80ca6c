------------------------- MODULE Coordinator_proofs -------------------------
(***************************************************************************)
(* The coordinator's bookkeeping, for any number of workers and calls,     *)
(* each of the schedulers and any set of disturbances, and the abstract    *)
(* service it implements.                                                  *)
(*                                                                         *)
(* BookingsExact is not inductive.  DecrementTasks does nothing for a      *)
(* worker that is not in the map, so the proof needs Placement: whoever    *)
(* holds a booking holds it on a registered worker.  The slots of a worker *)
(* stay disjoint only because a call is sent once, which is Unsent.        *)
(***************************************************************************)
EXTENDS Coordinator, FiniteSetTheorems, TLAPS

-----------------------------------------------------------------------------
(***************************************************************************)
(* What each registry method preserves and changes, for any number of      *)
(* workers: the facts the proofs about the coordinator cite instead of     *)
(* opening the registry's records.                                         *)
(***************************************************************************)

(* A registry is well formed when its entries have their types and a       *)
(* worker that is not in the map has no data.                              *)
RegistryOK ==
  /\ registry \in [Workers -> WorkerInfo]
  /\ \A w \in Workers : registry[w].state = "Absent" => registry[w] = NoWorkerInfo

(* The average DecrementTasks stores is a natural number again. *)
LEMMA MovingAverageType ==
  ASSUME NEW a \in Nat, NEW s \in Nat, NEW t \in Nat
  PROVE  MovingAverage(a, s, t) \in Nat
<1>1. CASE s = 0
  BY <1>1 DEF MovingAverage
<1>2. CASE s > 0
  <2>1. a * (s - 1) \in Nat
    BY <1>2
  <2>2. (a * (s - 1) + t) \div s \in Nat
    BY <1>2, <2>1
  <2>3. QED
    BY <1>2, <2>2 DEF MovingAverage
<1>3. QED
  BY <1>1, <1>2

(* What a heartbeat, a booking and a release do to one entry. *)
LEMMA RefreshedFacts ==
  ASSUME NEW i \in WorkerInfo, NEW m \in Nat
  PROVE  LET j == Refreshed(i, m) IN
         /\ j \in WorkerInfo
         /\ j.ActiveTasks = i.ActiveTasks
         /\ j.TotalTasks = i.TotalTasks
         /\ j.SuccessfulTasks = i.SuccessfulTasks
         /\ j.FailedTasks = i.FailedTasks
         /\ j.state = Revived(i.state)
<1> DEFINE f == [i EXCEPT !.MaxParallel = m]
           g == [f EXCEPT !.stale = FALSE]
           h == [g EXCEPT !.state = Revived(i.state)]
<1>1. f \in WorkerInfo
  BY DEF WorkerInfo
<1>2. g \in WorkerInfo
  BY <1>1 DEF WorkerInfo
<1>3. Revived(i.state) \in WorkerState \cup {"Absent"}
  BY DEF WorkerInfo, WorkerState, Revived
<1>4. h \in WorkerInfo
  BY <1>2, <1>3 DEF WorkerInfo
<1>5. Refreshed(i, m) = h
  BY DEF Refreshed, WorkerInfo
<1>6. QED
  BY <1>4, <1>5 DEF WorkerInfo

(* A booking adds one active and one total task; it never leaves Unhealthy. *)
LEMMA IncrementedFacts ==
  ASSUME NEW i \in WorkerInfo
  PROVE  LET j == Incremented(i) IN
         /\ j \in WorkerInfo
         /\ j.ActiveTasks = i.ActiveTasks + 1
         /\ j.TotalTasks = i.TotalTasks + 1
         /\ j.SuccessfulTasks = i.SuccessfulTasks
         /\ j.FailedTasks = i.FailedTasks
         /\ j.state = IF i.state = "Idle" THEN "Busy" ELSE i.state
<1> DEFINE s == IF i.state = "Idle" THEN "Busy" ELSE i.state
           f == [i EXCEPT !.ActiveTasks = i.ActiveTasks + 1]
           g == [f EXCEPT !.TotalTasks = i.TotalTasks + 1]
           h == [g EXCEPT !.state = s]
<1>1. f \in WorkerInfo
  BY DEF WorkerInfo
<1>2. g \in WorkerInfo
  <2> HIDE DEF f
  <2>1. i.TotalTasks + 1 \in Nat
    BY DEF WorkerInfo
  <2>2. QED
    BY <1>1, <2>1 DEF WorkerInfo
<1>3. s \in WorkerState \cup {"Absent"}
  BY DEF WorkerInfo, WorkerState
<1>4. h \in WorkerInfo
  BY <1>2, <1>3 DEF WorkerInfo
<1>5. Incremented(i) = h
  BY DEF Incremented, WorkerInfo
<1>6. QED
  BY <1>4, <1>5 DEF WorkerInfo

(* A release takes one active task off and adds it to the outcomes. *)
LEMMA DecrementedFacts ==
  ASSUME NEW i \in WorkerInfo, NEW success \in BOOLEAN, NEW t \in Nat,
         i.ActiveTasks > 0
  PROVE  LET j == Decremented(i, success, t) IN
         /\ j \in WorkerInfo
         /\ j.ActiveTasks = i.ActiveTasks - 1
         /\ j.TotalTasks = i.TotalTasks
         /\ j.SuccessfulTasks + j.FailedTasks = i.SuccessfulTasks + i.FailedTasks + 1
         /\ j.state = IF i.ActiveTasks = 1 /\ i.state = "Busy" THEN "Idle" ELSE i.state
<1> DEFINE succ == IF success THEN i.SuccessfulTasks + 1 ELSE i.SuccessfulTasks
           fail == IF success THEN i.FailedTasks ELSE i.FailedTasks + 1
           avg  == MovingAverage(i.AvgCompileTime, succ, t)
           s == IF i.ActiveTasks = 1 /\ i.state = "Busy" THEN "Idle" ELSE i.state
           f == [i EXCEPT !.ActiveTasks = i.ActiveTasks - 1]
           g == [f EXCEPT !.SuccessfulTasks = succ]
           h == [g EXCEPT !.FailedTasks = fail]
           k == [h EXCEPT !.AvgCompileTime = avg]
           l == [k EXCEPT !.state = s]
<1>1. succ \in Nat /\ fail \in Nat /\ i.AvgCompileTime \in Nat
      /\ succ + fail = i.SuccessfulTasks + i.FailedTasks + 1
  BY DEF WorkerInfo
<1>2. avg \in Nat
  BY <1>1, MovingAverageType
<1>3. s \in WorkerState \cup {"Absent"}
  BY DEF WorkerInfo, WorkerState
<1> HIDE DEF succ, fail, avg, s
<1>4. f \in WorkerInfo
  BY DEF WorkerInfo
<1>5. g \in WorkerInfo
  BY <1>1, <1>4 DEF WorkerInfo
<1>6. h \in WorkerInfo
  BY <1>1, <1>5 DEF WorkerInfo
<1>7. k \in WorkerInfo
  BY <1>2, <1>6 DEF WorkerInfo
<1>8. l \in WorkerInfo
  BY <1>3, <1>7 DEF WorkerInfo
<1>9. i.ActiveTasks \in Nat
  BY DEF WorkerInfo
<1>10. Decremented(i, success, t) =
         [i EXCEPT !.ActiveTasks = i.ActiveTasks - 1, !.SuccessfulTasks = succ,
                   !.FailedTasks = fail, !.AvgCompileTime = avg, !.state = s]
  <2>1. (IF i.ActiveTasks > 0 THEN i.ActiveTasks - 1 ELSE 0) = i.ActiveTasks - 1
    BY <1>9
  <2>2. (IF (IF i.ActiveTasks > 0 THEN i.ActiveTasks - 1 ELSE 0) = 0 /\ i.state = "Busy"
         THEN "Idle" ELSE i.state) = s
    BY <1>9 DEF s
  <2>3. QED
    BY <2>1, <2>2, Zenon DEF Decremented, succ, fail, avg
<1>11. Decremented(i, success, t) = l
  BY <1>10 DEF WorkerInfo
<1>12. QED
  BY <1>1, <1>8, <1>11 DEF WorkerInfo, s

-----------------------------------------------------------------------------
(* What a step leaves alone: the task counters of an entry. *)
SameTasks(i, j) ==
  /\ j.ActiveTasks = i.ActiveTasks
  /\ j.TotalTasks = i.TotalTasks
  /\ j.SuccessfulTasks = i.SuccessfulTasks
  /\ j.FailedTasks = i.FailedTasks

(* Add: a new worker starts idle with no tasks; a known one keeps its      *)
(* counters.  Only the state of that worker can change, never to Busy.     *)
LEMMA AddFacts ==
  ASSUME RegistryOK, NEW w \in Workers, NEW m \in Nat, Add(w, m)
  PROVE  /\ RegistryOK'
         /\ Registered(w)'
         /\ \A v \in Workers :
              /\ SameTasks(registry[v], registry'[v])
              /\ registry[v].state # "Absent" => registry'[v].state # "Absent"
              /\ registry'[v].state = "Busy" => registry[v].state = "Busy"
              /\ v # w => registry'[v] = registry[v]
<1>1. registry[w] \in WorkerInfo
  BY DEF RegistryOK
<1>2. CASE Registered(w)
  <2>1. registry' = [registry EXCEPT ![w] = Refreshed(registry[w], m)]
    BY <1>2, Zenon DEF Add
  <2>2. /\ Refreshed(registry[w], m) \in WorkerInfo
        /\ SameTasks(registry[w], Refreshed(registry[w], m))
        /\ Refreshed(registry[w], m).state = Revived(registry[w].state)
    BY <1>1, RefreshedFacts, Zenon DEF SameTasks
  <2>3. QED
    BY <1>2, <2>1, <2>2 DEF RegistryOK, Registered, SameTasks, Revived
<1>3. CASE ~Registered(w)
  <2>1. registry' = [registry EXCEPT ![w] = Fresh("Idle", m)]
    BY <1>3, Zenon DEF Add
  <2>2. registry[w] = Fresh("Absent", 0)
    BY <1>3 DEF RegistryOK, Registered, NoWorkerInfo
  <2>3. Fresh("Idle", m) \in WorkerInfo
    BY DEF Fresh, WorkerInfo, WorkerState
  <2>4. SameTasks(registry[w], Fresh("Idle", m)) /\ Fresh("Idle", m).state = "Idle"
    BY <2>2 DEF SameTasks, Fresh
  <2>5. QED
    BY <1>3, <2>1, <2>3, <2>4 DEF RegistryOK, Registered, SameTasks
<1>4. QED
  BY <1>2, <1>3

(* IncrementTasks on a registered worker. *)
LEMMA IncrementFacts ==
  ASSUME RegistryOK, NEW w \in Workers, Registered(w), IncrementTasks(w)
  PROVE  /\ RegistryOK'
         /\ registry' = [registry EXCEPT ![w] = Incremented(registry[w])]
         /\ registry'[w] = Incremented(registry[w])
         /\ \A v \in Workers : v # w => registry'[v] = registry[v]
         /\ \A v \in Workers :
              registry[v].state # "Absent" => registry'[v].state # "Absent"
<1>1. registry[w] \in WorkerInfo
  BY DEF RegistryOK
<1>2. registry' = [registry EXCEPT ![w] = Incremented(registry[w])]
  BY Zenon DEF IncrementTasks
<1>3. /\ Incremented(registry[w]) \in WorkerInfo
      /\ Incremented(registry[w]).state =
           IF registry[w].state = "Idle" THEN "Busy" ELSE registry[w].state
  BY <1>1, IncrementedFacts, Zenon
<1>4. QED
  BY <1>2, <1>3 DEF RegistryOK, Registered

(* DecrementTasks on a worker with a task. *)
LEMMA DecrementFacts ==
  ASSUME RegistryOK, NEW w \in Workers, Registered(w),
         registry[w].ActiveTasks > 0, NEW success \in BOOLEAN, NEW t \in Nat,
         DecrementTasks(w, success, t)
  PROVE  /\ RegistryOK'
         /\ registry'[w] = Decremented(registry[w], success, t)
         /\ \A v \in Workers : v # w => registry'[v] = registry[v]
         /\ \A v \in Workers :
              registry[v].state # "Absent" => registry'[v].state # "Absent"
<1>1. registry[w] \in WorkerInfo
  BY DEF RegistryOK
<1>2. registry' = [registry EXCEPT ![w] = Decremented(registry[w], success, t)]
  BY Zenon DEF DecrementTasks
<1>3. /\ Decremented(registry[w], success, t) \in WorkerInfo
      /\ Decremented(registry[w], success, t).state =
           IF registry[w].ActiveTasks = 1 /\ registry[w].state = "Busy"
           THEN "Idle" ELSE registry[w].state
  BY <1>1, DecrementedFacts, Zenon
<1>4. QED
  BY <1>2, <1>3 DEF RegistryOK, Registered

(* cleanupStaleWorkers only ever turns a state into Unhealthy. *)
LEMMA CleanupFacts ==
  ASSUME RegistryOK, cleanupStaleWorkers
  PROVE  /\ RegistryOK'
         /\ \A v \in Workers :
              /\ SameTasks(registry[v], registry'[v])
              /\ registry[v].state # "Absent" => registry'[v].state # "Absent"
              /\ \/ registry'[v].state = registry[v].state
                 \/ registry'[v].state = "Unhealthy"
<1> SUFFICES ASSUME NEW v \in Workers
             PROVE  /\ registry'[v] \in WorkerInfo
                    /\ registry'[v].state = "Absent" => registry'[v] = NoWorkerInfo
                    /\ SameTasks(registry[v], registry'[v])
                    /\ registry[v].state # "Absent" => registry'[v].state # "Absent"
                    /\ \/ registry'[v].state = registry[v].state
                       \/ registry'[v].state = "Unhealthy"
  BY DEF cleanupStaleWorkers, RegistryOK
<1>1. registry[v] \in WorkerInfo
  BY DEF RegistryOK
<1>2. CASE v \in StaleWorkers
  <2>1. registry'[v] = [registry[v] EXCEPT !.state = "Unhealthy"]
    BY <1>2 DEF cleanupStaleWorkers
  <2>2. QED
    BY <1>1, <2>1 DEF WorkerInfo, WorkerState, SameTasks
<1>3. CASE v \notin StaleWorkers
  BY <1>1, <1>3 DEF cleanupStaleWorkers, RegistryOK, SameTasks
<1>4. QED
  BY <1>2, <1>3

(* The passing of time changes neither states nor counters. *)
LEMMA ExpireFacts ==
  ASSUME RegistryOK, NEW w \in Workers, HeartbeatExpires(w)
  PROVE  /\ RegistryOK'
         /\ \A v \in Workers :
              /\ SameTasks(registry[v], registry'[v])
              /\ registry'[v].state = registry[v].state
<1> DEFINE e == [registry[w] EXCEPT !.stale = TRUE]
<1>1. registry[w] \in WorkerInfo /\ registry[w].state # "Absent"
  BY DEF RegistryOK, HeartbeatExpires, Registered
<1>2. registry' = [registry EXCEPT ![w] = e]
  BY <1>1 DEF HeartbeatExpires, RegistryOK
<1>3. e \in WorkerInfo /\ SameTasks(registry[w], e) /\ e.state = registry[w].state
  BY <1>1 DEF WorkerInfo, SameTasks
<1> HIDE DEF e
<1>4. QED
  BY <1>1, <1>2, <1>3 DEF RegistryOK, SameTasks

-----------------------------------------------------------------------------
(***************************************************************************)
(* The admission control of a worker, for any limit and any number of      *)
(* calls.  The inductive invariant is WorkerInv: the atomic counter is     *)
(* exactly the number of handlers that hold a slot, so comparing the       *)
(* counter with the limit is as good as counting the running tasks.        *)
(***************************************************************************)

(* A request is in one place of one worker at most once. *)
SlotsDisjoint ==
  \A w \in Workers : /\ inbox[w] \cap running[w] = {}
                     /\ inbox[w] \cap refusing[w] = {}
                     /\ running[w] \cap refusing[w] = {}

WorkerInv ==
  /\ WorkerTypeOK
  /\ SlotsDisjoint
  /\ ActiveTasksExact
  /\ AdmissionBound

(* Requests of a worker are finite sets. *)
LEMMA CallSetsFinite ==
  ASSUME NEW S \in SUBSET Calls
  PROVE  IsFiniteSet(S) /\ Cardinality(S) \in Nat
BY FS_Subset, FS_CardinalityType, GridAssumption

(* Taking a slot and giving it back changes the count by one. *)
LEMMA CountAdd ==
  ASSUME NEW S \in SUBSET Calls, NEW c \in Calls, c \notin S
  PROVE  Cardinality(S \cup {c}) = Cardinality(S) + 1
BY CallSetsFinite, FS_AddElement

(* A handler that leaves lowers the count by one. *)
LEMMA CountRemove ==
  ASSUME NEW S \in SUBSET Calls, NEW c \in S
  PROVE  /\ Cardinality(S \ {c}) = Cardinality(S) - 1
         /\ Cardinality(S) > 0
<1>1. IsFiniteSet(S) /\ IsFiniteSet(S \ {c})
  BY CallSetsFinite
<1>2. Cardinality(S \ {c}) = Cardinality(S) - 1
  BY <1>1, FS_RemoveElement
<1>3. Cardinality(S) \in Nat /\ Cardinality(S \ {c}) \in Nat
  BY CallSetsFinite
<1>4. QED
  BY <1>2, <1>3

(* A worker that was never started satisfies the invariant. *)
LEMMA WorkerInitInv == WorkerInit => WorkerInv
<1> SUFFICES ASSUME WorkerInit PROVE WorkerInv
  OBVIOUS
<1>1. WorkerTypeOK
  BY DEF WorkerInit, WorkerTypeOK, ProcState, Reply, NothingServed
<1>2. SlotsDisjoint
  BY DEF WorkerInit, SlotsDisjoint
<1>3. Cardinality({}) = 0
  BY FS_EmptySet
<1>4. ActiveTasksExact /\ AdmissionBound
  BY <1>3, MaxConcurrentAssumption
     DEF WorkerInit, ActiveTasksExact, AdmissionBound, NothingServed
<1>5. QED
  BY <1>1, <1>2, <1>4 DEF WorkerInv

-----------------------------------------------------------------------------
(* Admission of one worker; the other workers keep their slots. *)
SlotsExact(w) ==
  /\ activeTasks[w] = Cardinality(running[w]) + Cardinality(refusing[w])
  /\ served[w].total = served[w].success + served[w].failed
                         + Cardinality(running[w])
  /\ Cardinality(running[w]) <= MaxConcurrent[w]

(* The slot counter is exact at every worker. *)
LEMMA SlotsExactEverywhere ==
  (\A w \in Workers : SlotsExact(w)) <=> ActiveTasksExact /\ AdmissionBound
BY DEF SlotsExact, ActiveTasksExact, AdmissionBound

(* A step of one worker concerns no other worker. *)
LEMMA LocalStep ==
  ASSUME WorkerInv, NEW w \in Workers, SlotsExact(w)',
         \A v \in Workers \ {w} : /\ activeTasks'[v] = activeTasks[v]
                                  /\ running'[v] = running[v]
                                  /\ refusing'[v] = refusing[v]
                                  /\ served'[v] = served[v]
  PROVE  ActiveTasksExact' /\ AdmissionBound'
<1>1. \A v \in Workers : SlotsExact(v)
  BY SlotsExactEverywhere DEF WorkerInv
<1>2. ASSUME NEW v \in Workers PROVE SlotsExact(v)'
  <2>1. CASE v = w
    BY <2>1
  <2>2. CASE v # w
    BY <1>1, <2>2 DEF SlotsExact
  <2>3. QED
    BY <2>1, <2>2
<1>3. QED
  BY <1>2 DEF SlotsExact, ActiveTasksExact, AdmissionBound

(* One lemma per step of the server. *)

(* A Unity build is refused without taking a slot. *)
LEMMA RejectUnimplementedInv ==
  ASSUME WorkerInv, NEW w \in Workers, NEW c \in Calls, RejectUnimplemented(w, c)
  PROVE  WorkerInv'
<1> USE DEF WorkerInv, RejectUnimplemented
<1>1. WorkerTypeOK'
  BY DEF WorkerTypeOK, Reply
<1>2. SlotsDisjoint'
  BY DEF WorkerTypeOK, SlotsDisjoint
<1>3. ActiveTasksExact' /\ AdmissionBound'
  BY DEF ActiveTasksExact, AdmissionBound
<1>4. QED
  BY <1>1, <1>2, <1>3

(* Admission takes a slot, and runs the task only below the limit. *)
LEMMA AdmitInv ==
  ASSUME WorkerInv, NEW w \in Workers, NEW c \in Calls, Admit(w, c)
  PROVE  WorkerInv'
<1>1. /\ WorkerTypeOK /\ SlotsDisjoint /\ ActiveTasksExact /\ AdmissionBound
      /\ c \in inbox[w] /\ c \notin running[w] /\ c \notin refusing[w]
      /\ running[w] \in SUBSET Calls /\ refusing[w] \in SUBSET Calls
  BY DEF WorkerInv, Admit, WorkerTypeOK, SlotsDisjoint
<1>2. /\ Cardinality(running[w] \cup {c}) = Cardinality(running[w]) + 1
      /\ Cardinality(refusing[w] \cup {c}) = Cardinality(refusing[w]) + 1
      /\ Cardinality(running[w]) \in Nat /\ Cardinality(refusing[w]) \in Nat
  BY <1>1, CountAdd, CallSetsFinite
<1>3. CASE activeTasks[w] + 1 <= MaxConcurrent[w]
  <2>1. /\ running' = [running EXCEPT ![w] = running[w] \cup {c}]
        /\ served' = [served EXCEPT ![w].total = served[w].total + 1]
        /\ activeTasks' = [activeTasks EXCEPT ![w] = activeTasks[w] + 1]
        /\ inbox' = [inbox EXCEPT ![w] = inbox[w] \ {c}]
        /\ UNCHANGED <<proc, refusing, reply>>
    BY <1>1, <1>3, MaxConcurrentAssumption DEF Admit, WorkerTypeOK
  <2>2. WorkerTypeOK'
    BY <1>1, <2>1, SMTT(30) DEF WorkerTypeOK
  <2>3. SlotsDisjoint'
    BY <1>1, <2>1 DEF WorkerTypeOK, SlotsDisjoint
  <2>4. SlotsExact(w)'
    <3>1. /\ activeTasks'[w] = activeTasks[w] + 1
          /\ running'[w] = running[w] \cup {c}
          /\ refusing'[w] = refusing[w]
          /\ served'[w].total = served[w].total + 1
          /\ served'[w].success = served[w].success
          /\ served'[w].failed = served[w].failed
      BY <1>1, <2>1 DEF WorkerTypeOK
    <3>2. SlotsExact(w) /\ served[w] \in [total : Nat, success : Nat, failed : Nat]
      BY <1>1 DEF SlotsExact, ActiveTasksExact, AdmissionBound, WorkerTypeOK
    <3>3. activeTasks[w] \in Int /\ MaxConcurrent[w] \in Nat
      BY <1>1, MaxConcurrentAssumption DEF WorkerTypeOK
    <3>4. Cardinality(running'[w]) = Cardinality(running[w]) + 1
      BY <1>2, <3>1
    <3>5. QED
      BY <1>2, <1>3, <3>1, <3>2, <3>3, <3>4 DEF SlotsExact
  <2>5. ActiveTasksExact' /\ AdmissionBound'
    BY <1>1, <2>1, <2>4, LocalStep DEF WorkerTypeOK
  <2>6. QED
    BY <2>2, <2>3, <2>5 DEF WorkerInv
<1>4. CASE activeTasks[w] + 1 > MaxConcurrent[w]
  <2>1. /\ refusing' = [refusing EXCEPT ![w] = refusing[w] \cup {c}]
        /\ activeTasks' = [activeTasks EXCEPT ![w] = activeTasks[w] + 1]
        /\ inbox' = [inbox EXCEPT ![w] = inbox[w] \ {c}]
        /\ UNCHANGED <<proc, running, served, reply>>
    BY <1>1, <1>4, MaxConcurrentAssumption DEF Admit, WorkerTypeOK
  <2>2. WorkerTypeOK'
    BY <1>1, <2>1 DEF WorkerTypeOK
  <2>3. SlotsDisjoint'
    BY <1>1, <2>1 DEF WorkerTypeOK, SlotsDisjoint
  <2>4. SlotsExact(w)'
    <3>1. /\ activeTasks'[w] = activeTasks[w] + 1
          /\ refusing'[w] = refusing[w] \cup {c}
          /\ running'[w] = running[w] /\ served'[w] = served[w]
      BY <1>1, <2>1 DEF WorkerTypeOK
    <3>2. SlotsExact(w)
      BY <1>1 DEF SlotsExact, ActiveTasksExact, AdmissionBound
    <3>3. Cardinality(refusing'[w]) = Cardinality(refusing[w]) + 1
      BY <1>2, <3>1
    <3>4. QED
      BY <1>2, <3>1, <3>2, <3>3 DEF SlotsExact
  <2>5. ActiveTasksExact' /\ AdmissionBound'
    BY <1>1, <2>1, <2>4, LocalStep DEF WorkerTypeOK
  <2>6. QED
    BY <2>2, <2>3, <2>5 DEF WorkerInv
<1>5. QED
  BY <1>3, <1>4 DEF Admit

(* A refused request gives its slot back. *)
LEMMA RejectExhaustedInv ==
  ASSUME WorkerInv, NEW w \in Workers, NEW c \in Calls, RejectExhausted(w, c)
  PROVE  WorkerInv'
<1>1. /\ WorkerTypeOK /\ SlotsDisjoint /\ ActiveTasksExact /\ AdmissionBound
      /\ c \in refusing[w]
      /\ running[w] \in SUBSET Calls /\ refusing[w] \in SUBSET Calls
  BY DEF WorkerInv, RejectExhausted, WorkerTypeOK
<1>2. /\ Cardinality(refusing[w] \ {c}) = Cardinality(refusing[w]) - 1
      /\ Cardinality(running[w]) \in Nat /\ Cardinality(refusing[w]) \in Nat
  BY <1>1, CountRemove, CallSetsFinite
<1>3. WorkerTypeOK'
  BY <1>1 DEF RejectExhausted, WorkerTypeOK, Reply
<1>4. SlotsDisjoint'
  BY <1>1 DEF RejectExhausted, WorkerTypeOK, SlotsDisjoint
<1>5. SlotsExact(w)'
  <2>1. SlotsExact(w) /\ activeTasks'[w] = activeTasks[w] - 1
        /\ refusing'[w] = refusing[w] \ {c} /\ UNCHANGED <<running, served>>
    BY <1>1 DEF RejectExhausted, SlotsExact, ActiveTasksExact, AdmissionBound,
                WorkerTypeOK
  <2>2. QED
    BY <1>2, <2>1 DEF SlotsExact
<1>6. ActiveTasksExact' /\ AdmissionBound'
  BY <1>1, <1>5, LocalStep DEF RejectExhausted, WorkerTypeOK
<1>7. QED
  BY <1>3, <1>4, <1>6 DEF WorkerInv

(* A finished task gives its slot back and is counted once. *)
LEMMA FinishTaskInv ==
  ASSUME WorkerInv, NEW w \in Workers, NEW c \in Calls, NEW success \in BOOLEAN,
         FinishTask(w, c, success)
  PROVE  WorkerInv'
<1>1. /\ WorkerTypeOK /\ SlotsDisjoint /\ ActiveTasksExact /\ AdmissionBound
      /\ c \in running[w]
      /\ running[w] \in SUBSET Calls /\ refusing[w] \in SUBSET Calls
  BY DEF WorkerInv, FinishTask, WorkerTypeOK
<1>2. /\ Cardinality(running[w] \ {c}) = Cardinality(running[w]) - 1
      /\ Cardinality(running[w]) \in Nat /\ Cardinality(refusing[w]) \in Nat
  BY <1>1, CountRemove, CallSetsFinite
<1>3. WorkerTypeOK'
  <2>1. served' \in [Workers -> [total : Nat, success : Nat, failed : Nat]]
    BY <1>1 DEF FinishTask, WorkerTypeOK
  <2>2. QED
    BY <1>1, <2>1 DEF FinishTask, WorkerTypeOK, Reply
<1>4. SlotsDisjoint'
  BY <1>1 DEF FinishTask, WorkerTypeOK, SlotsDisjoint
<1>5. SlotsExact(w)'
  <2>1. /\ SlotsExact(w) /\ served[w] \in [total : Nat, success : Nat, failed : Nat]
        /\ activeTasks'[w] = activeTasks[w] - 1
        /\ running'[w] = running[w] \ {c} /\ UNCHANGED refusing
    BY <1>1 DEF FinishTask, SlotsExact, ActiveTasksExact, AdmissionBound, WorkerTypeOK
  <2>2. /\ served'[w].total = served[w].total
        /\ served'[w].success + served'[w].failed
             = served[w].success + served[w].failed + 1
    BY <1>1 DEF FinishTask, WorkerTypeOK
  <2>3. served'[w] \in [total : Nat, success : Nat, failed : Nat]
    BY <1>3 DEF WorkerTypeOK
  <2>4. QED
    BY <1>2, <2>1, <2>2, <2>3, MaxConcurrentAssumption DEF SlotsExact
<1>6. ActiveTasksExact' /\ AdmissionBound'
  BY <1>1, <1>5, LocalStep DEF FinishTask, WorkerTypeOK
<1>7. QED
  BY <1>3, <1>4, <1>6 DEF WorkerInv

(* Starting, draining and dying leave no slot behind. *)
LEMMA ProcessInv ==
  ASSUME WorkerInv, NEW w \in Workers,
         StartProcess(w) \/ Listen(w) \/ Drain(w) \/ Terminate(w)
  PROVE  WorkerInv'
<1>1. WorkerTypeOK /\ SlotsDisjoint /\ ActiveTasksExact /\ AdmissionBound
  BY DEF WorkerInv
<1>2. CASE StartProcess(w) \/ Listen(w)
  <2>1. WorkerTypeOK'
    BY <1>1, <1>2 DEF StartProcess, Listen, WorkerTypeOK, ProcState
  <2>2. SlotsDisjoint' /\ ActiveTasksExact' /\ AdmissionBound'
    BY <1>1, <1>2
       DEF StartProcess, Listen, SlotsDisjoint, ActiveTasksExact, AdmissionBound
  <2>3. QED
    BY <2>1, <2>2 DEF WorkerInv
<1>3. CASE Drain(w)
  <2>1. WorkerTypeOK'
    BY <1>1, <1>3 DEF Drain, WorkerTypeOK, ProcState, Reply
  <2>2. SlotsDisjoint'
    BY <1>1, <1>3 DEF Drain, WorkerTypeOK, SlotsDisjoint
  <2>3. ActiveTasksExact' /\ AdmissionBound'
    BY <1>1, <1>3 DEF Drain, ActiveTasksExact, AdmissionBound
  <2>4. QED
    BY <2>1, <2>2, <2>3 DEF WorkerInv
<1>4. CASE Terminate(w)
  <2>1. WorkerTypeOK'
    BY <1>1, <1>4 DEF Terminate, WorkerTypeOK, ProcState, Reply, NothingServed
  <2>2. SlotsDisjoint'
    BY <1>1, <1>4 DEF Terminate, WorkerTypeOK, SlotsDisjoint
  <2>3. Cardinality({}) = 0
    BY FS_EmptySet
  <2>4. SlotsExact(w)'
    <3>1. /\ activeTasks'[w] = 0 /\ running'[w] = {} /\ refusing'[w] = {}
          /\ served'[w] = NothingServed
      BY <1>1, <1>4 DEF Terminate, WorkerTypeOK
    <3>2. MaxConcurrent[w] \in Nat
      BY MaxConcurrentAssumption
    <3>3. QED
      BY <2>3, <3>1, <3>2 DEF SlotsExact, NothingServed
  <2>5. ActiveTasksExact' /\ AdmissionBound'
    BY <1>1, <1>4, <2>4, LocalStep DEF Terminate, WorkerTypeOK
  <2>6. QED
    BY <2>1, <2>2, <2>5 DEF WorkerInv
<1>5. QED
  BY <1>2, <1>3, <1>4

-----------------------------------------------------------------------------
(* The coordinator and its workers. *)

(* A handler past the selection has a worker, and it is in the registry.   *)
Placed == {"track", "count", "total", "gauge", "connect", "dial", "send", "wait",
           "release", "finish", "store", "retire", "ungauge"}
Placement ==
  \A c \in Calls : pc[c] \in Placed => assigned[c] \in Workers /\ Registered(assigned[c])

(* Before a handler has sent its request no worker has seen the call.      *)
Early == {"idle", "select", "track", "count", "total", "gauge", "connect", "dial", "send"}
Unsent ==
  \A c \in Calls :
    pc[c] \in Early
    => /\ reply[c] = "none"
       /\ \A w \in Workers : c \notin inbox[w] \cup running[w] \cup refusing[w]

IInv ==
  /\ TypeOK
  /\ RegistryOK
  /\ Placement
  /\ Unsent
  /\ WorkerInv
  /\ BookingsExact
  /\ WorkerLedger

-----------------------------------------------------------------------------
(* The server's counters: what each atomic addition does to the record.    *)

LEMMA ActiveMoves ==
  ASSUME NEW s \in Counters, NEW x \in {-1, 1}
  PROVE  LET t == [s EXCEPT !.activeTasks = s.activeTasks + x] IN
         /\ t \in Counters /\ t.activeTasks = s.activeTasks + x
         /\ t.queuedTasks = s.queuedTasks /\ t.totalTasks = s.totalTasks
         /\ t.successTasks = s.successTasks /\ t.failedTasks = s.failedTasks
BY DEF Counters

(* queuedTasks up or down by one, *)
LEMMA QueuedMoves ==
  ASSUME NEW s \in Counters, NEW x \in {-1, 1}
  PROVE  LET t == [s EXCEPT !.queuedTasks = s.queuedTasks + x] IN
         /\ t \in Counters /\ t.queuedTasks = s.queuedTasks + x
         /\ t.activeTasks = s.activeTasks /\ t.totalTasks = s.totalTasks
         /\ t.successTasks = s.successTasks /\ t.failedTasks = s.failedTasks
BY DEF Counters

(* one more task begun, *)
LEMMA TotalMoves ==
  ASSUME NEW s \in Counters
  PROVE  LET t == [s EXCEPT !.totalTasks = s.totalTasks + 1] IN
         /\ t \in Counters /\ t.totalTasks = s.totalTasks + 1
         /\ t.activeTasks = s.activeTasks /\ t.queuedTasks = s.queuedTasks
         /\ t.successTasks = s.successTasks /\ t.failedTasks = s.failedTasks
BY DEF Counters

(* one more task ended, well or badly. *)
LEMMA OutcomeMoves ==
  ASSUME NEW s \in Counters,
         NEW t \in {[s EXCEPT !.successTasks = s.successTasks + 1],
                    [s EXCEPT !.failedTasks = s.failedTasks + 1]}
  PROVE  /\ t \in Counters
         /\ t.successTasks + t.failedTasks = s.successTasks + s.failedTasks + 1
         /\ t.activeTasks = s.activeTasks /\ t.queuedTasks = s.queuedTasks
         /\ t.totalTasks = s.totalTasks
BY DEF Counters

-----------------------------------------------------------------------------
(* Selection: every scheduler returns workers that are registered.         *)
LEMMA CandidatesRegistered ==
  ASSUME NEW c \in Calls, NEW w \in Candidates(c)
  PROVE  w \in Workers /\ Registered(w)
<1>1. CASE IsBuild(c)
  BY <1>1 DEF Candidates, IsHealthy, Registered
<1>2. CASE ~IsBuild(c)
  <2> DEFINE ws == Matching("compile", Request[c].arch, Request[c].os)
  <2>1. w \in Select("compile", Request[c].arch, Request[c].os)
    BY <1>2 DEF Candidates
  <2>2. ws \subseteq {v \in Workers : IsHealthy(v)}
    BY DEF Matching, filterByOS, ListByCapability
  <2>3. w \in ws
    <3> HIDE DEF ws
    <3>1. SimpleSelect(ws) \subseteq ws
      BY DEF SimpleSelect
    <3>2. LeastLoadedSelect(ws) \subseteq ws
      BY DEF LeastLoadedSelect
    <3>3. eligibleWorkers(ws, {}) \subseteq ws
      BY DEF eligibleWorkers
    <3>4. P2CSelect(ws, {}) \subseteq ws /\ LearningSelect(ws, {}) \subseteq ws
      BY <3>3 DEF P2CSelect, LearningSelect
    <3>6. Select("compile", Request[c].arch, Request[c].os) \subseteq ws
      BY <3>1, <3>2, <3>4 DEF Select, ws
    <3>7. QED
      BY <2>1, <3>6
  <2>4. QED
    BY <2>2, <2>3 DEF IsHealthy, Registered
<1>3. QED
  BY <1>1, <1>2

-----------------------------------------------------------------------------
(* A step of one handler that touches neither the registry nor a worker,   *)
(* and neither takes nor gives back a booking.                             *)
LEMMA HandlerQuiet ==
  ASSUME IInv, NEW c \in Calls, TypeOK', UNCHANGED <<registry, workerVars>>,
         \A d \in Calls \ {c} : pc'[d] = pc[d] /\ assigned'[d] = assigned[d],
         HoldsBooking(c)' <=> HoldsBooking(c),
         HoldsBooking(c) => assigned'[c] = assigned[c],
         pc'[c] \in Placed => assigned'[c] \in Workers /\ Registered(assigned'[c]),
         pc'[c] \in Early => pc[c] \in Early
  PROVE  IInv'
<1>1. RegistryOK' /\ WorkerInv' /\ WorkerLedger'
  BY DEF IInv, RegistryOK, WorkerInv, WorkerLedger, workerVars, WorkerTypeOK,
         SlotsDisjoint, ActiveTasksExact, AdmissionBound
<1>2. Placement'
  BY DEF IInv, Placement, Registered
<1>3. Unsent'
  BY DEF IInv, Unsent, workerVars
<1>4. \A w \in Workers : Booked(w)' = Booked(w)
  BY DEF Booked, HoldsBooking, DialsBooked
<1>5. BookingsExact'
  BY <1>4 DEF IInv, BookingsExact
<1>6. QED
  BY <1>1, <1>2, <1>3, <1>5 DEF IInv

(* A step that only adds to a counter. *)
LEMMA TallyInv ==
  ASSUME IInv, NEW c \in Calls, NEW from \in PC, NEW to \in PC,
         NEW counts \in Counters, Tally(c, from, counts, to),
         {from, to} \cap {"connect", "dial"} = {},
         to \in Placed => from \in Placed, to \in Early => from \in Early,
         to \in {"count", "total", "gauge", "send", "wait", "release"}
           <=> from \in {"count", "total", "gauge", "send", "wait", "release"}
  PROVE  IInv'
<1>1. /\ TypeOK /\ pc \in [Calls -> PC] /\ Placement
      /\ pc[c] = from /\ pc' = [pc EXCEPT ![c] = to] /\ stats' = counts
      /\ UNCHANGED <<registry, workerVars, assigned, result, ctxDone, pool,
                     byWorker, buildCache>>
  BY DEF IInv, TypeOK, Tally, Goto
<1>2. TypeOK'
  BY <1>1 DEF TypeOK, WorkerTypeOK, workerVars
<1>3. to \in Placed => assigned'[c] \in Workers /\ Registered(assigned'[c])
  BY <1>1 DEF Placement
<1>4. HoldsBooking(c)' <=> HoldsBooking(c)
  BY <1>1 DEF HoldsBooking, DialsBooked
<1>5. QED
  BY <1>1, <1>2, <1>3, <1>4, HandlerQuiet

(* Entering a handler, and the counters on its way: no booking changes. *)
LEMMA CountingInv ==
  ASSUME IInv, NEW c \in Calls,
         \/ CompileEnter(c) \/ BuildCacheMiss(c) \/ NoWorkerFailed(c)
         \/ CountActive(c) \/ CountTotal(c) \/ CountOutcome(c) \/ Retire(c)
  PROVE  IInv'
<1>1. stats \in Counters /\ stats.activeTasks \in Int
  BY DEF IInv, TypeOK, Counters
<1>2. CASE CompileEnter(c) \/ BuildCacheMiss(c)
  <2> DEFINE t == [stats EXCEPT !.queuedTasks = stats.queuedTasks + 1]
  <2>1. t \in Counters
    BY <1>1, QueuedMoves
  <2>2. Tally(c, "idle", t, "select")
    BY <1>2, Zenon DEF CompileEnter, BuildCacheMiss
  <2> HIDE DEF t
  <2>3. QED
    BY <2>1, <2>2, TallyInv DEF PC, InFlight, Placed, Early
<1>3. CASE NoWorkerFailed(c)
  <2> DEFINE t == [stats EXCEPT !.failedTasks = stats.failedTasks + 1]
  <2>1. t \in Counters
    BY <1>1, OutcomeMoves
  <2>2. Tally(c, "nofail", t, "leave")
    BY <1>3, Zenon DEF NoWorkerFailed
  <2> HIDE DEF t
  <2>3. QED
    BY <2>1, <2>2, TallyInv DEF PC, InFlight, Placed, Early
<1>4. CASE CountActive(c)
  <2> DEFINE t == [stats EXCEPT !.activeTasks = stats.activeTasks + 1]
  <2>1. t \in Counters
    BY <1>1, ActiveMoves
  <2>2. Tally(c, "count", t, "total")
    BY <1>4, Zenon DEF CountActive
  <2> HIDE DEF t
  <2>3. QED
    BY <2>1, <2>2, TallyInv DEF PC, InFlight, Placed, Early
<1>5. CASE CountTotal(c)
  <2> DEFINE t == [stats EXCEPT !.totalTasks = stats.totalTasks + 1]
  <2>1. t \in Counters
    BY <1>1, TotalMoves
  <2>2. Tally(c, "total", t, "gauge")
    BY <1>5, Zenon DEF CountTotal
  <2> HIDE DEF t
  <2>3. QED
    BY <2>1, <2>2, TallyInv DEF PC, InFlight, Placed, Early
<1>6. CASE CountOutcome(c)
  <2> DEFINE t == IF result[c] = "ok"
                  THEN [stats EXCEPT !.successTasks = stats.successTasks + 1]
                  ELSE [stats EXCEPT !.failedTasks = stats.failedTasks + 1]
             to == IF IsBuild(c) THEN "store" ELSE "retire"
  <2>1. t \in Counters
    BY <1>1, OutcomeMoves
  <2>2. Tally(c, "finish", t, to)
    BY <1>6, Zenon DEF CountOutcome
  <2>3. to \in {"store", "retire"}
    OBVIOUS
  <2> HIDE DEF t, to
  <2>4. QED
    BY <2>1, <2>2, <2>3, TallyInv DEF PC, InFlight, Placed, Early
<1>7. CASE Retire(c)
  <2> DEFINE t == [stats EXCEPT !.activeTasks = stats.activeTasks - 1]
  <2>1. t = [stats EXCEPT !.activeTasks = stats.activeTasks + (-1)]
    BY <1>1
  <2>2. t \in Counters
    BY <1>1, <2>1, ActiveMoves
  <2>3. Tally(c, "retire", t, "ungauge")
    BY <1>7, Zenon DEF Retire
  <2> HIDE DEF t
  <2>4. QED
    BY <2>2, <2>3, TallyInv DEF PC, InFlight, Placed, Early
<1>8. QED
  BY <1>2, <1>3, <1>4, <1>5, <1>6, <1>7

(* A build is answered from the cache, or finds no worker: nothing is      *)
(* booked.                                                                 *)
LEMMA NoBookingInv ==
  ASSUME IInv, NEW c \in Calls, BuildCacheHit(c) \/ NoWorkerAvailable(c)
  PROVE  IInv'
<1>1. /\ TypeOK /\ pc \in [Calls -> PC] /\ stats \in Counters
      /\ result \in [Calls -> Result] /\ pc[c] \in {"idle", "select"}
      /\ UNCHANGED <<registry, workerVars, assigned, ctxDone, pool, byWorker, buildCache>>
  BY DEF IInv, TypeOK, BuildCacheHit, NoWorkerAvailable
<1>2. stats' \in Counters
  BY <1>1, TotalMoves DEF BuildCacheHit, NoWorkerAvailable
<1>3. PICK q \in {"hit", "nofail", "leave"}, r \in {"cached", "noworker"} :
        pc' = [pc EXCEPT ![c] = q] /\ result' = [result EXCEPT ![c] = r]
  BY DEF BuildCacheHit, NoWorkerAvailable, Goto
<1>4. pc' \in [Calls -> PC] /\ result' \in [Calls -> Result]
  BY <1>1, <1>3 DEF PC, InFlight, Result
<1>5. TypeOK'
  BY <1>1, <1>2, <1>4 DEF TypeOK, WorkerTypeOK, workerVars
<1>6. QED
  BY <1>1, <1>3, <1>5, HandlerQuiet DEF HoldsBooking, DialsBooked, Placed, Early

(* The handler returns: its booking was released before. *)
LEMMA ReturnInv ==
  ASSUME IInv, NEW c \in Calls, HitSuccess(c) \/ Leave(c)
  PROVE  IInv'
<1>1. /\ TypeOK /\ pc \in [Calls -> PC] /\ stats \in Counters
      /\ assigned \in [Calls -> Workers \cup {"none"}]
      /\ ctxDone \in [Calls -> BOOLEAN] /\ pc[c] \in {"hit", "leave"}
      /\ UNCHANGED <<registry, workerVars, result, pool, byWorker, buildCache>>
  BY DEF IInv, TypeOK, HitSuccess, Leave
<1>2. /\ pc' = [pc EXCEPT ![c] = "done"]
      /\ assigned' = [assigned EXCEPT ![c] = "none"]
      /\ ctxDone' = [ctxDone EXCEPT ![c] = FALSE]
  BY DEF HitSuccess, Leave, Return, Goto
<1>3. stats' \in Counters
  <2>1. CASE HitSuccess(c)
    BY <1>1, <2>1, OutcomeMoves DEF HitSuccess
  <2>2. CASE Leave(c)
    <3>1. stats.queuedTasks - 1 = stats.queuedTasks + (-1)
      BY <1>1 DEF Counters
    <3>2. stats' = [stats EXCEPT !.queuedTasks = stats.queuedTasks + (-1)]
      BY <2>2, <3>1 DEF Leave
    <3>3. QED
      BY <1>1, <3>2, QueuedMoves
  <2>3. QED
    BY <2>1, <2>2
<1>4. TypeOK'
  BY <1>1, <1>2, <1>3 DEF TypeOK, WorkerTypeOK, workerVars, PC
<1>5. QED
  BY <1>1, <1>2, <1>4, HandlerQuiet DEF HoldsBooking, DialsBooked, Placed, Early

(* A worker is chosen: it is registered, and not booked yet. *)
LEMMA SelectWorkerInv ==
  ASSUME IInv, NEW c \in Calls, SelectWorker(c)
  PROVE  IInv'
<1>1. PICK w \in Candidates(c) : assigned' = [assigned EXCEPT ![c] = w]
  BY DEF SelectWorker
<1>2. w \in Workers /\ Registered(w)
  BY <1>1, CandidatesRegistered
<1>3. /\ TypeOK /\ pc \in [Calls -> PC]
      /\ assigned \in [Calls -> Workers \cup {"none"}]
  BY DEF IInv, TypeOK
<1>4. /\ pc[c] = "select"
      /\ pc' = [pc EXCEPT ![c] = IF IsBuild(c) THEN "connect" ELSE "track"]
      /\ UNCHANGED <<registry, workerVars, result, ctxDone, pool, stats,
                     byWorker, buildCache>>
  BY DEF SelectWorker, Goto
<1>5. TypeOK'
  BY <1>1, <1>2, <1>3, <1>4 DEF TypeOK, WorkerTypeOK, workerVars, PC, InFlight
<1>6. QED
  BY <1>1, <1>2, <1>3, <1>4, <1>5, HandlerQuiet
     DEF HoldsBooking, DialsBooked, Registered, Placed, Early

(* The per-worker gauge, and the artifact cache, change at a handler that  *)
(* has its worker and keeps its booking, or has given it back already.     *)
LEMMA GaugeInv ==
  ASSUME IInv, NEW c \in Calls, CountByWorker(c) \/ Ungauge(c) \/ StoreArtifacts(c)
  PROVE  IInv'
<1>1. /\ TypeOK /\ pc \in [Calls -> PC] /\ byWorker \in [Workers -> Int]
      /\ buildCache \subseteq {CacheKey(d) : d \in Calls}
      /\ pc[c] \in {"gauge", "ungauge", "store"}
      /\ assigned[c] \in Workers /\ Registered(assigned[c])
      /\ UNCHANGED <<registry, workerVars, assigned, result, ctxDone, pool, stats>>
  BY DEF IInv, TypeOK, Placement, Placed, CountByWorker, Ungauge, StoreArtifacts
<1>2. PICK q \in {"send", "connect", "leave", "retire"} :
        /\ pc' = [pc EXCEPT ![c] = q]
        /\ pc[c] = "gauge" => q = IF IsBuild(c) THEN "send" ELSE "connect"
        /\ pc[c] # "gauge" => q \in {"leave", "retire"}
  BY <1>1 DEF CountByWorker, Ungauge, StoreArtifacts, Goto
<1>3. byWorker' \in [Workers -> Int]
  BY <1>1 DEF CountByWorker, Ungauge, StoreArtifacts
<1>4. buildCache' \subseteq {CacheKey(d) : d \in Calls}
  BY <1>1 DEF CountByWorker, Ungauge, StoreArtifacts
<1>5. TypeOK'
  BY <1>1, <1>2, <1>3, <1>4 DEF TypeOK, WorkerTypeOK, workerVars, PC, InFlight
<1>6. HoldsBooking(c)' <=> HoldsBooking(c)
  BY <1>1, <1>2 DEF HoldsBooking, DialsBooked, IsBuild
<1>7. QED
  BY <1>1, <1>2, <1>5, <1>6, HandlerQuiet DEF Registered, Placed, Early

(* A connection is found, or dialled, or cannot be had: a build has no     *)
(* booking yet, a compile call keeps its own.                              *)
LEMMA ConnectInv ==
  ASSUME IInv, NEW c \in Calls, Connect(c) \/ Dial(c) \/ DialFails(c)
  PROVE  IInv'
<1>1. /\ TypeOK /\ pc \in [Calls -> PC] /\ pool \subseteq Workers
      /\ result \in [Calls -> Result] /\ pc[c] \in {"connect", "dial"}
      /\ assigned[c] \in Workers /\ Registered(assigned[c])
      /\ UNCHANGED <<registry, workerVars, assigned, ctxDone, stats, byWorker, buildCache>>
  BY DEF IInv, TypeOK, Placement, Placed, Connect, Dial, DialFails
<1>2. PICK q \in {"dial", "track", "send", "leave", "release"} :
        /\ pc' = [pc EXCEPT ![c] = q]
        /\ q \in {"track", "leave"} => IsBuild(c)
        /\ q \in {"send", "release"} => ~IsBuild(c)
  BY DEF Connect, Dial, DialFails, Goto
<1>3. pool' \subseteq Workers /\ result' \in [Calls -> Result]
  BY <1>1 DEF Connect, Dial, DialFails, Result
<1>4. TypeOK'
  BY <1>1, <1>2, <1>3 DEF TypeOK, WorkerTypeOK, workerVars, PC, InFlight
<1>5. HoldsBooking(c)' <=> HoldsBooking(c)
  BY <1>1, <1>2 DEF HoldsBooking, DialsBooked, IsBuild
<1>6. QED
  BY <1>1, <1>2, <1>4, <1>5, HandlerQuiet DEF Registered, Placed, Early

(* The three ways the call to the worker ends. *)
LEMMA CallEndsInv ==
  ASSUME IInv, NEW c \in Calls, ReceiveReply(c) \/ CallFails(c) \/ ConnectionLost(c)
  PROVE  IInv'
<1>1. /\ TypeOK /\ pc \in [Calls -> PC] /\ pc[c] \in {"send", "wait"}
      /\ result \in [Calls -> Result] /\ reply \in [Calls -> Reply]
      /\ assigned[c] \in Workers /\ Registered(assigned[c])
  BY DEF IInv, TypeOK, WorkerTypeOK, Placement, Placed, ReceiveReply, CallFails,
         ConnectionLost
<1>2. /\ pc' = [pc EXCEPT ![c] = "release"]
      /\ UNCHANGED <<registry, workerVars, assigned, ctxDone, pool, stats,
                     byWorker, buildCache>>
  BY DEF ReceiveReply, CallFails, ConnectionLost, Goto
<1>3. result' \in [Calls -> Result]
  BY <1>1 DEF ReceiveReply, CallFails, ConnectionLost, Result, Reply
<1>4. TypeOK'
  BY <1>1, <1>2, <1>3 DEF TypeOK, WorkerTypeOK, workerVars, PC, InFlight
<1>5. QED
  BY <1>1, <1>2, <1>4, HandlerQuiet
     DEF HoldsBooking, DialsBooked, Registered, Placed, Early

(* The client goes away: the handler has not noticed yet. *)
LEMMA ClientGivesUpInv ==
  ASSUME IInv, NEW c \in Calls, ClientGivesUp(c)
  PROVE  IInv'
<1>1. TypeOK /\ ctxDone \in [Calls -> BOOLEAN]
  BY DEF IInv, TypeOK
<1>2. /\ ctxDone' = [ctxDone EXCEPT ![c] = TRUE]
      /\ UNCHANGED <<registry, workerVars, pc, assigned, result, pool, stats,
                     byWorker, buildCache>>
  BY DEF ClientGivesUp
<1>3. TypeOK'
  BY <1>1, <1>2 DEF TypeOK, WorkerTypeOK, workerVars
<1>4. QED
  BY <1>2, <1>3, HandlerQuiet
     DEF HoldsBooking, DialsBooked, Registered, IInv, Placement

-----------------------------------------------------------------------------
(* Bookings as sets of calls: booking and releasing change one by one call *)
(* and leave the others alone.                                             *)

(* IncrementTasks: one more booking and one more handler holding it. *)
LEMMA TrackInRegistryInv ==
  ASSUME IInv, NEW c \in Calls, TrackInRegistry(c)
  PROVE  IInv'
<1>1. PICK w \in Workers :
        /\ w = assigned[c] /\ Registered(w)
        /\ TypeOK /\ RegistryOK /\ BookingsExact /\ WorkerLedger
        /\ pc \in [Calls -> PC] /\ pc[c] = "track"
  BY DEF IInv, TypeOK, Placement, Placed, TrackInRegistry
<1>2. /\ IncrementTasks(w) /\ pc' = [pc EXCEPT ![c] = "count"]
      /\ UNCHANGED <<workerVars, assigned, result, ctxDone, pool, stats,
                     byWorker, buildCache>>
  BY <1>1 DEF TrackInRegistry, Goto
<1>3. /\ RegistryOK' /\ registry'[w] = Incremented(registry[w])
      /\ \A v \in Workers : v # w => registry'[v] = registry[v]
      /\ \A v \in Workers : Registered(v) => Registered(v)'
  BY <1>1, <1>2, IncrementFacts DEF Registered
<1>4. /\ registry[w] \in WorkerInfo /\ registry'[w] \in WorkerInfo
      /\ registry'[w].ActiveTasks = registry[w].ActiveTasks + 1
      /\ registry'[w].TotalTasks = registry[w].TotalTasks + 1
      /\ registry'[w].SuccessfulTasks = registry[w].SuccessfulTasks
      /\ registry'[w].FailedTasks = registry[w].FailedTasks
  BY <1>1, <1>3, IncrementedFacts DEF RegistryOK
<1>5. TypeOK'
  BY <1>1, <1>2, <1>3 DEF TypeOK, WorkerTypeOK, workerVars, PC, InFlight, RegistryOK
<1>6. Placement'
  BY <1>1, <1>2, <1>3 DEF IInv, Placement, Placed, Registered
<1>7. Unsent' /\ WorkerInv'
  BY <1>1, <1>2
     DEF IInv, Unsent, Early, workerVars, WorkerInv, WorkerTypeOK, SlotsDisjoint,
         ActiveTasksExact, AdmissionBound
<1>8. BookingsExact'
  <2>1. Booked(w)' = Booked(w) \cup {c} /\ c \notin Booked(w)
    BY <1>1, <1>2 DEF Booked, HoldsBooking, DialsBooked
  <2>2. \A v \in Workers : v # w => Booked(v)' = Booked(v)
    BY <1>1, <1>2 DEF Booked, HoldsBooking, DialsBooked
  <2>3. Booked(w) \in SUBSET Calls
    BY DEF Booked
  <2>4. Cardinality(Booked(w) \cup {c}) = Cardinality(Booked(w)) + 1
    BY <2>1, <2>3, CountAdd
  <2>5. Cardinality(Booked(w)') = registry'[w].ActiveTasks
    BY <1>1, <1>4, <2>1, <2>4 DEF BookingsExact
  <2>6. QED
    BY <1>1, <1>3, <2>2, <2>5 DEF BookingsExact
<1>9. WorkerLedger'
  <2>1. ASSUME NEW v \in Workers
        PROVE  /\ registry'[v].state = "Busy" => registry'[v].ActiveTasks > 0
               /\ registry'[v].TotalTasks = registry'[v].SuccessfulTasks
                    + registry'[v].FailedTasks + registry'[v].ActiveTasks
    <3>1. CASE v = w
      BY <1>1, <1>4, <3>1 DEF WorkerLedger, WorkerInfo
    <3>2. CASE v # w
      BY <1>1, <1>3, <3>2 DEF WorkerLedger
    <3>3. QED
      BY <3>1, <3>2
  <2>2. QED
    BY <2>1 DEF WorkerLedger
<1>10. QED
  BY <1>3, <1>5, <1>6, <1>7, <1>8, <1>9 DEF IInv

(* DecrementTasks: one booking less and one handler less holding it. *)
LEMMA ReleaseInv ==
  ASSUME IInv, NEW c \in Calls, Release(c)
  PROVE  IInv'
<1>1. PICK w \in Workers :
        /\ w = assigned[c] /\ Registered(w)
        /\ TypeOK /\ RegistryOK /\ BookingsExact /\ WorkerLedger
        /\ pc \in [Calls -> PC] /\ pc[c] = "release"
  BY DEF IInv, TypeOK, Placement, Placed, Release
<1>2. PICK t \in ReportedTimes(c) : DecrementTasks(w, result[c] = "ok", t)
  BY <1>1 DEF Release
<1>3. t \in Nat
  BY TimesAssumption DEF ReportedTimes
<1>4. /\ pc' = [pc EXCEPT ![c] = "finish"]
      /\ UNCHANGED <<workerVars, assigned, result, ctxDone, pool, stats,
                     byWorker, buildCache>>
  BY DEF Release, Goto
<1>5. /\ Booked(w) \in SUBSET Calls /\ c \in Booked(w)
      /\ Booked(w)' = Booked(w) \ {c}
  BY <1>1, <1>4 DEF Booked, HoldsBooking, DialsBooked
<1>6. /\ Cardinality(Booked(w)') = Cardinality(Booked(w)) - 1
      /\ registry[w].ActiveTasks = Cardinality(Booked(w))
      /\ registry[w].ActiveTasks > 0
  BY <1>1, <1>5, CountRemove DEF BookingsExact
<1>7. /\ RegistryOK'
      /\ registry'[w] = Decremented(registry[w], result[c] = "ok", t)
      /\ \A v \in Workers : v # w => registry'[v] = registry[v]
      /\ \A v \in Workers : Registered(v) => Registered(v)'
  BY <1>1, <1>2, <1>3, <1>6, DecrementFacts DEF Registered
<1>8. /\ registry[w] \in WorkerInfo /\ registry'[w] \in WorkerInfo
      /\ registry'[w].ActiveTasks = registry[w].ActiveTasks - 1
      /\ registry'[w].TotalTasks = registry[w].TotalTasks
      /\ registry'[w].SuccessfulTasks + registry'[w].FailedTasks
           = registry[w].SuccessfulTasks + registry[w].FailedTasks + 1
      /\ registry'[w].state = "Busy" => registry[w].ActiveTasks # 1
  <2>1. registry[w] \in WorkerInfo /\ registry'[w] \in WorkerInfo
    BY <1>1, <1>7 DEF RegistryOK
  <2>2. (result[c] = "ok") \in BOOLEAN
    OBVIOUS
  <2>3. /\ registry'[w].ActiveTasks = registry[w].ActiveTasks - 1
        /\ registry'[w].TotalTasks = registry[w].TotalTasks
        /\ registry'[w].SuccessfulTasks + registry'[w].FailedTasks
             = registry[w].SuccessfulTasks + registry[w].FailedTasks + 1
        /\ registry'[w].state =
             IF registry[w].ActiveTasks = 1 /\ registry[w].state = "Busy"
             THEN "Idle" ELSE registry[w].state
    <3> DEFINE ok == result[c] = "ok"
    <3>1. ok \in BOOLEAN /\ registry'[w] = Decremented(registry[w], ok, t)
      BY <1>7, <2>2
    <3> HIDE DEF ok
    <3>2. QED
      BY <1>3, <1>6, <2>1, <3>1, DecrementedFacts
  <2>4. QED
    BY <2>1, <2>3
<1>9. TypeOK'
  BY <1>1, <1>4, <1>7 DEF TypeOK, WorkerTypeOK, workerVars, PC, InFlight, RegistryOK
<1>10. Placement'
  BY <1>1, <1>4, <1>7 DEF IInv, Placement, Placed, Registered
<1>11. Unsent' /\ WorkerInv'
  BY <1>1, <1>4
     DEF IInv, Unsent, Early, workerVars, WorkerInv, WorkerTypeOK, SlotsDisjoint,
         ActiveTasksExact, AdmissionBound
<1>12. BookingsExact'
  <2>1. \A v \in Workers : v # w => Booked(v)' = Booked(v)
    BY <1>1, <1>4 DEF Booked, HoldsBooking, DialsBooked
  <2>2. QED
    BY <1>1, <1>6, <1>7, <1>8, <2>1 DEF BookingsExact
<1>13. WorkerLedger'
  <2>1. ASSUME NEW v \in Workers
        PROVE  /\ registry'[v].state = "Busy" => registry'[v].ActiveTasks > 0
               /\ registry'[v].TotalTasks = registry'[v].SuccessfulTasks
                    + registry'[v].FailedTasks + registry'[v].ActiveTasks
    <3>1. CASE v = w
      BY <1>1, <1>6, <1>8, <3>1 DEF WorkerLedger, WorkerInfo
    <3>2. CASE v # w
      BY <1>1, <1>7, <3>2 DEF WorkerLedger
    <3>3. QED
      BY <3>1, <3>2
  <2>2. QED
    BY <2>1 DEF WorkerLedger
<1>14. QED
  BY <1>7, <1>9, <1>10, <1>11, <1>12, <1>13 DEF IInv

-----------------------------------------------------------------------------
(* Steps that keep the handlers where they are.                            *)
LEMMA RegistryStepInv ==
  ASSUME IInv, UNCHANGED coordVars, RegistryOK', WorkerInv', UNCHANGED <<inbox, running, refusing, reply>>,
         \A v \in Workers : /\ SameTasks(registry[v], registry'[v])
                            /\ Registered(v) => Registered(v)'
                            /\ registry'[v].state = "Busy" => registry[v].state = "Busy"
  PROVE  IInv'
<1>1. TypeOK'
  BY DEF IInv, TypeOK, coordVars, RegistryOK, WorkerInv
<1>2. Placement'
  BY DEF IInv, TypeOK, Placement, coordVars, Registered
<1>3. Unsent'
  BY DEF IInv, Unsent, coordVars
<1>4. \A w \in Workers : Booked(w)' = Booked(w)
  BY DEF Booked, HoldsBooking, DialsBooked, coordVars
<1>5. BookingsExact'
  BY <1>4 DEF IInv, BookingsExact, SameTasks
<1>6. WorkerLedger'
  BY DEF IInv, WorkerLedger, SameTasks
<1>7. QED
  BY <1>1, <1>2, <1>3, <1>5, <1>6 DEF IInv

(* Registering and heartbeats keep the task counters. *)
LEMMA HandshakeInv ==
  ASSUME IInv, NEW w \in Workers, WorkerRegisters(w) \/ Heartbeat(w)
  PROVE  IInv'
<1>1. RegistryOK /\ MaxConcurrent[w] \in Nat /\ Add(w, MaxConcurrent[w])
  BY MaxConcurrentAssumption DEF IInv, WorkerRegisters, Heartbeat, Handshake
<1>2. WorkerInv'
  <2>1. CASE WorkerRegisters(w)
    BY <2>1, ProcessInv DEF IInv, WorkerRegisters
  <2>2. CASE Heartbeat(w)
    BY <2>2 DEF IInv, Heartbeat, workerVars, WorkerInv, WorkerTypeOK,
                SlotsDisjoint, ActiveTasksExact, AdmissionBound
  <2>3. QED
    BY <2>1, <2>2
<1>3. UNCHANGED coordVars /\ UNCHANGED <<inbox, running, refusing, reply>>
  BY DEF WorkerRegisters, Heartbeat, StartProcess, workerVars
<1>4. /\ RegistryOK'
      /\ \A v \in Workers : /\ SameTasks(registry[v], registry'[v])
                            /\ Registered(v) => Registered(v)'
                            /\ registry'[v].state = "Busy" => registry[v].state = "Busy"
  BY <1>1, AddFacts DEF Registered
<1>5. QED
  BY <1>2, <1>3, <1>4, RegistryStepInv

(* Expiry and cleanup keep the task counters. *)
LEMMA TimePassesInv ==
  ASSUME IInv, Cleanup \/ \E w \in Workers : HeartbeatLost(w)
  PROVE  IInv'
<1>1. RegistryOK /\ UNCHANGED <<workerVars, coordVars>>
  BY DEF IInv, Cleanup, HeartbeatLost
<1>2. WorkerInv' /\ UNCHANGED <<inbox, running, refusing, reply>>
  BY <1>1 DEF IInv, workerVars, WorkerInv, WorkerTypeOK, SlotsDisjoint,
              ActiveTasksExact, AdmissionBound
<1>3. /\ RegistryOK'
      /\ \A v \in Workers : /\ SameTasks(registry[v], registry'[v])
                            /\ Registered(v) => Registered(v)'
                            /\ registry'[v].state = "Busy" => registry[v].state = "Busy"
  BY <1>1, CleanupFacts, ExpireFacts DEF Registered, Cleanup, HeartbeatLost
<1>4. QED
  BY <1>1, <1>2, <1>3, RegistryStepInv

-----------------------------------------------------------------------------
(* Steps of the workers, and the one step that gives a worker a call.      *)

AtWorker(w, c) == c \in inbox[w] \/ c \in running[w] \/ c \in refusing[w]

(* A worker moves, answers and loses only the calls it has.                *)
LEMMA WorkerMovesOwnCalls ==
  ASSUME IInv, UNCHANGED <<registry, coordVars>>, WorkerInv',
         \A w \in Workers, c \in Calls : AtWorker(w, c)' => AtWorker(w, c),
         \A c \in Calls : reply'[c] # reply[c] => \E w \in Workers : AtWorker(w, c)
  PROVE  IInv'
<1>1. TypeOK'
  BY DEF IInv, TypeOK, coordVars, WorkerInv
<1>2. RegistryOK' /\ Placement' /\ WorkerLedger'
  BY DEF IInv, RegistryOK, Placement, Registered, WorkerLedger, coordVars
<1>3. Unsent'
  BY DEF IInv, Unsent, coordVars, AtWorker
<1>4. \A w \in Workers : Booked(w)' = Booked(w)
  BY DEF Booked, HoldsBooking, DialsBooked, coordVars
<1>5. BookingsExact'
  BY <1>4 DEF IInv, BookingsExact
<1>6. QED
  BY <1>1, <1>2, <1>3, <1>5 DEF IInv

(* What a worker does keeps the bookings of the coordinator. *)
LEMMA WorkerStepInv ==
  ASSUME IInv, NEW w \in Workers, WorkerStep(w) \/ WorkerStops(w)
  PROVE  IInv'
<1>1. WorkerInv /\ WorkerTypeOK /\ UNCHANGED <<registry, coordVars>>
  BY DEF IInv, WorkerInv, WorkerStep, WorkerStops
<1> USE DEF AtWorker
<1>2. CASE Listen(w)
  <2>1. WorkerInv'
    BY <1>1, <1>2, ProcessInv
  <2>2. QED
    BY <1>1, <1>2, <2>1, WorkerMovesOwnCalls DEF Listen
<1>3. CASE Drain(w)
  <2>1. WorkerInv'
    BY <1>1, <1>3, ProcessInv
  <2>2. /\ \A v \in Workers, c \in Calls : AtWorker(v, c)' => AtWorker(v, c)
        /\ \A c \in Calls : reply'[c] # reply[c] => AtWorker(w, c)
    BY <1>1, <1>3 DEF Drain, WorkerTypeOK
  <2>3. QED
    BY <1>1, <2>1, <2>2, WorkerMovesOwnCalls
<1>4. CASE Terminate(w)
  <2>1. WorkerInv'
    BY <1>1, <1>4, ProcessInv
  <2>2. /\ \A v \in Workers, c \in Calls : AtWorker(v, c)' => AtWorker(v, c)
        /\ \A c \in Calls : reply'[c] # reply[c] => AtWorker(w, c)
    BY <1>1, <1>4 DEF Terminate, WorkerTypeOK
  <2>3. QED
    BY <1>1, <2>1, <2>2, WorkerMovesOwnCalls
<1>5. ASSUME NEW c \in Calls,
             RejectUnimplemented(w, c) \/ Admit(w, c) \/ RejectExhausted(w, c)
             \/ \E success \in BOOLEAN : FinishTask(w, c, success)
      PROVE  IInv'
  <2>1. WorkerInv'
    BY <1>1, <1>5, RejectUnimplementedInv, AdmitInv, RejectExhaustedInv, FinishTaskInv
  <2>2. AtWorker(w, c)
    BY <1>5 DEF RejectUnimplemented, Admit, RejectExhausted, FinishTask
  <2>3. \A v \in Workers, d \in Calls : AtWorker(v, d)' => AtWorker(v, d)
    <3>1. CASE RejectUnimplemented(w, c)
      BY <1>1, <3>1 DEF RejectUnimplemented, WorkerTypeOK
    <3>2. CASE Admit(w, c)
      BY <1>1, <3>2 DEF Admit, WorkerTypeOK
    <3>3. CASE RejectExhausted(w, c)
      BY <1>1, <3>3 DEF RejectExhausted, WorkerTypeOK
    <3>4. CASE \E success \in BOOLEAN : FinishTask(w, c, success)
      BY <1>1, <3>4 DEF FinishTask, WorkerTypeOK
    <3>5. QED
      BY <1>5, <3>1, <3>2, <3>3, <3>4
  <2>4. \A d \in Calls : reply'[d] # reply[d] => d = c
    BY <1>1, <1>5
       DEF RejectUnimplemented, Admit, RejectExhausted, FinishTask, WorkerTypeOK
  <2>5. QED
    BY <1>1, <2>1, <2>2, <2>3, <2>4, WorkerMovesOwnCalls
<1>6. QED
  BY <1>2, <1>3, <1>4, <1>5 DEF WorkerStep, WorkerStops

(* A request is on the wire to the one worker its handler chose. *)
LEMMA SendInv ==
  ASSUME IInv, NEW c \in Calls, Send(c)
  PROVE  IInv'
<1>1. PICK w \in Workers :
        /\ w = assigned[c] /\ Registered(w)
        /\ TypeOK /\ WorkerTypeOK /\ pc \in [Calls -> PC] /\ pc[c] = "send"
        /\ ~AtWorker(w, c)
  BY DEF IInv, TypeOK, Placement, Placed, Unsent, Early, Send, AtWorker
<1>2. /\ inbox' = [inbox EXCEPT ![w] = inbox[w] \cup {c}]
      /\ pc' = [pc EXCEPT ![c] = "wait"]
      /\ UNCHANGED <<registry, proc, activeTasks, running, refusing, served, reply,
                     assigned, result, ctxDone, pool, stats, byWorker, buildCache>>
  BY <1>1 DEF Send, Goto
<1>3. WorkerTypeOK'
  BY <1>1, <1>2 DEF WorkerTypeOK
<1>4. WorkerInv'
  <2>1. SlotsDisjoint'
    BY <1>1, <1>2 DEF IInv, WorkerInv, WorkerTypeOK, SlotsDisjoint, AtWorker
  <2>2. ActiveTasksExact' /\ AdmissionBound'
    BY <1>2 DEF IInv, WorkerInv, ActiveTasksExact, AdmissionBound
  <2>3. QED
    BY <1>3, <2>1, <2>2 DEF WorkerInv
<1>5. TypeOK'
  BY <1>1, <1>2, <1>3 DEF TypeOK, PC, InFlight
<1>6. RegistryOK' /\ Placement' /\ WorkerLedger'
  BY <1>1, <1>2 DEF IInv, RegistryOK, Placement, Placed, Registered, WorkerLedger
<1>7. Unsent'
  BY <1>1, <1>2 DEF IInv, Unsent, Early, WorkerTypeOK
<1>8. \A v \in Workers : Booked(v)' = Booked(v)
  BY <1>1, <1>2 DEF Booked, HoldsBooking, DialsBooked
<1>9. BookingsExact'
  BY <1>2, <1>8 DEF IInv, BookingsExact
<1>10. QED
  BY <1>4, <1>5, <1>6, <1>7, <1>9 DEF IInv

(* A restart forgets the bookings together with their holders. *)
LEMMA RestartInv ==
  ASSUME IInv, CoordinatorRestarts
  PROVE  IInv'
<1>1. /\ TypeOK /\ WorkerTypeOK /\ pc \in [Calls -> PC] /\ result \in [Calls -> Result]
      /\ UNCHANGED workerVars
  BY DEF IInv, TypeOK, CoordinatorRestarts
<1>2. NoWorkerInfo \in WorkerInfo
  BY DEF NoWorkerInfo, Fresh, WorkerInfo
<1>3. RegistryOK' /\ registry' \in [Workers -> WorkerInfo]
  BY <1>2 DEF CoordinatorRestarts, RegistryOK
<1>4. NoCounts \in Counters
  BY DEF NoCounts, Counters
<1>5. WorkerInv' /\ WorkerTypeOK'
  BY <1>1 DEF IInv, workerVars, WorkerInv, WorkerTypeOK, SlotsDisjoint,
              ActiveTasksExact, AdmissionBound
<1>6. TypeOK'
  BY <1>1, <1>3, <1>4, <1>5 DEF CoordinatorRestarts, TypeOK, PC, Result
<1>7. \A c \in Calls : pc'[c] \in {"idle", "done", "aborted"} /\ (pc'[c] = "idle" => pc[c] = "idle")
  BY <1>1 DEF CoordinatorRestarts, PC, InFlight
<1>8. Placement'
  BY <1>7 DEF Placement, Placed
<1>9. Unsent'
  BY <1>1, <1>7 DEF IInv, Unsent, Early, workerVars
<1>10. BookingsExact'
  <2>1. \A w \in Workers : Booked(w)' = {}
    BY <1>7 DEF Booked, HoldsBooking, DialsBooked
  <2>2. \A w \in Workers : registry'[w].ActiveTasks = 0
    BY DEF CoordinatorRestarts, NoWorkerInfo, Fresh
  <2>3. QED
    BY <2>1, <2>2, FS_EmptySet DEF BookingsExact
<1>11. WorkerLedger'
  BY DEF CoordinatorRestarts, NoWorkerInfo, Fresh, WorkerLedger
<1>12. QED
  BY <1>3, <1>5, <1>6, <1>8, <1>9, <1>10, <1>11 DEF IInv

-----------------------------------------------------------------------------
(* The invariant holds of every behaviour. *)
LEMMA InitInv == Init => IInv
<1> SUFFICES ASSUME Init PROVE IInv
  OBVIOUS
<1>1. WorkerInv
  BY WorkerInitInv DEF Init
<1>2. NoWorkerInfo \in WorkerInfo /\ NoCounts \in Counters
  BY DEF NoWorkerInfo, Fresh, WorkerInfo, NoCounts, Counters
<1>3. RegistryOK
  BY <1>2 DEF Init, RegistryInit, RegistryOK
<1>4. TypeOK
  BY <1>1, <1>2, <1>3 DEF Init, TypeOK, RegistryOK, WorkerInv, PC, Result
<1>5. Placement /\ Unsent
  BY DEF Init, WorkerInit, Placement, Placed, Unsent
<1>6. BookingsExact
  <2>1. \A w \in Workers : Booked(w) = {}
    BY DEF Init, Booked, HoldsBooking, DialsBooked
  <2>2. \A w \in Workers : registry[w].ActiveTasks = 0
    BY DEF Init, RegistryInit, NoWorkerInfo, Fresh
  <2>3. QED
    BY <2>1, <2>2, FS_EmptySet DEF BookingsExact
<1>7. WorkerLedger
  BY DEF Init, RegistryInit, NoWorkerInfo, Fresh, WorkerLedger
<1>8. QED
  BY <1>1, <1>3, <1>4, <1>5, <1>6, <1>7 DEF IInv

(* A stuttering step changes nothing. *)
LEMMA StutterInv ==
  ASSUME IInv, UNCHANGED vars
  PROVE  IInv'
<1>1. UNCHANGED <<registry, workerVars, coordVars>>
  BY DEF vars
<1>2. WorkerInv'
  BY <1>1 DEF IInv, workerVars, WorkerInv, WorkerTypeOK, SlotsDisjoint,
              ActiveTasksExact, AdmissionBound
<1>3. QED
  BY <1>1, <1>2, WorkerMovesOwnCalls DEF workerVars, AtWorker

(* The inductive invariant holds of every behaviour: bookings, worker slots
   and lifetime counters are exact in every reachable state. *)
THEOREM Invariance == Spec => []IInv
<1>1. IInv /\ [Next]_vars => IInv'
  <2> SUFFICES ASSUME IInv, [Next]_vars PROVE IInv'
    OBVIOUS
  <2>1. ASSUME NEW c \in Calls, Enter(c) PROVE IInv'
    BY <2>1, CountingInv, NoBookingInv DEF Enter
  <2>2. ASSUME NEW c \in Calls, HandlerStep(c) PROVE IInv'
    BY <2>2, SelectWorkerInv, NoBookingInv, TrackInRegistryInv, CountingInv, GaugeInv,
       ConnectInv, SendInv, CallEndsInv, ReleaseInv, ReturnInv
       DEF HandlerStep
  <2>3. ASSUME NEW c \in Calls, ConnectionLost(c) \/ ClientGivesUp(c) PROVE IInv'
    BY <2>3, CallEndsInv, ClientGivesUpInv
  <2>4. ASSUME NEW w \in Workers, WorkerRegisters(w) \/ Heartbeat(w) PROVE IInv'
    BY <2>4, HandshakeInv
  <2>5. ASSUME NEW w \in Workers, WorkerStep(w) \/ WorkerStops(w) PROVE IInv'
    BY <2>5, WorkerStepInv
  <2>6. ASSUME Cleanup \/ \E w \in Workers : HeartbeatLost(w) PROVE IInv'
    BY <2>6, TimePassesInv
  <2>7. CASE CoordinatorRestarts
    BY <2>7, RestartInv
  <2>8. CASE UNCHANGED vars
    BY <2>8, StutterInv
  <2>9. QED
    BY <2>1, <2>2, <2>3, <2>4, <2>5, <2>6, <2>7, <2>8 DEF Next
<1>2. QED
  BY <1>1, InitInv, PTL DEF Spec

(* Every variable of the coordinator and its workers keeps its type.       *)
THEOREM TypeCorrect == Spec => []TypeOK
<1>1. IInv => TypeOK
  BY DEF IInv
<1>2. QED
  BY <1>1, Invariance, PTL

(* The load the schedulers compare is the number of handlers that hold a   *)
(* booking, for every interleaving of handlers, heartbeats, crashes and    *)
(* restarts.                                                               *)
THEOREM BookingsAreExact == Spec => []BookingsExact
<1>1. IInv => BookingsExact
  BY DEF IInv
<1>2. QED
  BY <1>1, Invariance, PTL

(* The lifetime counters of a worker add up, and Busy means busy.          *)
THEOREM LedgerBalances == Spec => []WorkerLedger
<1>1. IInv => WorkerLedger
  BY DEF IInv
<1>2. QED
  BY <1>1, Invariance, PTL

(* No interleaving of requests takes a worker above --max-parallel.        *)
THEOREM AdmissionIsBounded == Spec => []AdmissionBound
<1>1. IInv => AdmissionBound
  BY DEF IInv, WorkerInv
<1>2. QED
  BY <1>1, Invariance, PTL

(* A worker's slot counter is exactly the requests it holds: no path out   *)
(* of a handler, a refusal or a crash leaks a slot.                        *)
THEOREM SlotsAreExact == Spec => []ActiveTasksExact
<1>1. IInv => ActiveTasksExact
  BY DEF IInv, WorkerInv
<1>2. QED
  BY <1>1, Invariance, PTL

-----------------------------------------------------------------------------
(* A step that revives a worker is a handshake of a living process.        *)

Revives(w) ==
  registry[w].state = "Unhealthy" /\ registry'[w].state \in {"Idle", "Busy"}

(* IncrementTasks leaves an unhealthy worker unhealthy. *)
LEMMA BookingDoesNotRevive ==
  ASSUME IInv, NEW c \in Calls, TrackInRegistry(c), NEW v \in Workers
  PROVE  ~Revives(v)
<1>1. PICK w \in Workers : w = assigned[c] /\ Registered(w) /\ RegistryOK
                           /\ IncrementTasks(w)
  BY DEF IInv, Placement, Placed, TrackInRegistry
<1>2. registry[w] \in WorkerInfo
  BY <1>1 DEF RegistryOK
<1>3. registry'[w].state = IF registry[w].state = "Idle" THEN "Busy" ELSE registry[w].state
  BY <1>1, <1>2, IncrementFacts, IncrementedFacts
<1>4. v # w => registry'[v] = registry[v]
  BY <1>1, IncrementFacts
<1>5. QED
  BY <1>3, <1>4 DEF Revives

(* DecrementTasks leaves an unhealthy worker unhealthy. *)
LEMMA ReleaseDoesNotRevive ==
  ASSUME IInv, NEW c \in Calls, Release(c), NEW v \in Workers
  PROVE  ~Revives(v)
<1> DEFINE ok == result[c] = "ok"
<1>1. PICK w \in Workers : w = assigned[c] /\ Registered(w) /\ RegistryOK
                           /\ BookingsExact /\ pc[c] = "release"
  BY DEF IInv, Placement, Placed, Release
<1>2. PICK t \in ReportedTimes(c) : DecrementTasks(w, ok, t)
  BY <1>1 DEF Release
<1>3. t \in Nat /\ ok \in BOOLEAN
  BY TimesAssumption DEF ReportedTimes
<1>4. registry[w] \in WorkerInfo /\ registry[w].ActiveTasks > 0
  <2>1. c \in Booked(w) /\ Booked(w) \in SUBSET Calls
    BY <1>1 DEF Booked, HoldsBooking, DialsBooked
  <2>2. QED
    BY <1>1, <2>1, CountRemove DEF BookingsExact, RegistryOK
<1> HIDE DEF ok
<1>5. registry'[w].state =
        IF registry[w].ActiveTasks = 1 /\ registry[w].state = "Busy"
        THEN "Idle" ELSE registry[w].state
  BY <1>1, <1>2, <1>3, <1>4, DecrementFacts, DecrementedFacts
<1>6. v # w => registry'[v] = registry[v]
  BY <1>1, <1>2, <1>3, <1>4, DecrementFacts
<1>7. QED
  BY <1>5, <1>6 DEF Revives

(* Neither a booking made on an old snapshot nor the release of an old     *)
(* task brings an unhealthy worker back: only its own handshake does.      *)
THEOREM OnlyHandshakeRevivesHolds == Spec => OnlyHandshakeRevives
<1> DEFINE Alive(w) == proc[w] \in {"starting", "up"} \/ proc'[w] = "starting"
<1>1. ASSUME IInv, [Next]_vars, NEW v \in Workers, Revives(v) PROVE Alive(v)
  <2>1. CASE UNCHANGED registry
    BY <1>1, <2>1 DEF Revives
  <2>2. ASSUME NEW c \in Calls, TrackInRegistry(c) \/ Release(c) PROVE FALSE
    BY <1>1, <2>2, BookingDoesNotRevive, ReleaseDoesNotRevive
  <2>3. ASSUME NEW w \in Workers, WorkerRegisters(w) \/ Heartbeat(w) PROVE Alive(v)
    <3>1. MaxConcurrent[w] \in Nat /\ RegistryOK /\ Add(w, MaxConcurrent[w])
      BY <1>1, <2>3, MaxConcurrentAssumption
         DEF IInv, WorkerRegisters, Heartbeat, Handshake
    <3>2. v = w
      BY <1>1, <3>1, AddFacts DEF Revives
    <3>3. proc \in [Workers -> ProcState]
      BY <1>1 DEF IInv, WorkerInv, WorkerTypeOK
    <3>4. QED
      BY <2>3, <3>2, <3>3 DEF WorkerRegisters, StartProcess, Heartbeat
  <2>4. CASE Cleanup \/ \E w \in Workers : HeartbeatLost(w)
    <3>1. RegistryOK
      BY <1>1 DEF IInv
    <3>2. QED
      BY <1>1, <2>4, <3>1, CleanupFacts, ExpireFacts DEF Revives, Cleanup, HeartbeatLost
  <2>5. CASE CoordinatorRestarts
    BY <1>1, <2>5 DEF Revives, CoordinatorRestarts, NoWorkerInfo, Fresh
  <2>6. QED
    BY <1>1, <2>1, <2>2, <2>3, <2>4, <2>5
       DEF Next, Enter, CompileEnter, BuildCacheHit, BuildCacheMiss, HandlerStep, Tally,
           HitSuccess, SelectWorker, NoWorkerAvailable, NoWorkerFailed, CountActive,
           CountTotal, CountByWorker, Connect, Dial, DialFails, Send, ReceiveReply,
           CallFails, CountOutcome, StoreArtifacts, Retire, Ungauge, Leave,
           ConnectionLost, ClientGivesUp, WorkerStep, WorkerStops, vars
<1>2. IInv /\ [Next]_vars =>
        [\A w \in Workers :
           /\ registry[w].state = "Unhealthy"
           /\ registry'[w].state \in {"Idle", "Busy"}
           => proc[w] \in {"starting", "up"} \/ proc'[w] = "starting"]_vars
  BY <1>1 DEF Revives
<1>3. QED
  BY <1>2, Invariance, PTL DEF Spec, OnlyHandshakeRevives


-----------------------------------------------------------------------------
(***************************************************************************)
(* The coordinator implements CompileService, for any number of workers    *)
(* and calls, each scheduler and any disturbances: every step is a step of *)
(* the service or changes nothing its clients could see.                   *)
(*                                                                         *)
(* Beside IInv the proof needs that a call is at one worker at most and at *)
(* none once it has a reply (so that it runs once), and that what a        *)
(* handler holds as its result is what the worker replied.                 *)
(***************************************************************************)

OnePlace ==
  \A c \in Calls : \A v, w \in Workers : AtWorker(v, c) /\ AtWorker(w, c) => v = w

Settled ==
  \A c \in Calls : reply[c] # "none" => \A w \in Workers : ~AtWorker(w, c)

(* What a handler knows at each place, and what that says of the worker.   *)
ResultKnown(c) ==
  /\ pc[c] \in Early \cup {"wait", "aborted"} => result[c] = "none"
  /\ pc[c] = "hit" => result[c] = "cached" /\ IsBuild(c)
  /\ pc[c] = "nofail" => result[c] = "noworker"
  /\ pc[c] \in {"release", "finish", "store", "retire", "ungauge"} =>
       result[c] \in {"ok", "fail", "error"}
  /\ pc[c] = "leave" => result[c] \in {"ok", "fail", "error", "noworker", "unreachable"}
  /\ pc[c] = "done" => result[c] # "none"
  /\ result[c] \in {"ok", "fail"} => reply[c] = result[c]
  /\ result[c] \in {"noworker", "unreachable", "cached"} =>
       reply[c] = "none" /\ \A w \in Workers : ~AtWorker(w, c)

AnswerInv ==
  /\ OnePlace
  /\ Settled
  /\ \A c \in Calls : ResultKnown(c)
  /\ CacheSound

-----------------------------------------------------------------------------
(* AnswerInv is inductive relative to IInv. *)

(* A step of one handler: nothing but the facts about its own call and the *)
(* entry it adds to the cache is to be shown.                              *)
LEMMA OneHandler ==
  ASSUME AnswerInv, NEW c \in Calls, UNCHANGED workerVars,
         \A d \in Calls \ {c} : pc'[d] = pc[d] /\ result'[d] = result[d],
         ResultKnown(c)',
         result'[c] = "cached" => result[c] = "cached" \/ CacheKey(c) \in buildCache,
         \/ buildCache' = buildCache
         \/ buildCache' = buildCache \cup {CacheKey(c)} /\ reply[c] = "ok"
  PROVE  AnswerInv'
<1>1. OnePlace' /\ Settled'
  BY DEF AnswerInv, OnePlace, Settled, AtWorker, workerVars
<1>2. \A d \in Calls : ResultKnown(d)'
  BY DEF AnswerInv, ResultKnown, AtWorker, workerVars
<1>3. reply' = reply
  BY DEF workerVars
<1>4. \A k \in buildCache' : \E d \in Calls : CacheKey(d) = k /\ reply'[d] = "ok"
  BY <1>3 DEF AnswerInv, CacheSound
<1>5. ASSUME NEW d \in Calls, result'[d] = "cached"
      PROVE  \E e \in Calls \ {d} : CacheKey(e) = CacheKey(d) /\ reply'[e] = "ok"
  <2>1. PICK e \in Calls : CacheKey(e) = CacheKey(d) /\ reply[e] = "ok"
    BY <1>5 DEF AnswerInv, CacheSound
  <2>2. reply'[d] = "none"
    BY <1>2, <1>5 DEF ResultKnown
  <2>3. QED
    BY <1>3, <2>1, <2>2
<1>6. CacheSound'
  BY <1>4, <1>5 DEF CacheSound
<1>7. QED
  BY <1>1, <1>2, <1>6 DEF AnswerInv

(* The steps of a handler that do not touch its result. *)
LEMMA PassingAnswers ==
  ASSUME IInv, AnswerInv, NEW c \in Calls,
         \/ CompileEnter(c) \/ BuildCacheMiss(c) \/ HitSuccess(c) \/ SelectWorker(c)
         \/ NoWorkerFailed(c) \/ TrackInRegistry(c) \/ CountActive(c) \/ CountTotal(c)
         \/ CountByWorker(c) \/ Connect(c) \/ Dial(c) \/ Release(c) \/ CountOutcome(c)
         \/ StoreArtifacts(c) \/ Retire(c) \/ Ungauge(c) \/ Leave(c)
  PROVE  AnswerInv'
<1>1. pc \in [Calls -> PC] /\ ResultKnown(c)
  BY DEF IInv, TypeOK, AnswerInv
<1>2. UNCHANGED <<workerVars, result>>
  BY DEF CompileEnter, BuildCacheMiss, HitSuccess, SelectWorker, NoWorkerFailed,
         TrackInRegistry, CountActive, CountTotal, CountByWorker, Connect, Dial, Release,
         CountOutcome, StoreArtifacts, Retire, Ungauge, Leave, Tally
<1>3. PICK q \in PC :
        /\ pc' = [pc EXCEPT ![c] = q]
        /\ \/ pc[c] \in Early /\ q \in Early
           \/ pc[c] = "hit" /\ q = "done"
           \/ pc[c] = "nofail" /\ q = "leave"
           \/ pc[c] = "leave" /\ q = "done"
           \/ /\ pc[c] \in {"release", "finish", "store", "retire", "ungauge"}
              /\ q \in {"finish", "store", "retire", "ungauge", "leave"}
  <2>1. CASE \/ CompileEnter(c) \/ BuildCacheMiss(c) \/ SelectWorker(c)
             \/ TrackInRegistry(c) \/ CountActive(c) \/ CountTotal(c)
             \/ CountByWorker(c) \/ Connect(c) \/ Dial(c)
    BY <2>1 DEF CompileEnter, BuildCacheMiss, SelectWorker, TrackInRegistry, CountActive,
                CountTotal, CountByWorker, Connect, Dial, Tally, Goto, PC, InFlight, Early
  <2>2. CASE HitSuccess(c) \/ NoWorkerFailed(c) \/ Leave(c)
    BY <2>2 DEF HitSuccess, NoWorkerFailed, Leave, Tally, Return, Goto, PC, InFlight
  <2>3. CASE Release(c) \/ CountOutcome(c) \/ StoreArtifacts(c) \/ Retire(c) \/ Ungauge(c)
    BY <2>3 DEF Release, CountOutcome, StoreArtifacts, Retire, Ungauge, Tally, Goto, PC,
                InFlight
  <2>4. QED
    BY <2>1, <2>2, <2>3
<1>4. ResultKnown(c)'
  BY <1>1, <1>2, <1>3 DEF ResultKnown, AtWorker, workerVars, Early
<1>5. \/ buildCache' = buildCache
      \/ buildCache' = buildCache \cup {CacheKey(c)} /\ reply[c] = "ok"
  <2>1. CASE StoreArtifacts(c)
    BY <1>1, <2>1 DEF StoreArtifacts, ResultKnown
  <2>2. CASE ~StoreArtifacts(c)
    BY <2>2 DEF CompileEnter, BuildCacheMiss, HitSuccess, SelectWorker, NoWorkerFailed,
         TrackInRegistry, CountActive, CountTotal, CountByWorker, Connect, Dial, Release,
         CountOutcome, Retire, Ungauge, Leave, Tally
  <2>3. QED
    BY <2>1, <2>2
<1>6. QED
  BY <1>1, <1>2, <1>3, <1>4, <1>5, OneHandler

(* The steps that give a handler its result. *)
LEMMA LearningAnswers ==
  ASSUME IInv, AnswerInv, NEW c \in Calls,
         BuildCacheHit(c) \/ NoWorkerAvailable(c) \/ DialFails(c)
         \/ ReceiveReply(c) \/ CallFails(c) \/ ConnectionLost(c)
  PROVE  AnswerInv'
<1>1. /\ pc \in [Calls -> PC] /\ result \in [Calls -> Result] /\ ResultKnown(c)
      /\ WorkerTypeOK /\ Unsent
  BY DEF IInv, TypeOK, AnswerInv
<1>2. UNCHANGED <<workerVars, buildCache>>
  BY DEF BuildCacheHit, NoWorkerAvailable, DialFails, ReceiveReply, CallFails,
         ConnectionLost
<1>3. PICK q \in {"hit", "nofail", "leave", "release"}, r \in Result :
        /\ pc' = [pc EXCEPT ![c] = q] /\ result' = [result EXCEPT ![c] = r]
        /\ q = "release" => r \in {"ok", "fail", "error"}
        /\ q # "release" => pc[c] \in {"idle", "select", "dial"}
        /\ q = "hit" => r = "cached" /\ IsBuild(c)
        /\ q = "nofail" => r = "noworker"
        /\ q = "leave" => r \in {"noworker", "unreachable"}
        /\ r \in {"ok", "fail"} => reply[c] = r
        /\ r = "cached" => CacheKey(c) \in buildCache
  <2>1. CASE BuildCacheHit(c)
    BY <2>1 DEF BuildCacheHit, Goto, Result
  <2>2. CASE NoWorkerAvailable(c)
    BY <2>2 DEF NoWorkerAvailable, Goto, Result
  <2>3. CASE DialFails(c)
    BY <2>3 DEF DialFails, Goto, Result
  <2>4. CASE ReceiveReply(c)
    BY <1>1, <2>4 DEF ReceiveReply, Goto, Result, WorkerTypeOK, Reply
  <2>5. CASE CallFails(c) \/ ConnectionLost(c)
    BY <2>5 DEF CallFails, ConnectionLost, Goto, Result
  <2>6. QED
    BY <2>1, <2>2, <2>3, <2>4, <2>5
<1>4. ResultKnown(c)'
  <2>1. pc'[c] = q /\ result'[c] = r /\ reply' = reply
    BY <1>1, <1>2, <1>3 DEF workerVars
  <2>2. q # "release" => reply[c] = "none" /\ \A w \in Workers : ~AtWorker(w, c)
    BY <1>1, <1>3 DEF Unsent, Early, AtWorker
  <2>3. \A w \in Workers : AtWorker(w, c)' <=> AtWorker(w, c)
    BY <1>2 DEF AtWorker, workerVars
  <2>4. QED
    BY <1>3, <2>1, <2>2, <2>3 DEF ResultKnown, Result, Early
<1>5. QED
  BY <1>1, <1>2, <1>3, <1>4, OneHandler

(* A request is sent once, and to one worker. *)
LEMMA SendAnswers ==
  ASSUME IInv, AnswerInv, NEW c \in Calls, Send(c)
  PROVE  AnswerInv'
<1>1. PICK w \in Workers :
        /\ w = assigned[c] /\ WorkerTypeOK /\ pc \in [Calls -> PC] /\ pc[c] = "send"
        /\ reply[c] = "none" /\ result[c] = "none"
        /\ \A v \in Workers : ~AtWorker(v, c)
  BY DEF IInv, TypeOK, Placement, Placed, Unsent, Early, Send, AtWorker,
         AnswerInv, ResultKnown
<1>2. /\ inbox' = [inbox EXCEPT ![w] = inbox[w] \cup {c}]
      /\ pc' = [pc EXCEPT ![c] = "wait"]
      /\ UNCHANGED <<running, refusing, reply, result, buildCache>>
  BY <1>1 DEF Send, Goto
<1>3. \A v \in Workers, d \in Calls : AtWorker(v, d)' <=> AtWorker(v, d) \/ (v = w /\ d = c)
  BY <1>1, <1>2 DEF AtWorker, WorkerTypeOK
<1>4. OnePlace' /\ Settled'
  BY <1>1, <1>2, <1>3 DEF AnswerInv, OnePlace, Settled
<1>5. \A d \in Calls : ResultKnown(d)'
  BY <1>1, <1>2, <1>3 DEF AnswerInv, ResultKnown, Early
<1>6. CacheSound'
  BY <1>2 DEF AnswerInv, CacheSound
<1>7. QED
  BY <1>4, <1>5, <1>6 DEF AnswerInv

(* A worker answers a call it has and that has no reply yet, and the call  *)
(* is gone from it: what was answered before stays as it is.               *)
LEMMA WorkerAnswers ==
  ASSUME AnswerInv, UNCHANGED <<pc, result, buildCache>>,
         \A v \in Workers, d \in Calls : AtWorker(v, d)' => AtWorker(v, d),
         \A d \in Calls : reply'[d] # reply[d] =>
           /\ \E v \in Workers : AtWorker(v, d)
           /\ \A v \in Workers : ~AtWorker(v, d)'
  PROVE  AnswerInv'
<1>1. OnePlace' /\ Settled'
  BY DEF AnswerInv, OnePlace, Settled
<1>2. \A d \in Calls : reply[d] # "none" => reply'[d] = reply[d]
  BY DEF AnswerInv, Settled
<1>3. \A d \in Calls : ResultKnown(d)'
  <2> SUFFICES ASSUME NEW d \in Calls PROVE ResultKnown(d)'
    OBVIOUS
  <2>1. ResultKnown(d) /\ pc'[d] = pc[d] /\ result'[d] = result[d]
    BY DEF AnswerInv
  <2>2. result[d] \in {"noworker", "unreachable", "cached"} =>
          reply'[d] = "none" /\ \A w \in Workers : ~AtWorker(w, d)'
    BY <2>1 DEF ResultKnown
  <2>3. QED
    BY <1>2, <2>1, <2>2 DEF ResultKnown
<1>4. CacheSound'
  BY <1>2 DEF AnswerInv, CacheSound
<1>5. QED
  BY <1>1, <1>3, <1>4 DEF AnswerInv

(* Nothing the clients could see changes. *)
LEMMA QuietAnswers ==
  ASSUME AnswerInv, UNCHANGED <<inbox, running, refusing, reply, pc, result, buildCache>>
  PROVE  AnswerInv'
BY WorkerAnswers DEF AtWorker

(* What a step of a worker does to the calls. *)
LEMMA WorkerCalls ==
  ASSUME IInv, AnswerInv, NEW w \in Workers, WorkerStep(w) \/ WorkerStops(w)
  PROVE  /\ UNCHANGED <<pc, result, buildCache>>
         /\ \A v \in Workers, d \in Calls : AtWorker(v, d)' => AtWorker(v, d)
         /\ \A d \in Calls : reply'[d] # reply[d] =>
              AtWorker(w, d) /\ \A v \in Workers : ~AtWorker(v, d)'
<1>1. /\ WorkerTypeOK /\ SlotsDisjoint /\ OnePlace
      /\ UNCHANGED <<pc, result, buildCache>>
  BY DEF IInv, WorkerInv, AnswerInv, WorkerStep, WorkerStops, coordVars
<1> DEFINE Stay == \A v \in Workers, d \in Calls : AtWorker(v, d)' => AtWorker(v, d)
           Leaves == \A d \in Calls : reply'[d] # reply[d] =>
                       AtWorker(w, d) /\ ~AtWorker(w, d)'
<1>2. ASSUME Stay, Leaves
      PROVE  \A d \in Calls : reply'[d] # reply[d] =>
               AtWorker(w, d) /\ \A v \in Workers : ~AtWorker(v, d)'
  BY <1>1, <1>2 DEF OnePlace
<1>3. Stay /\ Leaves
  <2>1. CASE Listen(w)
    BY <2>1 DEF Listen, AtWorker
  <2>2. CASE Drain(w)
    BY <1>1, <2>2 DEF Drain, AtWorker, WorkerTypeOK, SlotsDisjoint
  <2>3. CASE Terminate(w)
    BY <1>1, <2>3 DEF Terminate, AtWorker, WorkerTypeOK
  <2>4. ASSUME NEW c \in Calls, RejectUnimplemented(w, c) PROVE Stay /\ Leaves
    BY <1>1, <2>4 DEF RejectUnimplemented, AtWorker, WorkerTypeOK, SlotsDisjoint
  <2>5. ASSUME NEW c \in Calls, Admit(w, c) PROVE Stay /\ Leaves
    BY <1>1, <2>5 DEF Admit, AtWorker, WorkerTypeOK
  <2>6. ASSUME NEW c \in Calls, RejectExhausted(w, c) PROVE Stay /\ Leaves
    BY <1>1, <2>6 DEF RejectExhausted, AtWorker, WorkerTypeOK, SlotsDisjoint
  <2>7. ASSUME NEW c \in Calls, NEW success \in BOOLEAN, FinishTask(w, c, success)
        PROVE  Stay /\ Leaves
    BY <1>1, <2>7 DEF FinishTask, AtWorker, WorkerTypeOK, SlotsDisjoint
  <2>8. QED
    BY <2>1, <2>2, <2>3, <2>4, <2>5, <2>6, <2>7 DEF WorkerStep, WorkerStops
<1>4. QED
  BY <1>1, <1>2, <1>3

(* A restart forgets the cache and the handlers, not what was answered. *)
LEMMA RestartAnswers ==
  ASSUME IInv, AnswerInv, CoordinatorRestarts
  PROVE  AnswerInv'
<1>1. pc \in [Calls -> PC] /\ UNCHANGED <<inbox, running, refusing, reply>>
  BY DEF IInv, TypeOK, CoordinatorRestarts, workerVars
<1>2. \A w \in Workers, d \in Calls : AtWorker(w, d)' <=> AtWorker(w, d)
  BY <1>1 DEF AtWorker
<1>3. OnePlace' /\ Settled'
  BY <1>1, <1>2 DEF AnswerInv, OnePlace, Settled
<1>4. \A d \in Calls : /\ result'[d] # "none" => pc'[d] = pc[d] /\ result'[d] = result[d]
                       /\ pc[d] \in InFlight => pc'[d] = "aborted" /\ result'[d] = "none"
                       /\ pc[d] \notin InFlight => pc'[d] = pc[d] /\ result'[d] = result[d]
  BY DEF CoordinatorRestarts
<1>5. \A d \in Calls : ResultKnown(d)'
  <2> SUFFICES ASSUME NEW d \in Calls PROVE ResultKnown(d)'
    OBVIOUS
  <2>1. ResultKnown(d)
    BY DEF AnswerInv
  <2>2. CASE pc[d] \in InFlight
    BY <1>4, <2>2 DEF ResultKnown, Early
  <2>3. CASE pc[d] \notin InFlight
    BY <1>1, <1>2, <1>4, <2>1, <2>3 DEF ResultKnown
  <2>4. QED
    BY <2>2, <2>3
<1>6. CacheSound'
  <2>1. buildCache' = {}
    BY DEF CoordinatorRestarts
  <2>2. \A d \in Calls : result'[d] = "cached" => result[d] = "cached"
    BY <1>4
  <2>3. QED
    BY <1>1, <2>1, <2>2 DEF AnswerInv, CacheSound
<1>7. QED
  BY <1>3, <1>5, <1>6 DEF AnswerInv

(* Every step of the system keeps what was answered justified. *)
LEMMA StepAnswers ==
  ASSUME IInv, AnswerInv, [Next]_vars
  PROVE  AnswerInv'
<1>1. ASSUME NEW c \in Calls, Enter(c) \/ HandlerStep(c) \/ ConnectionLost(c)
      PROVE  AnswerInv'
  BY <1>1, PassingAnswers, LearningAnswers, SendAnswers
     DEF Enter, HandlerStep
<1>2. ASSUME NEW c \in Calls, ClientGivesUp(c) PROVE AnswerInv'
  BY <1>2, QuietAnswers DEF ClientGivesUp, workerVars
<1>3. ASSUME NEW w \in Workers, WorkerRegisters(w) PROVE AnswerInv'
  BY <1>3, QuietAnswers DEF WorkerRegisters, StartProcess, coordVars
<1>4. ASSUME NEW w \in Workers, Heartbeat(w) \/ HeartbeatLost(w)
      PROVE  AnswerInv'
  BY <1>4, QuietAnswers DEF Heartbeat, HeartbeatLost, workerVars, coordVars
<1>5. CASE Cleanup
  BY <1>5, QuietAnswers DEF Cleanup, workerVars, coordVars
<1>6. ASSUME NEW w \in Workers, WorkerStep(w) \/ WorkerStops(w) PROVE AnswerInv'
  BY <1>6, WorkerCalls, WorkerAnswers
<1>7. CASE CoordinatorRestarts
  BY <1>7, RestartAnswers
<1>8. CASE UNCHANGED vars
  BY <1>8, QuietAnswers DEF vars, workerVars, coordVars
<1>9. QED
  BY <1>1, <1>2, <1>3, <1>4, <1>5, <1>6, <1>7, <1>8 DEF Next

(* Answers are justified in every reachable state. *)
LEMMA AnswersJustified == Spec => [](IInv /\ AnswerInv)
<1>1. Init => AnswerInv
  BY DEF Init, WorkerInit, AnswerInv, OnePlace, Settled, ResultKnown, Early, AtWorker,
         CacheSound
<1>2. IInv /\ AnswerInv /\ [Next]_vars => AnswerInv'
  BY StepAnswers
<1>3. QED
  BY <1>1, <1>2, Invariance, PTL DEF Spec

(* The artifact cache of the coordinator only ever answers with a build    *)
(* that a worker completed for the same key, across worker crashes, lost   *)
(* connections, late replies and restarts of the coordinator.              *)
THEOREM CacheIsSound == Spec => []CacheSound
<1>1. AnswerInv => CacheSound
  BY DEF AnswerInv
<1>2. QED
  BY <1>1, AnswersJustified, PTL

-----------------------------------------------------------------------------
(* The refinement: the state of the service as the coordinator shows it.   *)

StatusOf(p) ==
  CASE p = "idle"    -> "idle"
    [] p = "done"    -> "answered"
    [] p = "aborted" -> "broken"
    [] OTHER         -> "pending"

Status == [c \in Calls |-> StatusOf(pc[c])]
Shown  == [c \in Calls |-> IF pc[c] = "done" THEN result[c] ELSE "none"]
Ran    == [c \in Calls |-> IF reply[c] \in {"ok", "fail"} THEN reply[c] ELSE "none"]

(* The actions of the service in terms of the state shown. *)
LEMMA Mapping ==
  /\ UNCHANGED Service!serviceVars <=> Status' = Status /\ Shown' = Shown /\ Ran' = Ran
  /\ \A c \in Calls : Service!Submit(c) <=>
       /\ Status[c] = "idle" /\ Status' = [Status EXCEPT ![c] = "pending"]
       /\ Shown' = Shown /\ Ran' = Ran
  /\ \A c \in Calls, r \in {"ok", "fail"} : Service!Run(c, r) <=>
       /\ Status[c] # "idle" /\ Ran[c] = "none"
       /\ Shown[c] \notin Service!NotDispatched
       /\ Ran' = [Ran EXCEPT ![c] = r]
       /\ Status' = Status /\ Shown' = Shown
  /\ \A c \in Calls, a \in Service!Answers : Service!Answer(c, a) <=>
       /\ Status[c] = "pending" /\ Service!Justified(c, a)
       /\ Status' = [Status EXCEPT ![c] = "answered"]
       /\ Shown' = [Shown EXCEPT ![c] = a]
       /\ Ran' = Ran
  /\ Service!BreakPending <=>
       /\ Status' = [c \in Calls |-> IF Status[c] = "pending" THEN "broken" ELSE Status[c]]
       /\ Shown' = Shown /\ Ran' = Ran
<1>1. UNCHANGED Service!serviceVars <=> Status' = Status /\ Shown' = Shown /\ Ran' = Ran
  BY DEF Service!serviceVars, Status, StatusOf, Shown, Ran
<1>2. \A c \in Calls : Service!Submit(c) <=>
       /\ Status[c] = "idle" /\ Status' = [Status EXCEPT ![c] = "pending"]
       /\ Shown' = Shown /\ Ran' = Ran
  BY DEF Service!Submit, Status, StatusOf, Shown, Ran
<1>3. \A c \in Calls, r \in {"ok", "fail"} : Service!Run(c, r) <=>
       /\ Status[c] # "idle" /\ Ran[c] = "none"
       /\ Shown[c] \notin Service!NotDispatched
       /\ Ran' = [Ran EXCEPT ![c] = r]
       /\ Status' = Status /\ Shown' = Shown
  BY DEF Service!Run, Status, StatusOf, Shown, Ran
<1>4. \A c \in Calls, a \in Service!Answers : Service!Answer(c, a) <=>
       /\ Status[c] = "pending" /\ Service!Justified(c, a)
       /\ Status' = [Status EXCEPT ![c] = "answered"]
       /\ Shown' = [Shown EXCEPT ![c] = a]
       /\ Ran' = Ran
  BY DEF Service!Answer, Status, StatusOf, Shown, Ran
<1>5. Service!BreakPending <=>
       /\ Status' = [c \in Calls |-> IF Status[c] = "pending" THEN "broken" ELSE Status[c]]
       /\ Shown' = Shown /\ Ran' = Ran
  BY DEF Service!BreakPending, Status, StatusOf, Shown, Ran
<1>6. QED
  BY <1>1, <1>2, <1>3, <1>4, <1>5

(* The state shown changes only with what the clients could see. *)
LEMMA Unseen ==
  ASSUME UNCHANGED <<pc, result>>, Ran' = Ran
  PROVE  UNCHANGED Service!serviceVars
<1>1. Status' = Status /\ Shown' = Shown
  BY DEF Status, Shown
<1>2. QED
  BY <1>1, Mapping

(* A handler on its way: the call is submitted, or stays pending. *)
LEMMA OnItsWay ==
  ASSUME IInv, NEW c \in Calls, NEW q \in InFlight,
         pc' = [pc EXCEPT ![c] = q], pc[c] \in InFlight \cup {"idle"},
         \A d \in Calls \ {c} : result'[d] = result[d],
         reply' = reply
  PROVE  Service!Submit(c) \/ UNCHANGED Service!serviceVars
<1>1. pc \in [Calls -> PC] /\ Ran' = Ran
  BY DEF IInv, TypeOK, Ran
<1>2. Shown' = Shown
  BY <1>1 DEF Shown, InFlight
<1>3. CASE pc[c] = "idle"
  <2>1. Status[c] = "idle" /\ Status' = [Status EXCEPT ![c] = "pending"]
    BY <1>1, <1>3 DEF Status, StatusOf, InFlight
  <2>2. QED
    BY <1>1, <1>2, <2>1, Mapping
<1>4. CASE pc[c] # "idle"
  <2>1. Status' = Status
    BY <1>1, <1>4 DEF Status, StatusOf, InFlight
  <2>2. QED
    BY <1>1, <1>2, <2>1, Mapping
<1>5. QED
  BY <1>3, <1>4

(* A handler that returns answers its call with its result. *)
LEMMA Returning ==
  ASSUME IInv, NEW c \in Calls, NEW a \in Service!Answers, a = result[c],
         pc[c] \in InFlight, pc' = [pc EXCEPT ![c] = "done"],
         result' = result, reply' = reply, Service!Justified(c, a)
  PROVE  Service!Answer(c, a)
<1>1. pc \in [Calls -> PC] /\ result \in [Calls -> Result] /\ Ran' = Ran
  BY DEF IInv, TypeOK, Ran
<1>2. Status[c] = "pending" /\ Status' = [Status EXCEPT ![c] = "answered"]
  BY <1>1 DEF Status, StatusOf, InFlight
<1>3. Shown' = [Shown EXCEPT ![c] = a]
  BY <1>1 DEF Shown
<1>4. QED
  BY <1>1, <1>2, <1>3, Mapping

(* The steps that leave a call pending, or make it so. *)
LEMMA PassingRefines ==
  ASSUME IInv, NEW c \in Calls,
         \/ Enter(c) \/ SelectWorker(c) \/ NoWorkerAvailable(c) \/ NoWorkerFailed(c)
         \/ TrackInRegistry(c) \/ CountActive(c) \/ CountTotal(c) \/ CountByWorker(c)
         \/ Connect(c) \/ Dial(c) \/ DialFails(c) \/ Send(c) \/ ReceiveReply(c)
         \/ CallFails(c) \/ ConnectionLost(c) \/ Release(c) \/ CountOutcome(c)
         \/ StoreArtifacts(c) \/ Retire(c) \/ Ungauge(c)
  PROVE  Service!Submit(c) \/ UNCHANGED Service!serviceVars
<1>1. result \in [Calls -> Result]
  BY DEF IInv, TypeOK
<1>2. /\ pc[c] \in InFlight \cup {"idle"}
      /\ \E q \in InFlight : pc' = [pc EXCEPT ![c] = q]
      /\ reply' = reply
      /\ \A d \in Calls \ {c} : result'[d] = result[d]
  <2>1. CASE Enter(c) \/ SelectWorker(c) \/ NoWorkerAvailable(c) \/ NoWorkerFailed(c)
    BY <1>1, <2>1 DEF Enter, CompileEnter, BuildCacheHit, BuildCacheMiss, SelectWorker,
         NoWorkerAvailable, NoWorkerFailed, Tally, Goto, InFlight, workerVars
  <2>2. CASE \/ TrackInRegistry(c) \/ CountActive(c) \/ CountTotal(c) \/ CountByWorker(c)
             \/ Connect(c) \/ Dial(c) \/ DialFails(c) \/ Send(c)
    BY <1>1, <2>2 DEF TrackInRegistry, CountActive, CountTotal, CountByWorker, Connect,
         Dial, DialFails, Send, Tally, Goto, InFlight, workerVars
  <2>3. CASE \/ ReceiveReply(c) \/ CallFails(c) \/ ConnectionLost(c) \/ Release(c)
             \/ CountOutcome(c) \/ StoreArtifacts(c) \/ Retire(c) \/ Ungauge(c)
    BY <1>1, <2>3 DEF ReceiveReply, CallFails, ConnectionLost, Release, CountOutcome,
         StoreArtifacts, Retire, Ungauge, Tally, Goto, InFlight, workerVars
  <2>4. QED
    BY <2>1, <2>2, <2>3
<1>3. QED
  BY <1>2, OnItsWay

(* A handler that returns answers: from the cache, or what it learnt on    *)
(* its way out.  Either is justified by what the workers did.              *)
LEMMA LeavingRefines ==
  ASSUME IInv, AnswerInv, NEW c \in Calls, HitSuccess(c) \/ Leave(c)
  PROVE  \E a \in Service!Answers : Service!Answer(c, a)
<1>1. /\ pc[c] \in {"hit", "leave"} /\ pc' = [pc EXCEPT ![c] = "done"]
      /\ result' = result /\ reply' = reply
  BY DEF HitSuccess, Leave, Return, Goto, workerVars
<1>2. /\ result[c] \in {"ok", "fail", "error", "noworker", "unreachable", "cached"}
      /\ result[c] \in {"ok", "fail"} => reply[c] = result[c]
      /\ result[c] \in {"noworker", "unreachable", "cached"} => reply[c] = "none"
      /\ result[c] = "cached" => IsBuild(c)
  BY <1>1 DEF AnswerInv, ResultKnown
<1>3. result[c] = "cached" => \E d \in Calls : CacheKey(d) = CacheKey(c) /\ reply[d] = "ok"
  BY DEF AnswerInv, CacheSound
<1>4. Service!Justified(c, result[c])
  BY <1>2, <1>3, Zenon DEF Service!Justified, Service!IsBuild, IsBuild
<1>5. result[c] \in Service!Answers
  BY <1>2 DEF Service!Answers, Service!NotDispatched
<1>6. pc[c] \in InFlight
  BY <1>1 DEF InFlight
<1>7. QED
  BY <1>1, <1>4, <1>5, <1>6, Returning

(* A worker that completes a task runs the call, for the only time; every  *)
(* other thing a worker does leaves the runs alone.                        *)
LEMMA WorkerRefines ==
  ASSUME IInv, AnswerInv, NEW w \in Workers, WorkerStep(w) \/ WorkerStops(w)
  PROVE  \/ \E c \in Calls, r \in {"ok", "fail"} : Service!Run(c, r)
         \/ UNCHANGED Service!serviceVars
<1>1. /\ UNCHANGED <<pc, result>> /\ reply \in [Calls -> Reply]
      /\ \A d \in Calls : reply'[d] # reply[d] => AtWorker(w, d)
  BY WorkerCalls DEF IInv, TypeOK, WorkerTypeOK
<1>2. \A d \in Calls : reply'[d] # reply[d] => reply[d] = "none"
  BY <1>1 DEF AnswerInv, Settled
<1>3. ASSUME \A d \in Calls : reply'[d] \in {reply[d], "error"}
      PROVE  UNCHANGED Service!serviceVars
  <2>1. Ran' = Ran
    BY <1>2, <1>3 DEF Ran
  <2>2. QED
    BY <1>1, <2>1, Unseen
<1>4. ASSUME NEW c \in Calls, NEW success \in BOOLEAN, FinishTask(w, c, success)
      PROVE  \E r \in {"ok", "fail"} : Service!Run(c, r)
  <2>1. PICK r \in {"ok", "fail"} : reply' = [reply EXCEPT ![c] = r]
    BY <1>4 DEF FinishTask
  <2>2. AtWorker(w, c)
    BY <1>4 DEF FinishTask, AtWorker
  <2>3. reply[c] = "none" /\ pc[c] # "idle"
    BY <2>2 DEF AnswerInv, Settled, IInv, Unsent, Early, AtWorker
  <2>4. result[c] \notin {"noworker", "unreachable", "cached"}
    BY <2>2 DEF AnswerInv, ResultKnown
  <2>5. Status[c] # "idle" /\ Ran[c] = "none"
    BY <2>3 DEF Status, StatusOf, Ran
  <2>6. Shown[c] \notin Service!NotDispatched
    BY <2>4 DEF Shown, Service!NotDispatched
  <2>7. Ran' = [Ran EXCEPT ![c] = r]
    BY <1>1, <2>1 DEF Ran
  <2>8. Status' = Status /\ Shown' = Shown
    BY <1>1 DEF Status, Shown
  <2>9. QED
    BY <2>5, <2>6, <2>7, <2>8, Mapping
<1>5. CASE Listen(w)
  BY <1>3, <1>5 DEF Listen
<1>6. CASE Drain(w) \/ Terminate(w)
  BY <1>3, <1>6 DEF Drain, Terminate
<1>7. ASSUME NEW c \in Calls,
             RejectUnimplemented(w, c) \/ Admit(w, c) \/ RejectExhausted(w, c)
      PROVE  UNCHANGED Service!serviceVars
  BY <1>1, <1>3, <1>7 DEF RejectUnimplemented, Admit, RejectExhausted
<1>8. QED
  BY <1>4, <1>5, <1>6, <1>7 DEF WorkerStep, WorkerStops

(* A restart of the coordinator breaks the pending calls and no others. *)
LEMMA RestartRefines ==
  ASSUME IInv, CoordinatorRestarts
  PROVE  Service!BreakPending
<1>1. pc \in [Calls -> PC] /\ reply' = reply
  BY DEF IInv, TypeOK, CoordinatorRestarts, workerVars
<1>2. \A c \in Calls :
        /\ pc[c] \in InFlight => pc'[c] = "aborted"
        /\ pc[c] \notin InFlight => pc'[c] = pc[c] /\ result'[c] = result[c]
  BY DEF CoordinatorRestarts
<1>3. \A c \in Calls : StatusOf(pc[c]) = "pending" <=> pc[c] \in InFlight
  BY <1>1 DEF StatusOf, PC, InFlight
<1>4. Status' = [c \in Calls |-> IF Status[c] = "pending" THEN "broken" ELSE Status[c]]
  <2>1. \A c \in Calls :
          StatusOf(pc'[c]) = IF StatusOf(pc[c]) = "pending" THEN "broken" ELSE StatusOf(pc[c])
    BY <1>2, <1>3 DEF StatusOf
  <2>2. QED
    BY <2>1 DEF Status
<1>5. Shown' = Shown
  BY <1>2 DEF Shown, InFlight
<1>6. Ran' = Ran
  BY <1>1 DEF Ran
<1>7. QED
  BY <1>4, <1>5, <1>6, Mapping

(* Every step of the system is a step of the service, or shows nothing. *)
LEMMA StepRefines ==
  ASSUME IInv, AnswerInv, [Next]_vars
  PROVE  [Service!Next]_(Service!serviceVars)
<1>1. ASSUME NEW c \in Calls, Enter(c) \/ HandlerStep(c) \/ ConnectionLost(c)
      PROVE  Service!Next \/ UNCHANGED Service!serviceVars
  BY <1>1, PassingRefines, LeavingRefines DEF HandlerStep, Service!Next
<1>2. ASSUME NEW w \in Workers, WorkerStep(w) \/ WorkerStops(w)
      PROVE  Service!Next \/ UNCHANGED Service!serviceVars
  BY <1>2, WorkerRefines DEF Service!Next
<1>3. CASE CoordinatorRestarts
  BY <1>3, RestartRefines DEF Service!Next
<1>4. ASSUME UNCHANGED <<pc, result, reply>> PROVE UNCHANGED Service!serviceVars
  BY <1>4, Unseen DEF Ran
<1>5. ASSUME NEW c \in Calls, ClientGivesUp(c) PROVE UNCHANGED Service!serviceVars
  BY <1>4, <1>5 DEF ClientGivesUp, workerVars
<1>6. ASSUME NEW w \in Workers, WorkerRegisters(w) \/ Heartbeat(w) \/ HeartbeatLost(w)
      PROVE  UNCHANGED Service!serviceVars
  BY <1>4, <1>6 DEF WorkerRegisters, StartProcess, Heartbeat, HeartbeatLost,
                    workerVars, coordVars
<1>7. CASE Cleanup \/ UNCHANGED vars
  BY <1>4, <1>7 DEF Cleanup, vars, workerVars, coordVars
<1>8. QED
  BY <1>1, <1>2, <1>3, <1>5, <1>6, <1>7 DEF Next

(* To its clients the coordinator with its registry, scheduler and workers *)
(* is a CompileService: a call is answered once, a result is that of a run *)
(* of the call, a call runs at most once, and a call answered as not       *)
(* dispatched never runs.                                                  *)
THEOREM CoordinatorImplementsService == Spec => ImplementsService
<1>1. Init => Service!Init
  BY DEF Init, WorkerInit, Service!Init
<1>2. IInv /\ AnswerInv /\ [Next]_vars => [Service!Next]_(Service!serviceVars)
  BY StepRefines
<1>3. QED
  BY <1>1, <1>2, AnswersJustified, PTL DEF Spec, Service!Spec, ImplementsService

-----------------------------------------------------------------------------
(***************************************************************************)
(* The numbers the dashboard and the schedulers read, for any number of    *)
(* workers and calls: the running average of the compile times, and the    *)
(* server's atomic counters.                                               *)
(*                                                                         *)
(* Neither CountersExact nor AverageBounded needs a strengthening beyond   *)
(* IInv: the counters of the server change exactly where a handler enters  *)
(* or leaves the sets they count.                                          *)
(***************************************************************************)

(* The bound of the average: it is zero, or some reported time is as long. *)
Within(avg) == avg = 0 \/ \E t \in Times : avg <= t

(* The average of numbers up to m is not above m. *)
LEMMA AverageAtMost ==
  ASSUME NEW a \in Nat, NEW s \in Nat, NEW t \in Nat, NEW m \in Nat,
         s > 0, a <= m, t <= m
  PROVE  MovingAverage(a, s, t) <= m
<1>1. a * (s - 1) <= m * (s - 1)
  <2>1. m - a \in Nat /\ s - 1 \in Nat
    OBVIOUS
  <2>2. (m - a) * (s - 1) >= 0
    BY <2>1
  <2>3. (m - a) * (s - 1) = m * (s - 1) - a * (s - 1)
    OBVIOUS
  <2>4. QED
    BY <2>2, <2>3
<1>2. m * (s - 1) + m = m * s
  OBVIOUS
<1> DEFINE x == a * (s - 1) + t
<1>3. x \in Nat /\ x <= m * s
  <2>1. a * (s - 1) \in Nat /\ m * (s - 1) \in Nat /\ m * s \in Nat
    OBVIOUS
  <2>2. QED
    BY <1>1, <1>2, <2>1
<1> HIDE DEF x
<1>4. x \div s <= m
  <2> DEFINE q == x \div s
  <2>1. q \in Nat /\ s * q <= x
    BY <1>3
  <2>2. s * q <= m * s /\ m * s = s * m
    BY <1>3, <2>1
  <2> HIDE DEF q
  <2>3. SUFFICES ASSUME q > m PROVE FALSE
    BY <2>1 DEF q
  <2>4. q >= m + 1 /\ s * q >= s * (m + 1)
    BY <2>1, <2>3
  <2>5. s * (m + 1) = s * m + s
    OBVIOUS
  <2>6. QED
    BY <2>1, <2>2, <2>4, <2>5
<1>5. QED
  BY <1>4 DEF MovingAverage, x

(* One more reported time keeps the average within the bound. *)
LEMMA AverageWithin ==
  ASSUME NEW a \in Nat, NEW s \in Nat, NEW t \in Times \cup {0}, Within(a)
  PROVE  Within(MovingAverage(a, s, t))
<1>1. CASE s = 0
  BY <1>1 DEF MovingAverage
<1>2. CASE s > 0
  <2>1. t \in Nat
    BY TimesAssumption
  <2>2. CASE a = 0 /\ t = 0
    <3>1. MovingAverage(a, s, t) <= 0 /\ MovingAverage(a, s, t) \in Nat
      BY <1>2, <2>2, AverageAtMost, MovingAverageType
    <3>2. QED
      BY <3>1 DEF Within
  <2>3. CASE ~(a = 0 /\ t = 0)
    <3>1. PICK m \in Times : a <= m /\ t <= m
      BY <2>1, <2>3, TimesAssumption DEF Within
    <3>2. MovingAverage(a, s, t) <= m
      BY <1>2, <2>1, <3>1, AverageAtMost, TimesAssumption
    <3>3. QED
      BY <3>2 DEF Within
  <2>4. QED
    BY <2>2, <2>3
<1>3. QED
  BY <1>1, <1>2

(* Handshakes and bookings leave the average of an entry alone. *)
LEMMA SameAverage ==
  ASSUME NEW i \in WorkerInfo, NEW m \in Nat
  PROVE  /\ Refreshed(i, m).AvgCompileTime = i.AvgCompileTime
         /\ Incremented(i).AvgCompileTime = i.AvgCompileTime
<1> DEFINE f == [i EXCEPT !.MaxParallel = m]
           g == [f EXCEPT !.stale = FALSE]
           h == [g EXCEPT !.state = Revived(i.state)]
           k == [i EXCEPT !.ActiveTasks = i.ActiveTasks + 1]
           l == [k EXCEPT !.TotalTasks = i.TotalTasks + 1]
           n == [l EXCEPT !.state = IF i.state = "Idle" THEN "Busy" ELSE i.state]
<1>1. Refreshed(i, m) = h /\ Incremented(i) = n
  BY DEF Refreshed, Incremented, WorkerInfo
<1>2. h.AvgCompileTime = i.AvgCompileTime
  BY DEF WorkerInfo
<1>3. n.AvgCompileTime = i.AvgCompileTime
  BY DEF WorkerInfo
<1>4. QED
  BY <1>1, <1>2, <1>3

(* A release takes one more sample. *)
LEMMA SampledAverage ==
  ASSUME NEW i \in WorkerInfo, NEW success \in BOOLEAN, NEW t \in Nat
  PROVE  \E n \in Nat :
           Decremented(i, success, t).AvgCompileTime = MovingAverage(i.AvgCompileTime, n, t)
<1> DEFINE active == IF i.ActiveTasks > 0 THEN i.ActiveTasks - 1 ELSE 0
           succ == IF success THEN i.SuccessfulTasks + 1 ELSE i.SuccessfulTasks
           fail == IF success THEN i.FailedTasks ELSE i.FailedTasks + 1
           avg  == MovingAverage(i.AvgCompileTime, succ, t)
           st == IF active = 0 /\ i.state = "Busy" THEN "Idle" ELSE i.state
           f == [i EXCEPT !.ActiveTasks = active]
           g == [f EXCEPT !.SuccessfulTasks = succ]
           h == [g EXCEPT !.FailedTasks = fail]
           k == [h EXCEPT !.AvgCompileTime = avg]
           l == [k EXCEPT !.state = st]
<1>1. succ \in Nat
  BY DEF WorkerInfo
<1>2. Decremented(i, success, t) =
         [i EXCEPT !.ActiveTasks = active, !.SuccessfulTasks = succ,
                   !.FailedTasks = fail, !.AvgCompileTime = avg, !.state = st]
  BY Zenon DEF Decremented
<1> HIDE DEF active, succ, fail, avg, st
<1>3. Decremented(i, success, t) = l
  BY <1>2 DEF WorkerInfo
<1>4. l.AvgCompileTime = avg
  BY DEF WorkerInfo
<1>5. QED
  BY <1>1, <1>3, <1>4 DEF avg

(* Every step keeps the averages within the times reported so far. *)
LEMMA StepAverages ==
  ASSUME IInv, AverageBounded, [Next]_vars
  PROVE  AverageBounded'
<1>1. /\ registry \in [Workers -> WorkerInfo] /\ RegistryOK
      /\ \A w \in Workers : Within(registry[w].AvgCompileTime)
  BY DEF IInv, TypeOK, AverageBounded, Within
<1>2. SUFFICES \A w \in Workers : Within(registry'[w].AvgCompileTime)
  BY DEF AverageBounded, Within
<1>3. ASSUME \A w \in Workers : registry'[w].AvgCompileTime = registry[w].AvgCompileTime
      PROVE  \A w \in Workers : Within(registry'[w].AvgCompileTime)
  BY <1>1, <1>3
<1>4. ASSUME NEW w \in Workers, Add(w, MaxConcurrent[w])
      PROVE  \A v \in Workers : Within(registry'[v].AvgCompileTime)
  <2>1. registry' = [registry EXCEPT ![w] = IF Registered(w)
                       THEN Refreshed(registry[w], MaxConcurrent[w])
                       ELSE Fresh("Idle", MaxConcurrent[w])]
    BY <1>4, Zenon DEF Add
  <2>2. Refreshed(registry[w], MaxConcurrent[w]).AvgCompileTime = registry[w].AvgCompileTime
    BY <1>1, SameAverage, MaxConcurrentAssumption
  <2>3. Fresh("Idle", MaxConcurrent[w]).AvgCompileTime = 0
    BY DEF Fresh
  <2>4. registry'[w].AvgCompileTime \in {registry[w].AvgCompileTime, 0}
    BY <1>1, <2>1, <2>2, <2>3
  <2>5. \A v \in Workers : v # w => registry'[v] = registry[v]
    BY <1>1, <2>1
  <2>6. QED
    BY <1>1, <2>4, <2>5 DEF Within
<1>5. ASSUME NEW c \in Calls, TrackInRegistry(c)
      PROVE  \A v \in Workers : Within(registry'[v].AvgCompileTime)
  <2>1. PICK w \in Workers : w = assigned[c] /\ Registered(w) /\ IncrementTasks(w)
    BY <1>5 DEF IInv, Placement, Placed, TrackInRegistry
  <2>2. registry' = [registry EXCEPT ![w] = Incremented(registry[w])]
    BY <2>1, Zenon DEF IncrementTasks
  <2>3. Incremented(registry[w]).AvgCompileTime = registry[w].AvgCompileTime
    BY <1>1, SameAverage, MaxConcurrentAssumption
  <2>4. QED
    BY <1>1, <2>2, <2>3
<1>6. ASSUME NEW c \in Calls, Release(c)
      PROVE  \A v \in Workers : Within(registry'[v].AvgCompileTime)
  <2>1. PICK w \in Workers : w = assigned[c] /\ Registered(w)
    BY <1>6 DEF IInv, Placement, Placed, Release
  <2>2. PICK t \in Times \cup {0}, ok \in BOOLEAN : DecrementTasks(w, ok, t)
    BY <1>6, <2>1 DEF Release, ReportedTimes
  <2>3. registry' = [registry EXCEPT ![w] = Decremented(registry[w], ok, t)]
    BY <2>1, <2>2, Zenon DEF DecrementTasks
  <2>4. t \in Nat /\ registry[w] \in WorkerInfo /\ registry[w].AvgCompileTime \in Nat
    BY <1>1, TimesAssumption DEF WorkerInfo
  <2>5. PICK n \in Nat : Decremented(registry[w], ok, t).AvgCompileTime
                           = MovingAverage(registry[w].AvgCompileTime, n, t)
    BY <2>4, SampledAverage
  <2>6. Within(Decremented(registry[w], ok, t).AvgCompileTime)
    BY <1>1, <2>4, <2>5, AverageWithin
  <2>7. QED
    BY <1>1, <2>3, <2>6
<1>7. ASSUME Cleanup \/ \E w \in Workers : HeartbeatLost(w)
      PROVE  \A v \in Workers : Within(registry'[v].AvgCompileTime)
  <2>1. CASE Cleanup
    <3>1. \A v \in Workers : registry'[v] \in
            {registry[v], [registry[v] EXCEPT !.state = "Unhealthy"]}
      BY <2>1 DEF Cleanup, cleanupStaleWorkers
    <3>2. QED
      BY <1>1, <1>3, <3>1 DEF WorkerInfo
  <2>2. ASSUME NEW w \in Workers, HeartbeatLost(w)
        PROVE  \A v \in Workers : Within(registry'[v].AvgCompileTime)
    <3>1. registry' = [registry EXCEPT ![w] = [registry[w] EXCEPT !.stale = TRUE]]
      BY <1>1, <2>2 DEF HeartbeatLost, HeartbeatExpires
    <3>2. QED
      BY <1>1, <1>3, <3>1 DEF WorkerInfo
  <2>3. QED
    BY <1>7, <2>1, <2>2
<1>8. CASE CoordinatorRestarts
  BY <1>8 DEF CoordinatorRestarts, NoWorkerInfo, Fresh, Within
<1>9. CASE registry' = registry
  BY <1>3, <1>9
<1>10. ASSUME NEW c \in Calls, \/ Enter(c) \/ ConnectionLost(c) \/ ClientGivesUp(c)
                               \/ HandlerStep(c) /\ ~TrackInRegistry(c) /\ ~Release(c)
       PROVE  registry' = registry
  BY <1>10 DEF Enter, CompileEnter, BuildCacheHit, BuildCacheMiss, ConnectionLost,
     ClientGivesUp, HandlerStep, Tally, HitSuccess, SelectWorker, NoWorkerAvailable,
     NoWorkerFailed, CountActive, CountTotal, CountByWorker, Connect, Dial, DialFails,
     Send, ReceiveReply, CallFails, CountOutcome, StoreArtifacts, Retire, Ungauge, Leave
<1>11. ASSUME NEW w \in Workers, WorkerStep(w) \/ WorkerStops(w)
       PROVE  registry' = registry
  BY <1>11 DEF WorkerStep, WorkerStops
<1>12. ASSUME NEW w \in Workers, WorkerRegisters(w) \/ Heartbeat(w)
       PROVE  Add(w, MaxConcurrent[w])
  BY <1>12 DEF WorkerRegisters, Heartbeat, Handshake
<1>13. CASE UNCHANGED vars
  BY <1>9, <1>13 DEF vars
<1>14. ASSUME NEW c \in Calls, Enter(c) \/ HandlerStep(c) \/ ConnectionLost(c) \/ ClientGivesUp(c)
       PROVE  \A v \in Workers : Within(registry'[v].AvgCompileTime)
  BY <1>5, <1>6, <1>9, <1>10, <1>14
<1>15. QED
  BY <1>4, <1>7, <1>8, <1>9, <1>11, <1>12, <1>13, <1>14 DEF Next

(* The average compile time of a worker never exceeds the longest time one *)
(* of its tasks reported, whatever the interleaving of successes, compiler *)
(* failures and RPC errors the average is updated with.                    *)
THEOREM AverageIsBounded == Spec => []AverageBounded
<1>1. Init => AverageBounded
  BY DEF Init, RegistryInit, NoWorkerInfo, Fresh, AverageBounded
<1>2. IInv /\ AverageBounded /\ [Next]_vars => AverageBounded'
  BY StepAverages
<1>3. QED
  BY <1>1, <1>2, Invariance, PTL DEF Spec

-----------------------------------------------------------------------------
(* The counters of the server *)

One(b) == IF b THEN 1 ELSE 0

(* Two sets of calls that differ in c at most. *)
LEMMA CountMoves ==
  ASSUME NEW S \in SUBSET Calls, NEW T \in SUBSET Calls, NEW c \in Calls,
         \A d \in Calls \ {c} : d \in S <=> d \in T
  PROVE  Cardinality(T) = Cardinality(S) + One(c \in T) - One(c \in S)
<1>1. Cardinality(S) \in Nat /\ Cardinality(T) \in Nat
  BY CallSetsFinite
<1>2. CASE (c \in S) <=> (c \in T)
  <2>1. S = T
    BY <1>2
  <2>2. QED
    BY <1>1, <2>1 DEF One
<1>3. CASE c \in T /\ c \notin S
  <2>1. T = S \cup {c}
    BY <1>3
  <2>2. QED
    BY <1>1, <1>3, <2>1, CountAdd DEF One
<1>4. CASE c \in S /\ c \notin T
  <2>1. T = S \ {c}
    BY <1>4
  <2>2. QED
    BY <1>1, <1>4, <2>1, CountRemove DEF One
<1>5. QED
  BY <1>2, <1>3, <1>4

(* A step of one handler changes the gauges as far as it enters or leaves  *)
(* the sets they count, and counts a task begun or ended.                  *)
LEMMA HandlerCounts ==
  ASSUME CountersExact, NEW c \in Calls,
         \A d \in Calls \ {c} : pc'[d] = pc[d] /\ assigned'[d] = assigned[d],
         stats \in Counters, stats' \in Counters,
         stats'.activeTasks = stats.activeTasks + One(IsActive(c)') - One(IsActive(c)),
         stats'.queuedTasks = stats.queuedTasks + One(IsQueued(c)') - One(IsQueued(c)),
         stats'.totalTasks - stats'.successTasks - stats'.failedTasks
           = stats.totalTasks - stats.successTasks - stats.failedTasks
               + One(IsOpen(c)') - One(IsOpen(c)),
         \A w \in Workers :
           byWorker'[w] = byWorker[w] + One(IsGauged(c)' /\ assigned'[c] = w)
                                      - One(IsGauged(c) /\ assigned[c] = w)
  PROVE  CountersExact'
<1> DEFINE A == {d \in Calls : IsActive(d)}
           Q == {d \in Calls : IsQueued(d)}
           O == {d \in Calls : IsOpen(d)}
<1>1. \A d \in Calls \ {c} : /\ IsActive(d)' <=> IsActive(d)
                             /\ IsQueued(d)' <=> IsQueued(d)
                             /\ IsOpen(d)' <=> IsOpen(d)
                             /\ IsGauged(d)' <=> IsGauged(d)
  BY DEF IsActive, IsQueued, IsOpen, IsGauged, DialsBooked
<1>2. stats'.activeTasks = Cardinality(A')
  <2>1. Cardinality(A') = Cardinality(A) + One(c \in A') - One(c \in A)
    <3>1. A \in SUBSET Calls /\ A' \in SUBSET Calls /\ \A d \in Calls \ {c} : d \in A <=> d \in A'
      BY <1>1
    <3>2. QED
      BY <3>1, CountMoves
  <2>2. (c \in A' <=> IsActive(c)') /\ (c \in A <=> IsActive(c))
    OBVIOUS
  <2>3. QED
    BY <2>1, <2>2 DEF CountersExact, One
<1>3. stats'.queuedTasks = Cardinality(Q')
  <2>1. Cardinality(Q') = Cardinality(Q) + One(c \in Q') - One(c \in Q)
    <3>1. Q \in SUBSET Calls /\ Q' \in SUBSET Calls /\ \A d \in Calls \ {c} : d \in Q <=> d \in Q'
      BY <1>1
    <3>2. QED
      BY <3>1, CountMoves
  <2>2. (c \in Q' <=> IsQueued(c)') /\ (c \in Q <=> IsQueued(c))
    OBVIOUS
  <2>3. QED
    BY <2>1, <2>2 DEF CountersExact, One
<1>4. \A w \in Workers : byWorker'[w] = Cardinality(Gauged(w)')
  <2> SUFFICES ASSUME NEW w \in Workers PROVE byWorker'[w] = Cardinality(Gauged(w)')
    OBVIOUS
  <2>1. /\ Gauged(w) \in SUBSET Calls /\ Gauged(w)' \in SUBSET Calls
        /\ \A d \in Calls \ {c} : d \in Gauged(w) <=> d \in Gauged(w)'
        /\ c \in Gauged(w) <=> IsGauged(c) /\ assigned[c] = w
        /\ c \in Gauged(w)' <=> IsGauged(c)' /\ assigned'[c] = w
    BY <1>1 DEF Gauged
  <2>2. Cardinality(Gauged(w)') = Cardinality(Gauged(w)) + One(c \in Gauged(w)')
                                                         - One(c \in Gauged(w))
    BY <2>1, CountMoves
  <2>3. QED
    BY <2>1, <2>2 DEF CountersExact, One
<1>5. stats'.totalTasks = stats'.successTasks + stats'.failedTasks + Cardinality(O')
  <2>1. Cardinality(O') = Cardinality(O) + One(c \in O') - One(c \in O)
    <3>1. O \in SUBSET Calls /\ O' \in SUBSET Calls /\ \A d \in Calls \ {c} : d \in O <=> d \in O'
      BY <1>1
    <3>2. QED
      BY <3>1, CountMoves
  <2>2. (c \in O' <=> IsOpen(c)') /\ (c \in O <=> IsOpen(c))
    OBVIOUS
  <2>3. /\ {stats.totalTasks, stats.successTasks, stats.failedTasks} \subseteq Int
        /\ {stats'.totalTasks, stats'.successTasks, stats'.failedTasks} \subseteq Int
        /\ Cardinality(O) \in Nat
    BY CallSetsFinite DEF Counters
  <2>4. stats.totalTasks = stats.successTasks + stats.failedTasks + Cardinality(O)
    BY DEF CountersExact
  <2> HIDE DEF O
  <2>5. QED
    BY <2>1, <2>2, <2>3, <2>4 DEF One
<1>6. QED
  BY <1>2, <1>3, <1>4, <1>5 DEF CountersExact

(* The steps on the way that add to no counter: none of the sets changes.  *)
LEMMA PassingCounts ==
  ASSUME IInv, CountersExact, NEW c \in Calls,
         \/ SelectWorker(c) \/ TrackInRegistry(c) \/ Connect(c) \/ Dial(c) \/ DialFails(c)
         \/ Send(c) \/ ReceiveReply(c) \/ CallFails(c) \/ ConnectionLost(c) \/ Release(c)
         \/ StoreArtifacts(c)
  PROVE  CountersExact'
<1>1. /\ pc \in [Calls -> PC] /\ stats \in Counters /\ byWorker \in [Workers -> Int]
      /\ assigned \in [Calls -> Workers \cup {"none"}]
  BY DEF IInv, TypeOK
<1>2. /\ UNCHANGED <<stats, byWorker>>
      /\ \/ SelectWorker(c) /\ \A d \in Calls \ {c} : assigned'[d] = assigned[d]
         \/ assigned' = assigned
  BY <1>1 DEF SelectWorker, TrackInRegistry, Connect, Dial, DialFails, Send, ReceiveReply,
         CallFails, ConnectionLost, Release, StoreArtifacts
<1>3. PICK q \in InFlight :
        /\ pc' = [pc EXCEPT ![c] = q]
        /\ \/ pc[c] = "select" /\ q = IF IsBuild(c) THEN "connect" ELSE "track"
           \/ pc[c] = "track" /\ q = "count"
           \/ pc[c] = "connect" /\ q = "dial"
           \/ pc[c] \in {"connect", "dial"} /\ q = IF IsBuild(c) THEN "track" ELSE "send"
           \/ pc[c] = "dial" /\ q = IF IsBuild(c) THEN "leave" ELSE "release"
           \/ pc[c] = "send" /\ q \in {"wait", "release"}
           \/ pc[c] = "wait" /\ q = "release"
           \/ pc[c] = "release" /\ q = "finish"
           \/ pc[c] = "store" /\ q = "retire"
  <2>1. CASE SelectWorker(c) \/ TrackInRegistry(c)
    BY <2>1 DEF SelectWorker, TrackInRegistry, Goto, InFlight
  <2>2. CASE Connect(c) \/ Dial(c) \/ DialFails(c)
    BY <2>2 DEF Connect, Dial, DialFails, Goto, InFlight
  <2>3. CASE Send(c) \/ ReceiveReply(c) \/ CallFails(c) \/ ConnectionLost(c)
    BY <2>3 DEF Send, ReceiveReply, CallFails, ConnectionLost, Goto, InFlight
  <2>4. CASE Release(c) \/ StoreArtifacts(c)
    BY <2>4 DEF Release, StoreArtifacts, Goto, InFlight
  <2>5. QED
    BY <2>1, <2>2, <2>3, <2>4
<1>4. /\ IsActive(c)' <=> IsActive(c)
      /\ IsQueued(c)' <=> IsQueued(c)
      /\ IsOpen(c)' <=> IsOpen(c)
      /\ IsGauged(c)' <=> IsGauged(c)
  BY <1>1, <1>3 DEF IsActive, IsQueued, IsOpen, IsGauged, DialsBooked, InFlight, IsBuild
<1>5. IsGauged(c) => assigned'[c] = assigned[c]
  BY <1>2 DEF SelectWorker, IsGauged, DialsBooked
<1>6. /\ stats'.activeTasks = stats.activeTasks + One(IsActive(c)') - One(IsActive(c))
      /\ stats'.queuedTasks = stats.queuedTasks + One(IsQueued(c)') - One(IsQueued(c))
      /\ stats'.totalTasks - stats'.successTasks - stats'.failedTasks
           = stats.totalTasks - stats.successTasks - stats.failedTasks
               + One(IsOpen(c)') - One(IsOpen(c))
  BY <1>1, <1>2, <1>4 DEF One, Counters
<1>7. \A w \in Workers :
        byWorker'[w] = byWorker[w] + One(IsGauged(c)' /\ assigned'[c] = w)
                                   - One(IsGauged(c) /\ assigned[c] = w)
  BY <1>1, <1>2, <1>4, <1>5 DEF One
<1>8. QED
  BY <1>1, <1>2, <1>3, <1>6, <1>7, HandlerCounts

(* The steps that add to one of the counters of the whole server: the      *)
(* handler enters or leaves the one set that counter belongs to.           *)
LEMMA TallyCounts ==
  ASSUME IInv, CountersExact, NEW c \in Calls,
         \/ Enter(c) \/ HitSuccess(c) \/ NoWorkerAvailable(c) \/ NoWorkerFailed(c)
         \/ CountActive(c) \/ CountTotal(c) \/ CountOutcome(c) \/ Retire(c) \/ Leave(c)
  PROVE  CountersExact'
<1>1. /\ pc \in [Calls -> PC] /\ stats \in Counters /\ byWorker \in [Workers -> Int]
      /\ assigned \in [Calls -> Workers \cup {"none"}]
  BY DEF IInv, TypeOK
<1>2. byWorker' = byWorker /\ \A d \in Calls \ {c} : assigned'[d] = assigned[d]
  BY <1>1 DEF Enter, CompileEnter, BuildCacheHit, BuildCacheMiss, HitSuccess,
         NoWorkerAvailable, NoWorkerFailed, CountActive, CountTotal, CountOutcome, Retire,
         Leave, Tally, Return
<1> DEFINE Moved(p, q) == pc[c] = p /\ pc' = [pc EXCEPT ![c] = q]
           ActiveBy(x) == stats' = [stats EXCEPT !.activeTasks = stats.activeTasks + x]
           QueuedBy(x) == stats' = [stats EXCEPT !.queuedTasks = stats.queuedTasks + x]
           OneMore == stats' = [stats EXCEPT !.totalTasks = stats.totalTasks + 1]
           Ended == stats' \in {[stats EXCEPT !.successTasks = stats.successTasks + 1],
                                [stats EXCEPT !.failedTasks = stats.failedTasks + 1]}
<1>3. \/ Moved("idle", "select") /\ QueuedBy(1)
      \/ Moved("leave", "done") /\ QueuedBy(-1)
      \/ Moved("count", "total") /\ ActiveBy(1)
      \/ Moved("retire", "ungauge") /\ ActiveBy(-1)
      \/ (Moved("idle", "hit") \/ Moved("select", "nofail") \/ Moved("total", "gauge")) /\ OneMore
      \/ /\ \/ Moved("hit", "done") \/ Moved("nofail", "leave")
            \/ Moved("finish", IF IsBuild(c) THEN "store" ELSE "retire")
         /\ Ended
      \/ Moved("select", "leave") /\ stats' = stats
  <2>1. CASE Enter(c)
    BY <2>1 DEF Enter, CompileEnter, BuildCacheHit, BuildCacheMiss, Tally, Goto
  <2>2. CASE NoWorkerAvailable(c)
    BY <2>2 DEF NoWorkerAvailable, Goto
  <2>3. CASE HitSuccess(c) \/ NoWorkerFailed(c) \/ CountOutcome(c)
    BY <2>3 DEF HitSuccess, NoWorkerFailed, CountOutcome, Tally, Return, Goto
  <2>4. CASE CountTotal(c)
    BY <2>4 DEF CountTotal, Tally, Goto
  <2>5. CASE CountActive(c)
    BY <2>5 DEF CountActive, Tally, Goto
  <2>6. CASE Retire(c)
    <3>1. Moved("retire", "ungauge")
      BY <2>6 DEF Retire, Tally, Goto
    <3>2. ActiveBy(-1)
      <4>1. stats.activeTasks - 1 = stats.activeTasks + (-1)
        BY <1>1 DEF Counters
      <4>2. QED
        BY <2>6, <4>1 DEF Retire, Tally
    <3>3. QED
      BY <3>1, <3>2
  <2>7. CASE Leave(c)
    <3>1. Moved("leave", "done")
      BY <2>7 DEF Leave, Return, Goto
    <3>2. QueuedBy(-1)
      <4>1. stats.queuedTasks - 1 = stats.queuedTasks + (-1)
        BY <1>1 DEF Counters
      <4>2. QED
        BY <2>7, <4>1 DEF Leave
    <3>3. QED
      BY <3>1, <3>2
  <2>8. QED
    BY <2>1, <2>2, <2>3, <2>4, <2>5, <2>6, <2>7
<1>4. (IsGauged(c)' <=> IsGauged(c)) /\ (IsGauged(c) => assigned'[c] = assigned[c])
  <2>1. CASE Leave(c) \/ HitSuccess(c)
    BY <1>1, <2>1 DEF Leave, HitSuccess, Return, Goto, IsGauged, DialsBooked
  <2>2. CASE ~(Leave(c) \/ HitSuccess(c))
    <3>1. assigned' = assigned
      BY <2>2 DEF Enter, CompileEnter, BuildCacheHit, BuildCacheMiss, NoWorkerAvailable,
           NoWorkerFailed, CountActive, CountTotal, CountOutcome, Retire, Tally
    <3>2. QED
      BY <1>1, <1>3, <3>1 DEF IsGauged, DialsBooked
  <2>3. QED
    BY <2>1, <2>2
<1>5. {stats.activeTasks, stats.queuedTasks, stats.totalTasks, stats.successTasks,
       stats.failedTasks} \subseteq Int
  BY <1>1 DEF Counters
<1>6. /\ stats' \in Counters
      /\ stats'.activeTasks = stats.activeTasks + One(IsActive(c)') - One(IsActive(c))
      /\ stats'.queuedTasks = stats.queuedTasks + One(IsQueued(c)') - One(IsQueued(c))
      /\ stats'.totalTasks - stats'.successTasks - stats'.failedTasks
           = stats.totalTasks - stats.successTasks - stats.failedTasks
               + One(IsOpen(c)') - One(IsOpen(c))
  <2>1. CASE Moved("idle", "select") /\ QueuedBy(1)
    <3>1. (IsActive(c)' <=> IsActive(c)) /\ ~IsQueued(c) /\ IsQueued(c)' /\ (IsOpen(c)' <=> IsOpen(c))
      BY <1>1, <2>1 DEF IsActive, IsQueued, IsOpen, DialsBooked, InFlight
    <3>2. /\ stats' \in Counters /\ stats'.activeTasks = stats.activeTasks /\ stats'.queuedTasks = stats.queuedTasks + 1
          /\ stats'.totalTasks = stats.totalTasks
          /\ stats'.successTasks = stats.successTasks /\ stats'.failedTasks = stats.failedTasks
      BY <1>1, <2>1, QueuedMoves
    <3>3. QED
      BY <1>5, <3>1, <3>2 DEF One
  <2>2. CASE Moved("leave", "done") /\ QueuedBy(-1)
    <3>1. (IsActive(c)' <=> IsActive(c)) /\ IsQueued(c) /\ ~IsQueued(c)' /\ (IsOpen(c)' <=> IsOpen(c))
      BY <1>1, <2>2 DEF IsActive, IsQueued, IsOpen, DialsBooked, InFlight
    <3>2. /\ stats' \in Counters /\ stats'.activeTasks = stats.activeTasks /\ stats'.queuedTasks = stats.queuedTasks + (-1)
          /\ stats'.totalTasks = stats.totalTasks
          /\ stats'.successTasks = stats.successTasks /\ stats'.failedTasks = stats.failedTasks
      BY <1>1, <2>2, QueuedMoves
    <3>3. QED
      BY <1>5, <3>1, <3>2 DEF One
  <2>3. CASE Moved("count", "total") /\ ActiveBy(1)
    <3>1. ~IsActive(c) /\ IsActive(c)' /\ (IsQueued(c)' <=> IsQueued(c)) /\ (IsOpen(c)' <=> IsOpen(c))
      BY <1>1, <2>3 DEF IsActive, IsQueued, IsOpen, DialsBooked, InFlight
    <3>2. /\ stats' \in Counters /\ stats'.activeTasks = stats.activeTasks + 1 /\ stats'.queuedTasks = stats.queuedTasks
          /\ stats'.totalTasks = stats.totalTasks
          /\ stats'.successTasks = stats.successTasks /\ stats'.failedTasks = stats.failedTasks
      BY <1>1, <2>3, ActiveMoves
    <3>3. QED
      BY <1>5, <3>1, <3>2 DEF One
  <2>4. CASE Moved("retire", "ungauge") /\ ActiveBy(-1)
    <3>1. IsActive(c) /\ ~IsActive(c)' /\ (IsQueued(c)' <=> IsQueued(c)) /\ (IsOpen(c)' <=> IsOpen(c))
      BY <1>1, <2>4 DEF IsActive, IsQueued, IsOpen, DialsBooked, InFlight
    <3>2. /\ stats' \in Counters /\ stats'.activeTasks = stats.activeTasks + (-1) /\ stats'.queuedTasks = stats.queuedTasks
          /\ stats'.totalTasks = stats.totalTasks
          /\ stats'.successTasks = stats.successTasks /\ stats'.failedTasks = stats.failedTasks
      BY <1>1, <2>4, ActiveMoves
    <3>3. QED
      BY <1>5, <3>1, <3>2 DEF One
  <2>5. CASE \/ Moved("idle", "hit") /\ OneMore
             \/ Moved("select", "nofail") /\ OneMore
             \/ Moved("total", "gauge") /\ OneMore
    <3>1. (IsActive(c)' <=> IsActive(c)) /\ (IsQueued(c)' <=> IsQueued(c)) /\ ~IsOpen(c) /\ IsOpen(c)'
      BY <1>1, <2>5 DEF IsActive, IsQueued, IsOpen, DialsBooked, InFlight
    <3>2. /\ stats' \in Counters /\ stats'.activeTasks = stats.activeTasks /\ stats'.queuedTasks = stats.queuedTasks
          /\ stats'.totalTasks = stats.totalTasks + 1
          /\ stats'.successTasks = stats.successTasks /\ stats'.failedTasks = stats.failedTasks
      BY <1>1, <2>5, TotalMoves
    <3>3. QED
      BY <1>5, <3>1, <3>2 DEF One
  <2>6. CASE \/ Moved("hit", "done") /\ Ended
             \/ Moved("nofail", "leave") /\ Ended
             \/ Moved("finish", IF IsBuild(c) THEN "store" ELSE "retire") /\ Ended
    <3>1. (IsActive(c)' <=> IsActive(c)) /\ (IsQueued(c)' <=> IsQueued(c)) /\ IsOpen(c) /\ ~IsOpen(c)'
      BY <1>1, <2>6 DEF IsActive, IsQueued, IsOpen, DialsBooked, InFlight
    <3>2. /\ stats' \in Counters /\ stats'.activeTasks = stats.activeTasks /\ stats'.queuedTasks = stats.queuedTasks
          /\ stats'.totalTasks = stats.totalTasks
          /\ stats'.successTasks + stats'.failedTasks = stats.successTasks + stats.failedTasks + 1
      BY <1>1, <2>6, OutcomeMoves
    <3>3. QED
      BY <1>5, <3>1, <3>2 DEF One, Counters
  <2>7. CASE Moved("select", "leave") /\ stats' = stats
    <3>1. (IsActive(c)' <=> IsActive(c)) /\ (IsQueued(c)' <=> IsQueued(c)) /\ (IsOpen(c)' <=> IsOpen(c))
      BY <1>1, <2>7 DEF IsActive, IsQueued, IsOpen, DialsBooked, InFlight
    <3>2. QED
      BY <1>1, <1>5, <2>7, <3>1 DEF One
  <2>8. QED
    BY <1>3, <2>1, <2>2, <2>3, <2>4, <2>5, <2>6, <2>7
<1>7. \A w \in Workers :
        byWorker'[w] = byWorker[w] + One(IsGauged(c)' /\ assigned'[c] = w)
                                   - One(IsGauged(c) /\ assigned[c] = w)
  BY <1>1, <1>2, <1>4 DEF One
<1>8. \A d \in Calls \ {c} : pc'[d] = pc[d] /\ assigned'[d] = assigned[d]
  BY <1>1, <1>2, <1>3
<1>9. QED
  BY <1>1, <1>6, <1>7, <1>8, HandlerCounts

(* The gauge of the handler's worker, up and down. *)
LEMMA GaugeCounts ==
  ASSUME IInv, CountersExact, NEW c \in Calls, CountByWorker(c) \/ Ungauge(c)
  PROVE  CountersExact'
<1>1. /\ pc \in [Calls -> PC] /\ stats \in Counters /\ byWorker \in [Workers -> Int]
      /\ pc[c] \in {"gauge", "ungauge"} /\ assigned' = assigned /\ stats' = stats
  BY DEF IInv, TypeOK, CountByWorker, Ungauge
<1>2. PICK v \in Workers : v = assigned[c]
  BY <1>1 DEF IInv, Placement, Placed
<1>3. \A d \in Calls \ {c} : pc'[d] = pc[d] /\ assigned'[d] = assigned[d]
  BY <1>1 DEF CountByWorker, Ungauge, Goto
<1>4. /\ IsActive(c)' <=> IsActive(c)
      /\ IsQueued(c)' <=> IsQueued(c)
      /\ IsOpen(c)' <=> IsOpen(c)
  BY <1>1 DEF CountByWorker, Ungauge, Goto, IsActive, IsQueued, IsOpen, DialsBooked,
              InFlight, IsBuild
<1>5. /\ stats'.activeTasks = stats.activeTasks + One(IsActive(c)') - One(IsActive(c))
      /\ stats'.queuedTasks = stats.queuedTasks + One(IsQueued(c)') - One(IsQueued(c))
      /\ stats'.totalTasks - stats'.successTasks - stats'.failedTasks
           = stats.totalTasks - stats.successTasks - stats.failedTasks
               + One(IsOpen(c)') - One(IsOpen(c))
  BY <1>1, <1>4 DEF One, Counters
<1>6. \A w \in Workers :
        byWorker'[w] = byWorker[w] + One(IsGauged(c)' /\ assigned'[c] = w)
                                   - One(IsGauged(c) /\ assigned[c] = w)
  <2>1. CASE CountByWorker(c)
    <3>1. ~IsGauged(c) /\ IsGauged(c)'
      BY <1>1, <2>1 DEF CountByWorker, Goto, IsGauged, DialsBooked, IsBuild
    <3>2. byWorker' = [byWorker EXCEPT ![v] = byWorker[v] + 1]
      BY <1>2, <2>1 DEF CountByWorker
    <3>3. QED
      BY <1>1, <1>2, <3>1, <3>2 DEF One
  <2>2. CASE Ungauge(c)
    <3>1. IsGauged(c) /\ ~IsGauged(c)'
      BY <1>1, <2>2 DEF Ungauge, Goto, IsGauged, DialsBooked
    <3>2. byWorker' = [byWorker EXCEPT ![v] = byWorker[v] - 1]
      BY <1>2, <2>2 DEF Ungauge
    <3>3. QED
      BY <1>1, <1>2, <3>1, <3>2 DEF One
  <2>3. QED
    BY <2>1, <2>2
<1>7. QED
  BY <1>1, <1>3, <1>5, <1>6, HandlerCounts

(* No handler moves and no counter changes. *)
LEMMA QuietCounts ==
  ASSUME CountersExact, UNCHANGED <<pc, assigned, stats, byWorker>>
  PROVE  CountersExact'
<1>1. \A c \in Calls : /\ IsActive(c)' <=> IsActive(c)
                       /\ IsQueued(c)' <=> IsQueued(c)
                       /\ IsOpen(c)' <=> IsOpen(c)
                       /\ IsGauged(c)' <=> IsGauged(c)
  BY DEF IsActive, IsQueued, IsOpen, IsGauged, DialsBooked
<1>2. /\ {c \in Calls : IsActive(c)}' = {c \in Calls : IsActive(c)}
      /\ {c \in Calls : IsQueued(c)}' = {c \in Calls : IsQueued(c)}
      /\ {c \in Calls : IsOpen(c)}' = {c \in Calls : IsOpen(c)}
      /\ \A w \in Workers : Gauged(w)' = Gauged(w)
  BY <1>1 DEF Gauged
<1>3. QED
  BY <1>2 DEF CountersExact

(* A restart forgets the counters together with the handlers. *)
LEMMA RestartCounts ==
  ASSUME IInv, CoordinatorRestarts
  PROVE  CountersExact'
<1>1. \A c \in Calls : pc'[c] \in {"idle", "done", "aborted"}
  BY DEF IInv, TypeOK, PC, CoordinatorRestarts
<1>2. stats' = NoCounts /\ \A w \in Workers : byWorker'[w] = 0
  BY DEF CoordinatorRestarts
<1>3. /\ {c \in Calls : IsActive(c)}' = {} /\ {c \in Calls : IsQueued(c)}' = {}
      /\ {c \in Calls : IsOpen(c)}' = {} /\ \A w \in Workers : Gauged(w)' = {}
  BY <1>1 DEF IsActive, IsQueued, IsOpen, IsGauged, Gauged, DialsBooked, InFlight
<1>4. /\ stats'.activeTasks = 0 /\ stats'.queuedTasks = 0
      /\ stats'.totalTasks = 0 /\ stats'.successTasks = 0 /\ stats'.failedTasks = 0
  BY <1>2 DEF NoCounts
<1>5. QED
  BY <1>2, <1>3, <1>4, FS_EmptySet DEF CountersExact

(* Every step keeps the counters of the server exact. *)
LEMMA StepCounts ==
  ASSUME IInv, CountersExact, [Next]_vars
  PROVE  CountersExact'
<1>1. ASSUME NEW c \in Calls, Enter(c) \/ HandlerStep(c) \/ ConnectionLost(c)
      PROVE  CountersExact'
  BY <1>1, PassingCounts, TallyCounts, GaugeCounts DEF HandlerStep
<1>2. ASSUME NEW c \in Calls, ClientGivesUp(c) PROVE CountersExact'
  BY <1>2, QuietCounts DEF ClientGivesUp
<1>3. ASSUME NEW w \in Workers,
             \/ WorkerRegisters(w) \/ Heartbeat(w) \/ HeartbeatLost(w)
             \/ WorkerStep(w) \/ WorkerStops(w)
      PROVE  CountersExact'
  BY <1>3, QuietCounts DEF WorkerRegisters, Heartbeat, HeartbeatLost, WorkerStep,
                           WorkerStops, coordVars
<1>4. CASE Cleanup \/ UNCHANGED vars
  BY <1>4, QuietCounts DEF Cleanup, vars, coordVars
<1>5. CASE CoordinatorRestarts
  BY <1>5, RestartCounts
<1>6. QED
  BY <1>1, <1>2, <1>3, <1>4, <1>5 DEF Next

(* At every moment one of the server's counters can be read the gauges of  *)
(* active and queued tasks and of tasks per worker are the numbers of      *)
(* handlers inside the code they bracket, and the tasks begun are those    *)
(* ended and those whose handler is on its way to count them.              *)
THEOREM CountersAreExact == Spec => []CountersExact
<1>1. Init => CountersExact
  <2> SUFFICES ASSUME Init PROVE CountersExact
    OBVIOUS
  <2>1. /\ {c \in Calls : IsActive(c)} = {} /\ {c \in Calls : IsQueued(c)} = {}
        /\ {c \in Calls : IsOpen(c)} = {} /\ \A w \in Workers : Gauged(w) = {}
    BY DEF Init, IsActive, IsQueued, IsOpen, IsGauged, Gauged, DialsBooked, InFlight
  <2>2. /\ stats.activeTasks = 0 /\ stats.queuedTasks = 0
        /\ stats.totalTasks = 0 /\ stats.successTasks = 0 /\ stats.failedTasks = 0
        /\ \A w \in Workers : byWorker[w] = 0
    BY DEF Init, NoCounts
  <2>3. QED
    BY <2>1, <2>2, FS_EmptySet DEF CountersExact
<1>2. IInv /\ CountersExact /\ [Next]_vars => CountersExact'
  BY StepCounts
<1>3. QED
  BY <1>1, <1>2, Invariance, PTL DEF Spec

=============================================================================
