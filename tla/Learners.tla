------------------------------ MODULE Learners ------------------------------
(***************************************************************************)
(* The schedulers that learn (internal/coordinator/scheduler): epsilon-    *)
(* greedy keeps a running mean reward per worker, LinUCB a linear model    *)
(* per worker fed with the feature vector of the dispatch, HEFT a moving   *)
(* average of compile times.  The Compile handler selects with the         *)
(* learner, forwards the task and reports the outcome; many handlers run   *)
(* at the same time, and a client that retries reuses its task identifier. *)
(*                                                                         *)
(* Rewards are integers scaled by Unit so that the running mean is exact:  *)
(* rounding, which float64 has, is not part of the model.                  *)
(* A feature vector is named by the dispatch it was built for; which of    *)
(* the candidates scores best is left open.                                *)
(***************************************************************************)
EXTENDS Integers, FiniteSets, FiniteSetsExt, Functions

CONSTANTS
  Arms,        \* workers
  Dispatches,  \* Compile calls that reach the scheduler
  TaskOf,      \* [Dispatches -> task identifiers]; a retry repeats one
  Parallel,    \* MaxParallel of every worker
  Rewards,     \* possible rewards, unscaled
  Unit         \* the scale of the rewards

ASSUME LearnerAssumption ==
  /\ Parallel \in Nat \ {0}
  /\ DOMAIN TaskOf = Dispatches
  /\ Rewards \subseteq Int
  /\ IsFiniteSet(Dispatches)
  \* The divisions of a running mean of so many samples have no remainder.
  /\ Unit \in Nat \ {0}
  /\ \A n \in 1 .. Cardinality(Dispatches) - 1 :
       \E k \in 1 .. Unit : Unit = k * n * (n + 1)

Tasks == Range(TaskOf)
None == "none"

VARIABLES
  algorithm,   \* Config.SchedulerType: "epsilon", "linucb" or "heft"
  dpc,         \* [Dispatches -> where the handler stands]
  on,          \* [Dispatches -> the worker chosen]
  values,      \* epsilon-greedy: [Arms -> [q, n]]
  pendingX,    \* LinUCB: [task identifiers -> dispatch whose x is cached]
  arms,        \* LinUCB: [Arms -> number of updates]
  wbar,        \* HEFT: [Arms -> what the estimate was made from]
  \* History, for the properties only.
  rewarded     \* [Arms -> set of <<dispatch, reward>> reported]

learnState == <<values, pendingX, arms, wbar>>
learnVars == <<algorithm, dpc, on, values, pendingX, arms, wbar, rewarded>>

LearnTypeOK ==
  /\ algorithm \in {"epsilon", "linucb", "heft"}
  /\ dpc \in [Dispatches -> {"new", "selected", "running", "done"}]
  /\ on \in [Dispatches -> Arms \cup {None}]
  /\ values \in [Arms -> [q : Int, n : 0..Cardinality(Dispatches)]]
  /\ pendingX \in [Tasks -> Dispatches \cup {None}]
  /\ arms \in [Arms -> 0..Cardinality(Dispatches)]
  /\ wbar \in [Arms -> SUBSET {"prior", "observed"}]
  /\ rewarded \in [Arms -> SUBSET (Dispatches \X Rewards)]

LearnInit ==
  /\ algorithm \in {"epsilon", "linucb", "heft"}
  /\ dpc = [d \in Dispatches |-> "new"]
  /\ on = [d \in Dispatches |-> None]
  /\ values = [a \in Arms |-> [q |-> 0, n |-> 0]]
  /\ pendingX = [t \in Tasks |-> None]
  /\ arms = [a \in Arms |-> 0]
  /\ wbar = [a \in Arms |-> {}]
  /\ rewarded = [a \in Arms |-> {}]

activeTasks(a) == Cardinality({d \in Dispatches : dpc[d] = "running" /\ on[d] = a})

\* eligibleWorkers, the same in all three: workers of the right kind that are
\* healthy, have a free slot and whose circuit is not open; when every such
\* worker's circuit is open, the circuits are ignored.
eligibleWorkers(listed, unhealthy, open) ==
  LET free == {a \in listed \ unhealthy : activeTasks(a) < Parallel}
  IN IF free \ open # {} THEN free \ open ELSE free

-----------------------------------------------------------------------------
(* SelectWithDispatchInfo of each scheduler, given the candidates and its  *)
(* choice a among them.                                                    *)

\* Exploration takes any candidate, otherwise one of highest q; an unknown
\* worker counts as 0, above every known one because rewards are negative.
EpsilonSelect(cands, a) ==
  /\ \E exploring \in BOOLEAN :
       exploring \/ \A b \in cands : values[b].q <= values[a].q
  /\ UNCHANGED learnState

\* The chosen worker's feature vector is cached under the task identifier,
\* except on the fast path for a single candidate.
LinUCBSelect(cands, d) ==
  /\ pendingX' = IF Cardinality(cands) = 1 THEN pendingX
                 ELSE [pendingX EXCEPT ![TaskOf[d]] = d]
  /\ UNCHANGED <<values, arms, wbar>>

\* A cold candidate gets a prior from its core count; the least finish time
\* wins.  A single candidate is taken without one.
HEFTSelect(cands) ==
  /\ wbar' = [b \in Arms |->
                IF b \in cands /\ Cardinality(cands) > 1 /\ wbar[b] = {}
                THEN {"prior"} ELSE wbar[b]]
  /\ UNCHANGED <<values, pendingX, arms>>

\* SelectWith in the Compile handler.
Dispatch(d) ==
  /\ dpc[d] = "new"
  /\ dpc' = [dpc EXCEPT ![d] = "selected"]
  /\ \E listed, unhealthy, open \in SUBSET Arms :
       LET cands == eligibleWorkers(listed, unhealthy, open)
       IN \E a \in cands :
            /\ on' = [on EXCEPT ![d] = a]
            /\ \/ algorithm = "epsilon" /\ EpsilonSelect(cands, a)
               \/ algorithm = "linucb" /\ LinUCBSelect(cands, d)
               \/ algorithm = "heft" /\ HEFTSelect(cands)
  /\ UNCHANGED <<algorithm, rewarded>>

\* No worker qualifies: the handler answers at once and reports nothing.
DispatchFails(d) ==
  /\ dpc[d] = "new"
  /\ dpc' = [dpc EXCEPT ![d] = "done"]
  /\ UNCHANGED <<algorithm, on, learnState, rewarded>>

\* IncrementTasks: only now does the load of the chosen worker show.
Book(d) ==
  /\ dpc[d] = "selected"
  /\ dpc' = [dpc EXCEPT ![d] = "running"]
  /\ UNCHANGED <<algorithm, on, learnState, rewarded>>

-----------------------------------------------------------------------------
(* RecordOutcome of each scheduler.                                        *)

\* The sample count is incremented after it was used.
StaleMean(st, r) == [q |-> IF st.n = 0 THEN r ELSE st.q + (r - st.q) \div st.n,
                     n |-> st.n + 1]
\* Q' = Q + (R - Q) / n with n already incremented.
RunningMean(st, r) == [q |-> st.q + (r - st.q) \div (st.n + 1), n |-> st.n + 1]

EpsilonRecord(d, reward) ==
  /\ values' = [values EXCEPT ![on[d]] = RunningMean(@, Unit * reward)]
  /\ UNCHANGED <<pendingX, arms, wbar>>

\* Outcomes leave the cached vector in place.
KeepPending(d) == pendingX
\* Outcomes consume the cached vector.
ConsumePending(d) == [pendingX EXCEPT ![TaskOf[d]] = None]

\* Without a cached vector the outcome is dropped; otherwise the vector is
\* consumed and the model of the worker that ran the task updated with it.
LinUCBRecord(d) ==
  /\ \/ /\ pendingX[TaskOf[d]] = None
        /\ UNCHANGED <<pendingX, arms>>
     \/ /\ pendingX[TaskOf[d]] # None
        /\ pendingX' = ConsumePending(d)
        /\ arms' = [arms EXCEPT ![on[d]] = @ + 1]
  /\ UNCHANGED <<values, wbar>>

\* The estimate follows the registry's average compile time, once it has one.
HEFTRecord(d) ==
  \E averaged \in BOOLEAN :
    /\ wbar' = IF averaged THEN [wbar EXCEPT ![on[d]] = @ \cup {"observed"}]
               ELSE wbar
    /\ UNCHANGED <<values, pendingX, arms>>

\* The handler after the worker's answer, an error or a timeout: DecrementTasks,
\* then the learner is told.
Outcome(d) ==
  /\ dpc[d] = "running"
  /\ dpc' = [dpc EXCEPT ![d] = "done"]
  /\ \E reward \in Rewards :
       /\ \/ algorithm = "epsilon" /\ EpsilonRecord(d, reward)
          \/ algorithm = "linucb" /\ LinUCBRecord(d)
          \/ algorithm = "heft" /\ HEFTRecord(d)
       /\ rewarded' = [rewarded EXCEPT ![on[d]] = @ \cup {<<d, reward>>}]
  /\ UNCHANGED <<algorithm, on>>

LearnNext ==
  \E d \in Dispatches : Dispatch(d) \/ DispatchFails(d) \/ Book(d) \/ Outcome(d)

LearnSpec == LearnInit /\ [][LearnNext]_learnVars

-----------------------------------------------------------------------------

\* pendingX does not leak: a cached vector always belongs to a call that has not
\* reported yet, also when calls share a task identifier and overwrite or consume
\* each other's vector.  So the wrong vector is used for an update only while a
\* call with the same identifier is under way.
PendingOwned ==
  \A t \in Tasks :
    pendingX[t] # None => dpc[pendingX[t]] \in {"selected", "running"}

RewardOf == [p \in Dispatches \X Rewards |-> p[2]]

\* The estimate of a worker is the mean of the rewards of exactly the tasks it
\* ran, in whatever order concurrent outcomes arrive.
MeanOfOwnRewards ==
  algorithm = "epsilon" =>
    \A a \in Arms :
      /\ values[a].n = Cardinality(rewarded[a])
      /\ values[a].q * values[a].n
           = Unit * SumFunctionOnSet(RewardOf, rewarded[a])

=============================================================================
