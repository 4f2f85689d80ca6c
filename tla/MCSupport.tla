----------------------------- MODULE MCSupport ------------------------------
(* Small instances of the components around the compile service.  They     *)
(* share no state, so a behaviour moves one of them, its focus, and leaves *)
(* the others where they start.                                            *)
EXTENDS CacheStore, DashboardHub, Learners, Resilience, Executors, Discovery,
        ServiceControl

VARIABLE focus

vars == <<focus, cacheVars, hubVars, learnVars, resilienceVars, execVars,
          discoveryVars, serviceVars>>

MCKeySize == [k \in Keys |-> IF k = "a" THEN 2 ELSE 3]
MCTaskOf == [d \in Dispatches |-> IF d = "d3" THEN "t2" ELSE "t1"]
MCRewards == {-1, 0}
MCIdOf == [t \in ExecTasks |-> "id"]
MCGrpcPort == [c \in Coords |-> 9000]
MCHttpPort == [c \in Coords |-> 8080]

\* The requests two concurrent executor calls carry.
Cpp == [entry |-> "request", build |-> "cpp", os |-> "", raw |-> FALSE,
        arch |-> "native", cl |-> FALSE, flaw |-> "none"]
CrossCompile == [Cpp EXCEPT !.os = "other", !.raw = TRUE, !.arch = "foreign"]
Msvc == [Cpp EXCEPT !.entry = "compiler", !.cl = TRUE]
Flutter == [Cpp EXCEPT !.build = "flutter"]
Unity == [Cpp EXCEPT !.build = "unity"]
Load(a, b) == [t \in ExecTasks |-> IF t = "x1" THEN a ELSE b]
MCWorkLoads ==
  {Load(Cpp, Cpp), Load(CrossCompile, CrossCompile), Load(Flutter, Unity),
   Load(Msvc, [Flutter EXCEPT !.flaw = "config"]),
   Load(Flutter, [Flutter EXCEPT !.flaw = "options"])}

Foci == {"cache", "hub", "learners", "circuit", "retry", "executors", "finder",
         "browser", "coord", "worker"}

\* A component whose state has several initial values keeps one of them while
\* another component is the focus.
Init ==
  /\ focus \in Foci
  /\ CacheInit /\ HubInit /\ LearnInit /\ ResilienceInit /\ ExecInit
  /\ DiscoveryInit /\ ServiceInit
  /\ focus # "learners" => algorithm = "epsilon"
  /\ focus # "executors" => request = Load(Cpp, Cpp)
  /\ focus # "finder" =>
       setting = [f \in Finders |-> [program |-> "worker", flag |-> TRUE, env |-> TRUE]]

Cache == focus = "cache" /\ CacheNext
         /\ UNCHANGED <<focus, hubVars, learnVars, resilienceVars, execVars,
                        discoveryVars, serviceVars>>
Hub == focus = "hub" /\ HubNext
       /\ UNCHANGED <<focus, cacheVars, learnVars, resilienceVars, execVars,
                      discoveryVars, serviceVars>>
Learning == focus = "learners" /\ LearnNext
            /\ UNCHANGED <<focus, cacheVars, hubVars, resilienceVars, execVars,
                           discoveryVars, serviceVars>>
Resilient == ((focus = "circuit" /\ CircuitNext) \/ (focus = "retry" /\ RetryNext))
             /\ UNCHANGED <<focus, cacheVars, hubVars, learnVars, execVars,
                            discoveryVars, serviceVars>>
Executing == focus = "executors" /\ ExecNext
             /\ UNCHANGED <<focus, cacheVars, hubVars, learnVars, resilienceVars,
                            discoveryVars, serviceVars>>
Discovering == ((focus = "finder" /\ FinderNext) \/ (focus = "browser" /\ BrowserNext))
               /\ UNCHANGED <<focus, cacheVars, hubVars, learnVars, resilienceVars,
                              execVars, serviceVars>>
Controlling == (\E s \in Services : focus = s /\ ServiceActs(s))
               /\ UNCHANGED <<focus, cacheVars, hubVars, learnVars, resilienceVars,
                              execVars, discoveryVars>>

Next == Cache \/ Hub \/ Learning \/ Resilient \/ Executing \/ Discovering
        \/ Controlling

\* The fairness of the components, each for the behaviours it is the focus of.
Fairness ==
  /\ \A v \in Viewers :
       /\ WF_hubVars(focus = "hub" /\ ~crashed /\ HubUnregister(v))
       /\ WF_hubVars(focus = "hub" /\ ~crashed /\ ReadError(v))
       /\ WF_hubVars(focus = "hub" /\ ~crashed /\ WritePump(v))
  /\ \A t \in ExecTasks :
       /\ WF_execVars(focus = "executors" /\ ExecutorStep(t))
       /\ WF_execVars(focus = "executors" /\ DeadlinePasses(t))
  /\ \A f \in Finders :
       /\ WF_finderVars(focus = "finder" /\ SearchStep(f))
       /\ WF_finderVars(focus = "finder" /\ SearchDeadline(f))
  /\ \A s \in Services : WF_serviceVars(focus = s /\ ServiceStep(s))

Spec == Init /\ [][Next]_vars
FairSpec == Spec /\ Fairness

\* The state of every supporting component keeps its types.
TypesOK ==
  /\ CacheTypeOK /\ HubTypeOK /\ LearnTypeOK /\ ResilienceTypeOK /\ ExecTypeOK
  /\ DiscoveryTypeOK /\ ServiceTypeOK

\* What waits is not left waiting: an executor call ends by its tool or its
\* deadline, a search for a coordinator ends with an address or without, a
\* service that must stop stops, and the hub forgets a viewer that is gone.
WorkEnds == TaskEnds /\ SearchEnds /\ ServiceStops /\ GoneViewersForgotten

=============================================================================
