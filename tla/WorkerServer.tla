---------------------------- MODULE WorkerServer ----------------------------
(***************************************************************************)
(* The gRPC server of a worker and the life of its process                 *)
(* (internal/worker/server/grpc.go, cmd/hg-worker/main.go).                *)
(*                                                                         *)
(* A request counts itself in activeTasks before it looks at the limit and *)
(* uncounts itself when its handler returns, so a request that is being    *)
(* refused still occupies the counter for a moment.                        *)
(***************************************************************************)
EXTENDS Grid

CONSTANT MaxConcurrent    \* [Workers -> Nat], --max-parallel of each worker

ASSUME MaxConcurrentAssumption == MaxConcurrent \in [Workers -> Nat \ {0}]

VARIABLES
  proc,         \* [Workers -> ProcState], the hg-worker process
  inbox,        \* [Workers -> SUBSET Calls], requests on the wire to it
  activeTasks,  \* [Workers -> Int], the atomic counter Server.activeTasks
  running,      \* [Workers -> SUBSET Calls], handlers inside the executor
  refusing,     \* [Workers -> SUBSET Calls], handlers over the limit
  served,       \* [Workers -> [total, success, failed : Nat]]
  reply         \* [Calls -> Reply], what came back over the connection

workerVars == <<proc, inbox, activeTasks, running, refusing, served, reply>>

ProcState == {"down", "starting", "up", "draining"}
Reply     == {"none", "ok", "fail", "error"}

NothingServed == [total |-> 0, success |-> 0, failed |-> 0]

WorkerTypeOK ==
  /\ proc \in [Workers -> ProcState]
  /\ inbox \in [Workers -> SUBSET Calls]
  /\ activeTasks \in [Workers -> Int]
  /\ running \in [Workers -> SUBSET Calls]
  /\ refusing \in [Workers -> SUBSET Calls]
  /\ served \in [Workers -> [total : Nat, success : Nat, failed : Nat]]
  /\ reply \in [Calls -> Reply]

WorkerInit ==
  /\ proc = [w \in Workers |-> "down"]
  /\ inbox = [w \in Workers |-> {}]
  /\ activeTasks = [w \in Workers |-> 0]
  /\ running = [w \in Workers |-> {}]
  /\ refusing = [w \in Workers |-> {}]
  /\ served = [w \in Workers |-> NothingServed]
  /\ reply = [c \in Calls |-> "none"]

-----------------------------------------------------------------------------
(* Request handlers *)

(* Server.Build serves Flutter only: a Unity build is turned away before   *)
(* it is counted.                                                          *)
RejectUnimplemented(w, c) ==
  /\ proc[w] = "up" /\ c \in inbox[w]
  /\ Kind[c] = "unity"
  /\ inbox' = [inbox EXCEPT ![w] = @ \ {c}]
  /\ reply' = [reply EXCEPT ![c] = "error"]
  /\ UNCHANGED <<proc, activeTasks, running, refusing, served>>

(* Mutant of Admit: the limit is compared with the count before the        *)
(* request was added.                                                      *)
AdmitOneMore(w, c) ==
  /\ proc[w] = "up" /\ c \in inbox[w]
  /\ Kind[c] # "unity"
  /\ inbox' = [inbox EXCEPT ![w] = @ \ {c}]
  /\ activeTasks' = [activeTasks EXCEPT ![w] = @ + 1]
  /\ \/ /\ activeTasks[w] <= MaxConcurrent[w]
        /\ running' = [running EXCEPT ![w] = @ \cup {c}]
        /\ served' = [served EXCEPT ![w].total = @ + 1]
        /\ UNCHANGED refusing
     \/ /\ activeTasks[w] > MaxConcurrent[w]
        /\ refusing' = [refusing EXCEPT ![w] = @ \cup {c}]
        /\ UNCHANGED <<running, served>>
  /\ UNCHANGED <<proc, reply>>

(* active := AddInt64(&activeTasks, 1), then the comparison with the limit *)
Admit(w, c) ==
  /\ proc[w] = "up" /\ c \in inbox[w]
  /\ Kind[c] # "unity"
  /\ inbox' = [inbox EXCEPT ![w] = @ \ {c}]
  /\ activeTasks' = [activeTasks EXCEPT ![w] = @ + 1]
  /\ \/ /\ activeTasks[w] + 1 <= MaxConcurrent[w]
        /\ running' = [running EXCEPT ![w] = @ \cup {c}]
        /\ served' = [served EXCEPT ![w].total = @ + 1]
        /\ UNCHANGED refusing
     \/ /\ activeTasks[w] + 1 > MaxConcurrent[w]
        /\ refusing' = [refusing EXCEPT ![w] = @ \cup {c}]
        /\ UNCHANGED <<running, served>>
  /\ UNCHANGED <<proc, reply>>

(* Mutant of RejectExhausted: the early return skips the decrement. *)
RejectLeaksSlot(w, c) ==
  /\ c \in refusing[w]
  /\ refusing' = [refusing EXCEPT ![w] = @ \ {c}]
  /\ reply' = [reply EXCEPT ![c] = "error"]
  /\ UNCHANGED <<proc, inbox, activeTasks, running, served>>

(* ResourceExhausted, then the deferred decrement *)
RejectExhausted(w, c) ==
  /\ c \in refusing[w]
  /\ refusing' = [refusing EXCEPT ![w] = @ \ {c}]
  /\ activeTasks' = [activeTasks EXCEPT ![w] = @ - 1]
  /\ reply' = [reply EXCEPT ![c] = "error"]
  /\ UNCHANGED <<proc, inbox, running, served>>

(* The executor returns: success, a failing compiler, an execution error   *)
(* or its timeout.  The caller may have given up already; the handler ends *)
(* all the same and nobody reads the reply.                                *)
FinishTask(w, c, success) ==
  /\ c \in running[w]
  /\ running' = [running EXCEPT ![w] = @ \ {c}]
  /\ activeTasks' = [activeTasks EXCEPT ![w] = @ - 1]
  /\ served' = IF success THEN [served EXCEPT ![w].success = @ + 1]
                          ELSE [served EXCEPT ![w].failed = @ + 1]
  /\ reply' = [reply EXCEPT ![c] = IF success THEN "ok" ELSE "fail"]
  /\ UNCHANGED <<proc, inbox, refusing>>

-----------------------------------------------------------------------------
(* The process.  Registration (Handshake) precedes Start, so the           *)
(* coordinator knows a worker that does not listen yet.                    *)

StartProcess(w) ==
  /\ proc[w] = "down"
  /\ proc' = [proc EXCEPT ![w] = "starting"]
  /\ UNCHANGED <<inbox, activeTasks, running, refusing, served, reply>>

Listen(w) ==
  /\ proc[w] = "starting"
  /\ proc' = [proc EXCEPT ![w] = "up"]
  /\ UNCHANGED <<inbox, activeTasks, running, refusing, served, reply>>

(* SIGTERM: heartbeats stop and GracefulStop lets running handlers finish; *)
(* requests it has not accepted come back as Unavailable.                  *)
Drain(w) ==
  /\ proc[w] = "up"
  /\ proc' = [proc EXCEPT ![w] = "draining"]
  /\ inbox' = [inbox EXCEPT ![w] = {}]
  /\ reply' = [c \in Calls |-> IF c \in inbox[w] THEN "error" ELSE reply[c]]
  /\ UNCHANGED <<activeTasks, running, refusing, served>>

(* The end of the process, after a drain or by a crash at any moment.      *)
(* Whatever was on the wire or in a handler comes back as a broken         *)
(* connection.                                                             *)
Terminate(w) ==
  /\ proc[w] # "down"
  /\ proc' = [proc EXCEPT ![w] = "down"]
  /\ inbox' = [inbox EXCEPT ![w] = {}]
  /\ running' = [running EXCEPT ![w] = {}]
  /\ refusing' = [refusing EXCEPT ![w] = {}]
  /\ activeTasks' = [activeTasks EXCEPT ![w] = 0]
  /\ served' = [served EXCEPT ![w] = NothingServed]
  /\ reply' = [c \in Calls |->
                 IF c \in inbox[w] \cup running[w] \cup refusing[w]
                 THEN "error" ELSE reply[c]]

-----------------------------------------------------------------------------
(* The worker never has more tasks inside its executor than --max-parallel *)
(* allows, whatever the coordinator sends it (Server.Compile and           *)
(* Server.Build count first and check afterwards, without a lock).         *)
AdmissionBound == \A w \in Workers : Cardinality(running[w]) <= MaxConcurrent[w]

(* The counter HealthCheck reports and admission trusts is exactly the     *)
(* number of handlers between their increment and their deferred           *)
(* decrement: no early return leaks a slot.                                *)
ActiveTasksExact ==
  \A w \in Workers :
    /\ activeTasks[w] = Cardinality(running[w]) + Cardinality(refusing[w])
    /\ served[w].total = served[w].success + served[w].failed
                           + Cardinality(running[w])

=============================================================================
