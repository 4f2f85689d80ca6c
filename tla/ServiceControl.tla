--------------------------- MODULE ServiceControl ---------------------------
(***************************************************************************)
(* The coordinator and the worker as Windows services                      *)
(* (cmd/hg-coord/service_windows.go, cmd/hg-worker/service_windows.go):    *)
(* installation, the Execute loop between the Service Control Manager and  *)
(* the server goroutines, and the clean-up.                                *)
(*                                                                         *)
(* The Service Control Manager is external: it starts an installed         *)
(* service, sends control requests to one that accepts them, and follows   *)
(* the recovery actions only when the process dies without having          *)
(* reported that it stopped.                                               *)
(***************************************************************************)
EXTENDS Integers, Sequences, SequencesExt, FiniteSets

CONSTANTS
  Services,     \* the services of this host, a subset of {"coord", "worker"}
  MaxControls,  \* bound on the control requests sent to a service
  MaxLives      \* bound on how often a service is started

ASSUME ServiceAssumption ==
  /\ Services \subseteq {"coord", "worker"}
  /\ MaxControls \in Nat /\ MaxLives \in Nat

VARIABLES
  installed,   \* the service is known to the SCM
  recovery,    \* its recovery actions are set
  spc,         \* where Execute stands
  status,      \* the state last sent on the changes channel
  parts,       \* what runs in the process
  serverErrs,  \* errCh, capacity 2
  control,     \* the control request on the channel r, "" when none
  stopAsked,   \* a stop or shutdown request was sent
  errno,       \* exit code of the service
  lives,       \* starts so far
  controls     \* control requests so far

serviceVars == <<installed, recovery, spc, status, parts, serverErrs, control,
                 stopAsked, errno, lives, controls>>

ServiceTypeOK ==
  /\ installed \in [Services -> BOOLEAN]
  /\ recovery \in [Services -> BOOLEAN]
  /\ spc \in [Services -> {"down", "client", "handshake", "launch", "announce",
                           "loop", "cleanup", "crashed"}]
  /\ status \in [Services -> {"stopped", "startpending", "running",
                              "stoppending"}]
  /\ parts \in [Services -> SUBSET {"client", "grpc", "http", "heartbeat", "mdns"}]
  /\ serverErrs \in [Services -> Seq({"grpc", "http"})]
  /\ \A s \in Services : Len(serverErrs[s]) <= 2
  /\ control \in [Services -> {"", "interrogate", "stop", "other"}]
  /\ stopAsked \in [Services -> BOOLEAN]
  /\ lives \in [Services -> Nat] /\ controls \in [Services -> Nat]
  /\ errno \in [Services -> 0..1]

ServiceInit ==
  /\ installed = [s \in Services |-> FALSE]
  /\ recovery = [s \in Services |-> FALSE]
  /\ spc = [s \in Services |-> "down"]
  /\ status = [s \in Services |-> "stopped"]
  /\ parts = [s \in Services |-> {}]
  /\ serverErrs = [s \in Services |-> <<>>]
  /\ control = [s \in Services |-> ""]
  /\ stopAsked = [s \in Services |-> FALSE]
  /\ errno = [s \in Services |-> 0]
  /\ lives = [s \in Services |-> 0]
  /\ controls = [s \in Services |-> 0]

Moves(s, from, to) == spc[s] = from /\ spc' = [spc EXCEPT ![s] = to]
Reports(s, state) == status' = [status EXCEPT ![s] = state]

-----------------------------------------------------------------------------
(* Installation. *)

\* installService refuses a second installation; CreateService is done before
\* SetRecoveryActions, whose failure is reported but not undone.
InstallService(s, recoverable) ==
  /\ ~installed[s]
  /\ installed' = [installed EXCEPT ![s] = TRUE]
  /\ recovery' = [recovery EXCEPT ![s] = recoverable]
  /\ UNCHANGED <<spc, status, parts, serverErrs, control, stopAsked, errno,
                 lives, controls>>

\* uninstallService; the SCM deletes the entry of a service that is down.
UninstallService(s) ==
  /\ installed[s] /\ spc[s] = "down"
  /\ installed' = [installed EXCEPT ![s] = FALSE]
  /\ recovery' = [recovery EXCEPT ![s] = FALSE]
  /\ UNCHANGED <<spc, status, parts, serverErrs, control, stopAsked, errno,
                 lives, controls>>

-----------------------------------------------------------------------------
(* Start. *)

\* runAsService and the head of Execute: the worker goes to its coordinator
\* first, the coordinator starts its servers right away.
ServiceStarts(s) ==
  /\ installed[s] /\ lives[s] < MaxLives
  /\ spc[s] = "down" \/ (spc[s] = "crashed" /\ recovery[s])
  /\ spc' = [spc EXCEPT ![s] = IF s = "worker" THEN "client" ELSE "launch"]
  /\ Reports(s, "startpending")
  /\ lives' = [lives EXCEPT ![s] = @ + 1]
  /\ errno' = [errno EXCEPT ![s] = 0]
  /\ stopAsked' = [stopAsked EXCEPT ![s] = FALSE]
  /\ UNCHANGED <<installed, recovery, parts, serverErrs, control, controls>>

\* The worker's connection to the coordinator.
ConnectCoordinator(s) ==
  /\ Moves(s, "client", "handshake")
  /\ parts' = [parts EXCEPT ![s] = @ \cup {"client"}]
  /\ UNCHANGED <<installed, recovery, status, serverErrs, control, stopAsked,
                 errno, lives, controls>>

\* Execute returns exit code 1; svc.Run reports the service stopped.
StartFails(s) ==
  /\ spc' = [spc EXCEPT ![s] = "down"]
  /\ Reports(s, "stopped")
  /\ errno' = [errno EXCEPT ![s] = 1]

ConnectFails(s) ==
  /\ spc[s] = "client"
  /\ StartFails(s)
  /\ UNCHANGED <<installed, recovery, parts, serverErrs, control, stopAsked,
                 lives, controls>>

HandshakeAccepted(s) ==
  /\ Moves(s, "handshake", "launch")
  /\ UNCHANGED <<installed, recovery, status, parts, serverErrs, control,
                 stopAsked, errno, lives, controls>>

\* The connection is not closed when the handshake fails.
RefusedUnclosed(s) ==
  /\ spc[s] = "handshake"
  /\ StartFails(s)
  /\ UNCHANGED <<installed, recovery, parts, serverErrs, control, stopAsked,
                 lives, controls>>

\* The handshake fails or the registration is rejected.
HandshakeRefused(s) ==
  /\ spc[s] = "handshake"
  /\ StartFails(s)
  /\ parts' = [parts EXCEPT ![s] = @ \ {"client"}]
  /\ UNCHANGED <<installed, recovery, serverErrs, control, stopAsked, lives,
                 controls>>

\* The coordinator's servers; the announcement may fail and is then left out.
LaunchCoordinator(s, mdns) ==
  /\ s = "coord" /\ Moves(s, "launch", "announce")
  /\ parts' = [parts EXCEPT ![s] = {"grpc", "http"} \cup
                                   IF mdns THEN {"mdns"} ELSE {}]
  /\ UNCHANGED <<installed, recovery, status, serverErrs, control, stopAsked,
                 errno, lives, controls>>

\* The worker's servers and its heartbeat.
LaunchWorker(s) ==
  /\ s = "worker" /\ Moves(s, "launch", "announce")
  /\ parts' = [parts EXCEPT ![s] = @ \cup {"grpc", "http", "heartbeat"}]
  /\ UNCHANGED <<installed, recovery, status, serverErrs, control, stopAsked,
                 errno, lives, controls>>

ReportRunning(s) ==
  /\ Moves(s, "announce", "loop")
  /\ Reports(s, "running")
  /\ UNCHANGED <<installed, recovery, parts, serverErrs, control, stopAsked,
                 errno, lives, controls>>

-----------------------------------------------------------------------------
(* The service loop. *)

\* A server goroutine ends with an error (port taken, listener broken) and
\* sends it to errCh.
ServerFails(s, part) ==
  /\ part \in parts[s] /\ part \in {"grpc", "http"}
  /\ Len(serverErrs[s]) < 2
  /\ parts' = [parts EXCEPT ![s] = @ \ {part}]
  /\ serverErrs' = [serverErrs EXCEPT ![s] = Append(@, part)]
  /\ UNCHANGED <<installed, recovery, spc, status, control, stopAsked, errno,
                 lives, controls>>

\* The SCM sends a request to a service that reported Running.
SendControl(s, c) ==
  /\ status[s] = "running" /\ control[s] = "" /\ spc[s] # "crashed"
  /\ controls[s] < MaxControls
  /\ control' = [control EXCEPT ![s] = c]
  /\ controls' = [controls EXCEPT ![s] = @ + 1]
  /\ stopAsked' = [stopAsked EXCEPT ![s] = @ \/ c = "stop"]
  /\ UNCHANGED <<installed, recovery, spc, status, parts, serverErrs, errno,
                 lives>>

\* Interrogate is answered with the current status, other requests are logged.
AnswerControl(s) ==
  /\ spc[s] = "loop" /\ control[s] \in {"interrogate", "other"}
  /\ control' = [control EXCEPT ![s] = ""]
  /\ UNCHANGED <<installed, recovery, spc, status, parts, serverErrs, stopAsked,
                 errno, lives, controls>>

\* Stop and Shutdown, or the first server error, end the loop.
LeaveLoop(s) ==
  /\ control[s] = "stop" \/ serverErrs[s] # <<>>
  /\ Moves(s, "loop", "cleanup")
  /\ Reports(s, "stoppending")
  /\ control' = [control EXCEPT ![s] = ""]
  /\ UNCHANGED <<installed, recovery, parts, serverErrs, stopAsked, errno,
                 lives, controls>>

\* What is shut down, in this order.
CleanupOrder(s) ==
  IF s = "coord" THEN <<"mdns", "http", "grpc">>
  ELSE <<"heartbeat", "http", "grpc", "client">>

\* The next part that still runs is shut down; after the last one Execute
\* returns exit code 0, also when a server error ended the loop.  The heartbeat
\* goroutine is only cancelled: it is taken as ended with that, since what it may
\* still do is one RPC on a client that is closed last.
CleanupStep(s) ==
  LET left == {i \in DOMAIN CleanupOrder(s) : CleanupOrder(s)[i] \in parts[s]}
  IN /\ spc[s] = "cleanup"
     /\ IF left # {}
        THEN /\ parts' = [parts EXCEPT ![s] = @ \ {CleanupOrder(s)[Min(left)]}]
             /\ UNCHANGED <<spc, status, serverErrs>>
        ELSE /\ spc' = [spc EXCEPT ![s] = "down"]
             /\ Reports(s, "stopped")
             /\ serverErrs' = [serverErrs EXCEPT ![s] = <<>>]
             /\ UNCHANGED parts
     /\ UNCHANGED <<installed, recovery, control, stopAsked, errno, lives,
                    controls>>

\* The process dies: everything in it is gone and nothing is reported.
ProcessDies(s) ==
  /\ spc[s] \notin {"down", "crashed"}
  /\ spc' = [spc EXCEPT ![s] = "crashed"]
  /\ parts' = [parts EXCEPT ![s] = {}]
  /\ serverErrs' = [serverErrs EXCEPT ![s] = <<>>]
  /\ control' = [control EXCEPT ![s] = ""]
  /\ UNCHANGED <<installed, recovery, status, stopAsked, errno, lives, controls>>

\* The steps of Execute.
ServiceStep(s) ==
  \/ ConnectCoordinator(s) \/ ConnectFails(s)
  \/ HandshakeAccepted(s) \/ HandshakeRefused(s)
  \/ LaunchWorker(s) \/ \E mdns \in BOOLEAN : LaunchCoordinator(s, mdns)
  \/ ReportRunning(s) \/ AnswerControl(s) \/ LeaveLoop(s) \/ CleanupStep(s)

ServiceActs(s) ==
  \/ \E r \in BOOLEAN : InstallService(s, r)
  \/ UninstallService(s) \/ ServiceStarts(s) \/ ServiceStep(s)
  \/ \E part \in {"grpc", "http"} : ServerFails(s, part)
  \/ \E c \in {"interrogate", "stop", "other"} : SendControl(s, c)
  \/ ProcessDies(s)

ServiceNext == \E s \in Services : ServiceActs(s)

ServiceSpec == ServiceInit /\ [][ServiceNext]_serviceVars

\* Execute goes on by itself.
ServiceFairness == \A s \in Services : WF_serviceVars(ServiceStep(s))

-----------------------------------------------------------------------------

\* What the SCM is told is true: a service reported as stopped has nothing left
\* running, on every path out of Execute, and one reported as running has its
\* servers up unless an error that will end it is on its way.
StatusTruthful ==
  \A s \in Services :
    /\ status[s] = "stopped" => parts[s] = {}
    /\ status[s] = "running" /\ spc[s] = "loop" =>
         {"grpc", "http"} \subseteq parts[s] \cup Range(serverErrs[s])

\* A service that was asked to stop, or one of whose servers failed, gets
\* there (or its process dies): the loop cannot be kept busy or miss the error.
ServiceStops ==
  \A s \in Services :
    (spc[s] = "loop" /\ (control[s] = "stop" \/ serverErrs[s] # <<>>))
      ~> spc[s] \in {"down", "crashed"}

=============================================================================
