------------------------------ MODULE Executors ------------------------------
(***************************************************************************)
(* What a worker does with an admitted task (internal/worker/executor):    *)
(* pick an executor, make a workspace, write the source into it, run the   *)
(* tool or a container until it exits or the deadline passes, collect the  *)
(* output, and unwind the deferred clean-ups in reverse order, on every    *)
(* path.  Tasks run concurrently in one process and one temporary          *)
(* directory; a retried task arrives under the identifier of the task that *)
(* may still be running.                                                   *)
(*                                                                         *)
(* What the tool prints and the options it is given are left out (the      *)
(* command lines are in CommandLines).                                     *)
(***************************************************************************)
EXTENDS Integers, Sequences, FiniteSets, FiniteSetsExt

CONSTANTS
  ExecTasks,      \* calls of Manager.Execute
  IdOf,           \* [ExecTasks -> task identifiers]; a retry repeats one
  WorkLoads,      \* the requests the calls may carry: a set of functions
  DockerArchs     \* architectures with a Docker image, {} without Docker

\* Request: entry is the Manager method that picks the executor.
ASSUME ExecAssumption ==
  /\ IsFiniteSet(ExecTasks)
  /\ WorkLoads \subseteq [ExecTasks ->
       [entry : {"request", "compiler"}, build : {"cpp", "flutter", "unity"},
        os : {"", "worker", "other"}, raw : BOOLEAN,
        arch : {"unspecified", "native", "foreign"}, cl : BOOLEAN,
        flaw : {"none", "config", "options"}]]

NoName == <<"none", "", 0>>
Nobody == "nobody"

VARIABLES
  xpc,         \* where the call stands
  request,     \* its request
  expired,     \* the deadline of its context has passed
  workDir,     \* its workspace
  workspaces,  \* the workspaces that exist: name -> who wrote source, output
  toolExit,    \* exit code of the tool or container, -1 when a signal ended it
  defers,      \* clean-ups deferred so far, the last one first to run
  held,        \* what the call has brought into being and not removed
  leaked,      \* clean-ups that failed (their errors are ignored)
  answer       \* Result, or "error"

execVars == <<xpc, request, expired, workDir, workspaces, toolExit, defers,
              held, leaked, answer>>

-----------------------------------------------------------------------------
(* The Manager's choice. *)

\* Manager.Select: foreign architectures go to Docker, if it has an image.
SelectExecutor(arch) ==
  IF arch = "foreign" /\ arch \in DockerArchs THEN "docker" ELSE "native"

\* Manager.SelectForRequest: mobile builds first, then raw source from another
\* operating system, then the architecture.
SelectForRequest(r) ==
  CASE r.build = "flutter" -> "flutter"
    [] r.build = "unity" -> "unity"
    [] OTHER -> IF r.os = "other" /\ r.raw /\ r.arch \in DockerArchs
                THEN "docker" ELSE SelectExecutor(r.arch)

\* Manager.SelectForCompiler: cl.exe goes to the MSVC executor (which handles
\* every architecture it has a target for; here all of them).
SelectForCompiler(r) == IF r.cl THEN "msvc" ELSE SelectExecutor(r.arch)

ExecutorOf(r) ==
  IF r.entry = "request" THEN SelectForRequest(r) ELSE SelectForCompiler(r)

Kind(t) == ExecutorOf(request[t])
Mobile(t) == Kind(t) \in {"flutter", "unity"}

-----------------------------------------------------------------------------

Names == {"native", "docker", "flutter", "unity", "msvc"}
           \X {IdOf[t] : t \in ExecTasks} \X (0..Cardinality(ExecTasks))

Unsuccessful(code, err) ==
  [success |-> FALSE, exit |-> code, from |-> Nobody, error |-> err]
NoAnswer == Unsuccessful(0, FALSE)

ExecTypeOK ==
  /\ xpc \in [ExecTasks -> {"new", "source", "hung", "image", "create", "start",
                            "pubget", "run", "exited", "unwind", "done"}]
  /\ request \in WorkLoads
  /\ expired \in [ExecTasks -> BOOLEAN]
  /\ workDir \in [ExecTasks -> Names \cup {NoName}]
  /\ DOMAIN workspaces \subseteq Names
  /\ \A n \in DOMAIN workspaces :
       workspaces[n] \in [source : ExecTasks \cup {Nobody},
                          output : ExecTasks \cup {Nobody}]
  /\ toolExit \in [ExecTasks -> -1..1]
  /\ defers \in [ExecTasks -> Seq({"dir", "container", "daemon"})]
  /\ held \in [ExecTasks -> SUBSET {"dir", "container", "daemon"}]
  /\ leaked \in [ExecTasks -> SUBSET {"dir", "container", "daemon"}]
  /\ answer \in [ExecTasks -> [success : BOOLEAN, exit : -1..1,
                               from : ExecTasks \cup {Nobody}, error : BOOLEAN]]

ExecInit ==
  /\ xpc = [t \in ExecTasks |-> "new"]
  /\ request \in WorkLoads
  /\ expired = [t \in ExecTasks |-> FALSE]
  /\ workDir = [t \in ExecTasks |-> NoName]
  /\ workspaces = <<>>
  /\ toolExit = [t \in ExecTasks |-> 0]
  /\ defers = [t \in ExecTasks |-> <<>>]
  /\ held = [t \in ExecTasks |-> {}]
  /\ leaked = [t \in ExecTasks |-> {}]
  /\ answer = [t \in ExecTasks |-> NoAnswer]

At(t, from, to) == xpc[t] = from /\ xpc' = [xpc EXCEPT ![t] = to]

\* return: the answer is fixed, the deferred calls run.
Returns(t, a) ==
  /\ xpc' = [xpc EXCEPT ![t] = "unwind"]
  /\ answer' = [answer EXCEPT ![t] = a]

ReturnsError(t) == Returns(t, Unsuccessful(0, TRUE))
TimedOut == Unsuccessful(-1, FALSE)
Failed(code) == Unsuccessful(code, FALSE)

Defer(t, cleanups) == defers' = [defers EXCEPT ![t] = cleanups \o @]
Holds(t, what) == held' = [held EXCEPT ![t] = @ \cup what]

-----------------------------------------------------------------------------
(* Workspace and source. *)

\* os.MkdirTemp appends a number that is not in use yet to the task identifier.
WorkDirName(t) ==
  LET name(n) == <<Kind(t), IdOf[t], n>>
  IN name(Min({n \in 1..Cardinality(ExecTasks) :
                 name(n) \notin DOMAIN workspaces}))

\* Flutter and Unity look at the configuration before they touch the disk.
RefuseRequest(t) ==
  /\ xpc[t] = "new" /\ Mobile(t) /\ request[t].flaw = "config"
  /\ ReturnsError(t)
  /\ UNCHANGED <<request, expired, workDir, workspaces, toolExit, defers, held,
                 leaked>>

\* The workspace, and with it the deferred RemoveAll; Flutter also defers the
\* stop of the Gradle daemon, which therefore runs first.
MkdirTemp(t) ==
  /\ At(t, "new", "source")
  /\ ~(Mobile(t) /\ request[t].flaw = "config")
  /\ LET n == WorkDirName(t)
     IN /\ workDir' = [workDir EXCEPT ![t] = n]
        /\ workspaces' = [m \in DOMAIN workspaces \cup {n} |->
                            IF m \in DOMAIN workspaces THEN workspaces[m]
                            ELSE [source |-> Nobody, output |-> Nobody]]
  /\ Defer(t, IF Kind(t) = "flutter" THEN <<"daemon", "dir">> ELSE <<"dir">>)
  /\ Holds(t, {"dir"})
  /\ UNCHANGED <<request, expired, toolExit, leaked, answer>>

MkdirTempFails(t) ==
  /\ xpc[t] = "new"
  /\ ~(Mobile(t) /\ request[t].flaw = "config")
  /\ ReturnsError(t)
  /\ UNCHANGED <<request, expired, workDir, workspaces, toolExit, defers, held,
                 leaked>>

\* The stage after the source is in place.
AfterSource(t) ==
  CASE Kind(t) = "docker" -> "image"
    [] Kind(t) = "flutter" -> "pubget"
    [] OTHER -> "run"

\* The preprocessed text, the raw text and its headers, or the project archive.
WriteSource(t) ==
  /\ At(t, "source", AfterSource(t))
  /\ ~(Mobile(t) /\ request[t].flaw = "options")
  /\ workDir[t] \in DOMAIN workspaces
  /\ workspaces' = [workspaces EXCEPT ![workDir[t]].source = t]
  /\ UNCHANGED <<request, expired, workDir, toolExit, defers, held, leaked,
                 answer>>

\* The disk is full, the archive is damaged, or the build options, which are
\* resolved after the extraction, are unknown.
WriteSourceFails(t) ==
  /\ xpc[t] = "source"
  /\ ReturnsError(t)
  /\ UNCHANGED <<request, expired, workDir, workspaces, toolExit, defers, held,
                 leaked>>

\* extractSourceArchive of a compressed archive: the tar stream is refused, and
\* cmd.Wait waits for a decompressor that waits for somebody to read its pipe.
\* No context reaches it.
ExtractionHangs(t) ==
  /\ Mobile(t)
  /\ At(t, "source", "hung")
  /\ UNCHANGED <<request, expired, workDir, workspaces, toolExit, defers, held,
                 leaked, answer>>

-----------------------------------------------------------------------------
(* Docker. *)

DockerCallFails(t) ==
  /\ xpc[t] \in {"image", "create", "start"}
  /\ ReturnsError(t)
  /\ UNCHANGED <<request, expired, workDir, workspaces, toolExit, defers, held,
                 leaked>>

\* ensureImage: list the images, pull a missing one.
EnsureImage(t) ==
  /\ At(t, "image", "create") /\ ~expired[t]
  /\ UNCHANGED <<request, expired, workDir, workspaces, toolExit, defers, held,
                 leaked, answer>>

\* The clean-up is deferred only once the container has started.
CreateUndeferred(t) ==
  /\ At(t, "create", "start") /\ ~expired[t]
  /\ Holds(t, {"container"})
  /\ UNCHANGED <<request, expired, workDir, workspaces, toolExit, defers,
                 leaked, answer>>

\* ContainerCreate, and the deferred removal.
ContainerCreate(t) ==
  /\ At(t, "create", "start") /\ ~expired[t]
  /\ Holds(t, {"container"})
  /\ Defer(t, <<"container">>)
  /\ UNCHANGED <<request, expired, workDir, workspaces, toolExit, leaked,
                 answer>>

ContainerStart(t) ==
  /\ At(t, "start", "run") /\ ~expired[t]
  /\ UNCHANGED <<request, expired, workDir, workspaces, toolExit, defers, held,
                 leaked, answer>>

-----------------------------------------------------------------------------
(* The tool. *)

PubGet(t) ==
  /\ At(t, "pubget", "run") /\ ~expired[t]
  /\ UNCHANGED <<request, expired, workDir, workspaces, toolExit, defers, held,
                 leaked, answer>>

\* flutter pub get fails, is killed by the deadline, by the cancelled call or by
\* somebody else (exit code -1), or is not started at all.
PubGetFails(t) ==
  /\ xpc[t] = "pubget"
  /\ \E code \in {-1, 1} : /\ toolExit' = [toolExit EXCEPT ![t] = code]
                           /\ Returns(t, Failed(code))
  /\ UNCHANGED <<request, expired, workDir, workspaces, defers, held, leaked>>

\* cmd.Run, or the container: the tool exits, with an output made from the
\* source it found, or without one; a Flutter build leaves a Gradle daemon.
\* ExitCode() is -1 when a signal ended the process, the one a cancelled context
\* sends included; a container has the code of its status.
ToolExits(t, code, made) ==
  /\ At(t, "run", "exited") /\ ~expired[t]
  /\ code = -1 => Kind(t) # "docker"
  /\ toolExit' = [toolExit EXCEPT ![t] = code]
  /\ workspaces' =
       IF made /\ workDir[t] \in DOMAIN workspaces
       THEN [workspaces EXCEPT ![workDir[t]].output = workspaces[workDir[t]].source]
       ELSE workspaces
  /\ Holds(t, IF Kind(t) = "flutter" THEN {"daemon"} ELSE {})
  /\ UNCHANGED <<request, expired, workDir, defers, leaked, answer>>

\* The tool cannot be started, or waiting for the container fails.
ToolUnavailable(t) ==
  /\ xpc[t] = "run"
  /\ ReturnsError(t)
  /\ UNCHANGED <<request, expired, workDir, workspaces, toolExit, defers, held,
                 leaked>>

\* The context kills the process, or ends the wait for the container, which is
\* then killed by name.
Timeout(t) ==
  /\ xpc[t] = "run" /\ expired[t]
  /\ Returns(t, TimedOut)
  /\ UNCHANGED <<request, expired, workDir, workspaces, toolExit, defers, held,
                 leaked>>

\* The output is looked for although the tool failed.
ResultIgnoringExit(t) ==
  LET output == workspaces[workDir[t]].output
  IN IF expired[t] /\ Kind(t) # "docker" THEN TimedOut
     ELSE IF output = Nobody THEN Failed(IF Mobile(t) THEN 1 ELSE 0)
     ELSE [success |-> TRUE, exit |-> toolExit[t], from |-> output, error |-> FALSE]

\* The Result once the tool has exited: the deadline is looked at first (not by
\* Docker), then the exit code, then the output.  A compiler that exits 0
\* without an object is a failure with exit code 0; a mobile build without
\* artifacts one with exit code 1.
ResultOf(t) ==
  LET output == workspaces[workDir[t]].output
  IN IF expired[t] /\ Kind(t) # "docker" THEN TimedOut
     ELSE IF toolExit[t] # 0 THEN Failed(toolExit[t])
     ELSE IF output = Nobody THEN Failed(IF Mobile(t) THEN 1 ELSE 0)
     ELSE [success |-> TRUE, exit |-> 0, from |-> output, error |-> FALSE]

Collect(t) ==
  /\ xpc[t] = "exited"
  /\ workDir[t] \in DOMAIN workspaces
  /\ ~(Kind(t) = "docker" /\ expired[t])
  /\ Returns(t, ResultOf(t))
  /\ UNCHANGED <<request, expired, workDir, workspaces, toolExit, defers, held,
                 leaked>>

\* Docker: the logs of the container cannot be had, for instance because the
\* deadline has passed since it exited.
LogsFail(t) ==
  /\ xpc[t] = "exited" /\ Kind(t) = "docker"
  /\ ReturnsError(t)
  /\ UNCHANGED <<request, expired, workDir, workspaces, toolExit, defers, held,
                 leaked>>

-----------------------------------------------------------------------------

\* The next deferred call: container removal, gradlew --stop, RemoveAll.  Each
\* may fail, and no one notices.
Unwind(t, ok) ==
  /\ xpc[t] = "unwind" /\ defers[t] # <<>>
  /\ LET d == Head(defers[t])
     IN /\ defers' = [defers EXCEPT ![t] = Tail(@)]
        /\ held' = IF ok THEN [held EXCEPT ![t] = @ \ {d}] ELSE held
        /\ leaked' = IF ok THEN leaked ELSE [leaked EXCEPT ![t] = @ \cup {d}]
        /\ workspaces' = IF d = "dir" /\ ok
                         THEN [n \in DOMAIN workspaces \ {workDir[t]} |->
                                 workspaces[n]]
                         ELSE workspaces
  /\ UNCHANGED <<xpc, request, expired, workDir, toolExit, answer>>

Answered(t) ==
  /\ At(t, "unwind", "done") /\ defers[t] = <<>>
  /\ UNCHANGED <<request, expired, workDir, workspaces, toolExit, defers, held,
                 leaked, answer>>

\* The deadline of the worker's context (context.WithTimeout).
DeadlinePasses(t) ==
  /\ xpc[t] \notin {"new", "unwind", "done"} /\ ~expired[t]
  /\ expired' = [expired EXCEPT ![t] = TRUE]
  /\ UNCHANGED <<xpc, request, workDir, workspaces, toolExit, defers, held,
                 leaked, answer>>

\* What the executor does by itself, whatever the tool does.
ExecutorStep(t) ==
  \/ RefuseRequest(t) \/ MkdirTemp(t) \/ MkdirTempFails(t)
  \/ WriteSource(t) \/ WriteSourceFails(t) \/ ExtractionHangs(t)
  \/ DockerCallFails(t) \/ EnsureImage(t) \/ ContainerCreate(t)
  \/ ContainerStart(t) \/ PubGetFails(t) \/ Timeout(t)
  \/ Collect(t) \/ LogsFail(t) \/ Answered(t)
  \/ \E ok \in BOOLEAN : Unwind(t, ok)

ExecNext ==
  \E t \in ExecTasks :
    \/ ExecutorStep(t)
    \/ PubGet(t) \/ ToolUnavailable(t)
    \/ \E code \in -1..1, made \in BOOLEAN : ToolExits(t, code, made)
    \/ DeadlinePasses(t)

ExecSpec == ExecInit /\ [][ExecNext]_execVars

\* The executor's own steps and the clock go on; tools need not end.
ExecFairness ==
  \A t \in ExecTasks : WF_execVars(ExecutorStep(t)) /\ WF_execVars(DeadlinePasses(t))

-----------------------------------------------------------------------------

\* Success is answered only for a tool that exited 0 and left an output made
\* from this call's source, and never once the deadline has passed; exit code -1
\* means that the deadline passed or that a signal ended the tool.
AnswerJustified ==
  \A t \in ExecTasks :
    /\ answer[t].success =>
         /\ answer[t].exit = 0 /\ answer[t].from = t /\ toolExit[t] = 0
         /\ ~expired[t]
    /\ answer[t].exit = -1 => expired[t] \/ toolExit[t] = -1

\* Whatever failed on the way, a finished call leaves no container, workspace
\* or Gradle daemon behind, except one whose removal itself failed; and the
\* workspaces on disk are exactly those still held.
NothingLeftBehind ==
  /\ \A t \in ExecTasks : xpc[t] = "done" => held[t] \subseteq leaked[t]
  /\ DOMAIN workspaces = {workDir[t] : t \in {u \in ExecTasks : "dir" \in held[u]}}

\* Every call of Execute that got a workspace ends, by the tool, a failure or the deadline; the one
\* exception is the extraction that hangs beyond the reach of any deadline.
TaskEnds ==
  \A t \in ExecTasks : xpc[t] = "source" ~> xpc[t] \in {"done", "hung"}

=============================================================================
