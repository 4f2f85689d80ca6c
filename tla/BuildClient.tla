---------------------------- MODULE BuildClient -----------------------------
(***************************************************************************)
(* hgbuild cc/c++ (cmd/hgbuild/main.go, internal/cli/build/build.go): one  *)
(* invocation compiles one file.  It looks in the local object cache,      *)
(* preprocesses, asks the coordinator up to MaxRetries times and, if no    *)
(* answer comes, compiles locally.                                         *)
(*                                                                         *)
(* The coordinator is the CompileService it implements (Coordinator.tla):  *)
(* attempt n of invocation p is the call <<p, n>>.  A client that gives up *)
(* on a call leaves it pending; its task may still run on a worker.        *)
(*                                                                         *)
(* A compilation unit is the text of the source file plus everything else  *)
(* the object depends on: headers, include path, defines, compiler         *)
(* version.  Units are what the tree holds, what is compiled, and what an  *)
(* object is the object of.                                                *)
(***************************************************************************)
EXTENDS Grid

CONSTANTS
  Procs,            \* invocations of hgbuild, sharing a user's cache
  MaxRetries,       \* Config.MaxRetries
  FallbackEnabled,  \* --no-fallback and HG_NO_FALLBACK are absent
  Broken,           \* texts the compiler rejects
  MaxEdits,         \* bound on edits of the tree, source and other together
  Disturbances      \* the kinds of disturbance an instance lets happen

ASSUME ClientAssumption ==
  /\ MaxRetries \in Nat \ {0}
  /\ MaxEdits \in Nat
  /\ FallbackEnabled \in BOOLEAN
  /\ Calls = Procs \X (1 .. MaxRetries)
  /\ \A c \in Calls : ~IsBuild(c)

VARIABLES
  status, answer, ran,   \* of the CompileService
  tree,       \* Unit, the files in the user's working directory now
  edits,      \* number of edits so far
  cache,      \* [Texts -> Unit \cup {NoUnit, Torn}], the files of ~/.hybridgrid/cache
  indexed,    \* SUBSET Texts, the keys its index lists
  clash,      \* SUBSET Procs, whose write of a file overlapped with another's
  step,       \* [Procs -> Step], place in runCompiler and Service.Build
  read,       \* [Procs -> Unit], the tree when the source was read
  unit,       \* [Procs -> Unit], what is sent or compiled locally
  attempt,    \* [Procs -> 0 .. MaxRetries]
  outcome,    \* [Procs -> Outcome], the exit of the process
  object,     \* [Procs -> Object], result.ObjectFile, then the output file
  seen        \* [Procs -> SUBSET Unit], history: trees since the start

serviceVars == <<status, answer, ran>>
treeVars    == <<tree, edits>>
cacheVars   == <<cache, indexed, clash>>
procVars    == <<step, read, unit, attempt, outcome, object, seen>>
vars        == <<serviceVars, treeVars, cacheVars, procVars>>

Texts   == 0 .. MaxEdits
Bare    == MaxEdits + 1          \* no headers, no defines
Unit    == [text : Texts, deps : 0 .. MaxEdits + 1]
NoUnit  == [text |-> 0, deps |-> MaxEdits + 2]
Empty   == [text |-> 0, deps |-> MaxEdits + 3]  \* no bytes at all
Torn    == [text |-> 0, deps |-> MaxEdits + 4]  \* part of an object, or a mix of two
Object  == Unit \cup {NoUnit, Empty, Torn}
Step    == {"idle", "lookup", "preprocess", "remote", "await", "fallback",
            "local", "direct", "write", "exit"}
Outcome == {"none", "ok", "failed", "error", "killed"}

May(d) == d \in Disturbances

Service == INSTANCE CompileService WITH KeyOf <- [c \in Calls |-> c]

Call(p) == <<p, attempt[p]>>

(* Builds of earlier days left objects of what the tree was then. *)
Init ==
  /\ Service!Init
  /\ tree = [text |-> 0, deps |-> 0] /\ edits = 0
  /\ indexed \in SUBSET (Texts \ Broken)
  /\ cache = [t \in Texts |-> IF t \in indexed THEN [text |-> t, deps |-> 0]
                                               ELSE NoUnit]
  /\ clash = {}
  /\ step = [p \in Procs |-> "idle"]
  /\ read = [p \in Procs |-> NoUnit]
  /\ unit = [p \in Procs |-> NoUnit]
  /\ attempt = [p \in Procs |-> 0]
  /\ outcome = [p \in Procs |-> "none"]
  /\ object = [p \in Procs |-> NoUnit]
  /\ seen = [p \in Procs |-> {}]

Goto(p, s) == step' = [step EXCEPT ![p] = s]

Exit(p, how, what) ==
  /\ Goto(p, "exit")
  /\ outcome' = [outcome EXCEPT ![p] = how]
  /\ object' = [object EXCEPT ![p] = what]

(* writeOutputFile, the last thing a successful invocation does. *)
Succeed(p, what) ==
  \/ Exit(p, "ok", what)
  \/ May("local_trouble") /\ Exit(p, "error", NoUnit)

-----------------------------------------------------------------------------
(* Before the coordinator is asked *)

(* Mutant of generateCacheKeyRaw: the source is left out of the key. *)
KeyWithoutSource(p) == 0

(* The cache key is a hash of the raw source text (and of compiler name,   *)
(* architecture, flags and defines, which no edit changes).                *)
generateCacheKeyRaw(p) == read[p].text

ReadSource(p) ==
  /\ step[p] = "idle"
  /\ Goto(p, "lookup")
  /\ read' = [read EXCEPT ![p] = tree]
  /\ seen' = [seen EXCEPT ![p] = {tree}]
  /\ UNCHANGED <<serviceVars, treeVars, cacheVars, unit, attempt, outcome, object>>

SourceUnreadable(p) ==
  /\ May("local_trouble")
  /\ step[p] = "idle"
  /\ Exit(p, "error", NoUnit)
  /\ UNCHANGED <<serviceVars, treeVars, cacheVars, read, unit, attempt, seen>>

(* No coordinator is configured or discovered: the compiler runs at once,  *)
(* without cache, unless fallback is disabled.                             *)
NoCoordinator(p) ==
  /\ May("no_coordinator")
  /\ step[p] = "idle"
  /\ seen' = [seen EXCEPT ![p] = {tree}]
  /\ unit' = [unit EXCEPT ![p] = tree]
  /\ IF FallbackEnabled THEN Goto(p, "direct") /\ UNCHANGED <<outcome, object>>
                        ELSE Exit(p, "error", NoUnit)
  /\ UNCHANGED <<serviceVars, treeVars, cacheVars, read, attempt>>

(* An entry of the index is enough: GetBytes returns what the file holds,  *)
(* also while another invocation rewrites it.                              *)
CacheHit(p) ==
  /\ step[p] = "lookup"
  /\ generateCacheKeyRaw(p) \in indexed
  /\ Succeed(p, cache[generateCacheKeyRaw(p)])
  /\ UNCHANGED <<serviceVars, treeVars, cacheVars, read, unit, attempt, seen>>

(* A miss: nothing stored, or an entry that expired, was evicted or was    *)
(* dropped from the index by another process.                              *)
CacheMiss(p) ==
  /\ step[p] = "lookup"
  /\ Goto(p, "preprocess")
  /\ UNCHANGED <<serviceVars, treeVars, cacheVars, read, unit, attempt, outcome,
                 object, seen>>

(* The preprocessor opens the source file again and resolves the headers.  *)
Preprocess(p) ==
  /\ step[p] = "preprocess"
  /\ unit' = [unit EXCEPT ![p] = tree]
  /\ Goto(p, "remote")
  /\ UNCHANGED <<serviceVars, treeVars, cacheVars, read, attempt, outcome, object,
                 seen>>

(* Raw mode.  The parser keeps -I and -D apart from Flags, and             *)
(* buildRemoteArgsForRaw and collectIncludeFiles look at Flags only, so    *)
(* the text travels alone.                                                 *)
PreprocessFails(p) ==
  /\ May("preprocess_fails")
  /\ step[p] = "preprocess"
  /\ unit' = [unit EXCEPT ![p] = [text |-> read[p].text, deps |-> Bare]]
  /\ Goto(p, "remote")
  /\ UNCHANGED <<serviceVars, treeVars, cacheVars, read, attempt, outcome, object,
                 seen>>

-----------------------------------------------------------------------------
(* compileRemotePreprocessed and compileRemoteRaw *)

SubmitAttempt(p) ==
  /\ step[p] = "remote"
  /\ Service!Submit(<<p, attempt[p] + 1>>)
  /\ attempt' = [attempt EXCEPT ![p] = @ + 1]
  /\ Goto(p, "await")
  /\ UNCHANGED <<treeVars, cacheVars, read, unit, outcome, object, seen>>

(* isRetryableError: the next attempt while there is one, else the local   *)
(* fallback.                                                               *)
RetryOrFallback(p, n, retryable) ==
  Goto(p, IF retryable /\ n < MaxRetries THEN "remote" ELSE "fallback")

(* Mutant of CoordinatorUnavailable: one failure counts as two attempts. *)
CountedTwice(p) ==
  /\ May("unavailable")
  /\ step[p] = "remote"
  /\ attempt' = [attempt EXCEPT ![p] = @ + 2]
  /\ RetryOrFallback(p, attempt[p] + 2, TRUE)
  /\ UNCHANGED <<serviceVars, treeVars, cacheVars, read, unit, outcome, object, seen>>

(* The request never reached the coordinator. *)
CoordinatorUnavailable(p) ==
  /\ May("unavailable")
  /\ step[p] = "remote"
  /\ attempt' = [attempt EXCEPT ![p] = @ + 1]
  /\ RetryOrFallback(p, attempt[p] + 1, TRUE)
  /\ UNCHANGED <<serviceVars, treeVars, cacheVars, read, unit, outcome, object, seen>>

(* Mutant of RpcFails: the call has no deadline of its own. *)
RpcFailsOnlyWhenBroken(p) ==
  /\ step[p] = "await" /\ status[Call(p)] = "broken"
  /\ RetryOrFallback(p, attempt[p], TRUE)
  /\ UNCHANGED <<serviceVars, treeVars, cacheVars, read, unit, attempt, outcome,
                 object, seen>>

(* The client's own deadline, or the connection breaks: retryable.  Any    *)
(* other status is not.                                                    *)
RpcFails(p) ==
  /\ step[p] = "await"
  /\ \/ RetryOrFallback(p, attempt[p], TRUE)
     \/ May("rpc_error") /\ RetryOrFallback(p, attempt[p], FALSE)
  /\ UNCHANGED <<serviceVars, treeVars, cacheVars, read, unit, attempt, outcome,
                 object, seen>>

Writing(p) == step[p] = "write"

(* PutBytes under the key of the text read at the start.  The file is      *)
(* emptied and written in place; or the cache cannot be written at all.    *)
(* Errors are logged and ignored.                                          *)
Store(p, what) ==
  LET rivals == {q \in Procs \ {p} :
                   Writing(q) /\ generateCacheKeyRaw(q) = generateCacheKeyRaw(p)}
  IN  \/ /\ Goto(p, "write")
         /\ object' = [object EXCEPT ![p] = what]
         /\ cache' = [cache EXCEPT ![generateCacheKeyRaw(p)] = Torn]
         /\ clash' = IF rivals = {} THEN clash ELSE clash \cup rivals \cup {p}
         /\ UNCHANGED <<indexed, outcome>>
      \/ Succeed(p, what) /\ UNCHANGED cacheVars

(* The file is complete, or a mix when two invocations wrote it at once,   *)
(* and the index lists it; or there was no room, and the file stays as it  *)
(* is.                                                                     *)
StoreEnds(p) ==
  /\ Writing(p)
  /\ \/ /\ \E what \in IF p \in clash THEN {object[p], Torn, cache[generateCacheKeyRaw(p)]}
                                      ELSE {object[p]} :
              cache' = [cache EXCEPT ![generateCacheKeyRaw(p)] = what]
        /\ indexed' = indexed \cup {generateCacheKeyRaw(p)}
     \/ UNCHANGED <<cache, indexed>>
  /\ Succeed(p, object[p])
  /\ UNCHANGED <<serviceVars, treeVars, clash, read, unit, attempt, seen>>

(* Mutant of RemoteOk: the answer to any attempt will do. *)
LateAnswerTaken(p) ==
  /\ step[p] = "await"
  /\ \E n \in 1 .. MaxRetries : answer[<<p, n>>] = "ok"
  /\ Store(p, unit[p])
  /\ UNCHANGED <<serviceVars, treeVars, read, unit, attempt, seen>>

RemoteOk(p) ==
  /\ step[p] = "await" /\ answer[Call(p)] = "ok"
  /\ Store(p, unit[p])
  /\ UNCHANGED <<serviceVars, treeVars, read, unit, attempt, seen>>

(* A failed task can carry exit code 0: the tool ended well but left no    *)
(* output (Executors.tla).  Only the exit code is looked at, so this is a  *)
(* success, with an empty object, which is not stored.                     *)
RemoteEmpty(p) ==
  /\ step[p] = "await" /\ answer[Call(p)] = "fail"
  /\ Succeed(p, Empty)
  /\ UNCHANGED <<serviceVars, treeVars, cacheVars, read, unit, attempt, seen>>

(* Every other response has a non-zero exit code, also one that says that  *)
(* no worker was available or that the worker failed, and ends the         *)
(* invocation.                                                             *)
RemoteNonZero(p) ==
  /\ step[p] = "await" /\ answer[Call(p)] \in Service!Answers \ {"ok"}
  /\ Exit(p, "failed", NoUnit)
  /\ UNCHANGED <<serviceVars, treeVars, cacheVars, read, unit, attempt, seen>>

-----------------------------------------------------------------------------
(* Local compilation *)

FallbackPreprocess(p) ==
  /\ step[p] = "fallback" /\ FallbackEnabled
  /\ unit' = [unit EXCEPT ![p] = tree]
  /\ Goto(p, "local")
  /\ UNCHANGED <<serviceVars, treeVars, cacheVars, read, attempt, outcome, object,
                 seen>>

(* Mutant of FallbackImpossible: the error of the last attempt is returned *)
(* without looking at FallbackEnabled.                                     *)
NoFallback(p) ==
  /\ step[p] = "fallback"
  /\ Exit(p, "error", NoUnit)
  /\ UNCHANGED <<serviceVars, treeVars, cacheVars, read, unit, attempt, seen>>

(* Fallback is disabled, or there is no preprocessor to prepare it. *)
FallbackImpossible(p) ==
  /\ step[p] = "fallback"
  /\ ~FallbackEnabled \/ May("preprocess_fails")
  /\ Exit(p, "error", NoUnit)
  /\ UNCHANGED <<serviceVars, treeVars, cacheVars, read, unit, attempt, seen>>

(* LocalFallback.Execute, or the compiler run in place of hgbuild, which   *)
(* does not touch the cache.                                               *)
CompileLocal(p) ==
  /\ step[p] \in {"local", "direct"}
  /\ unit[p].text \notin Broken
  /\ IF step[p] = "local" THEN Store(p, unit[p])
                          ELSE Succeed(p, unit[p]) /\ UNCHANGED cacheVars
  /\ UNCHANGED <<serviceVars, treeVars, read, unit, attempt, seen>>

(* The compiler rejects the source, is not installed or exceeds the        *)
(* timeout (a non-zero exit code); or there is no room for its input.      *)
CompileLocalFails(p) ==
  /\ step[p] \in {"local", "direct"}
  /\ \/ unit[p].text \in Broken /\ Exit(p, "failed", NoUnit)
     \/ May("local_trouble") /\ \E how \in {"failed", "error"} : Exit(p, how, NoUnit)
  /\ UNCHANGED <<serviceVars, treeVars, cacheVars, read, unit, attempt, seen>>

-----------------------------------------------------------------------------
(* The surroundings *)

(* The coordinator and its workers.  A worker can only produce an object   *)
(* of what it was sent, and only if the compiler accepts it; it may fail   *)
(* for reasons of its own (executor error, timeout).  The other answers    *)
(* of the service are those of Build.                                      *)
ServiceStep ==
  /\ \/ \E c \in Calls :
          \/ Service!Run(c, "fail")
          \/ unit[c[1]].text \notin Broken /\ Service!Run(c, "ok")
          \/ \E a \in {"ok", "fail", "error", "noworker"} : Service!Answer(c, a)
     \/ May("coordinator_dies") /\ Service!BreakPending
  /\ UNCHANGED <<treeVars, cacheVars, procVars>>

Active(p) == step[p] \notin {"idle", "exit"}

(* The user interrupts it; a file it was writing stays as it is. *)
Killed(p) ==
  /\ May("killed")
  /\ Active(p)
  /\ Exit(p, "killed", NoUnit)
  /\ UNCHANGED <<serviceVars, treeVars, cacheVars, read, unit, attempt, seen>>

(* Someone saves a file, between builds or while they run: the source      *)
(* text, or a header, an include path or the compiler.                     *)
Edit ==
  /\ edits < MaxEdits
  /\ May("edit_while_building") \/ \A p \in Procs : ~Active(p)
  /\ edits' = edits + 1
  /\ \/ May("edit_text") /\ \E t \in Texts : tree' = [tree EXCEPT !.text = t]
     \/ May("edit_deps") /\ tree' = [tree EXCEPT !.deps = @ + 1]
  /\ seen' = [p \in Procs |-> IF Active(p) THEN seen[p] \cup {tree'} ELSE seen[p]]
  /\ UNCHANGED <<serviceVars, cacheVars, step, read, unit, attempt, outcome, object>>

ProcStep(p) ==
  \/ ReadSource(p) \/ SourceUnreadable(p) \/ NoCoordinator(p)
  \/ CacheHit(p) \/ CacheMiss(p) \/ Preprocess(p) \/ PreprocessFails(p)
  \/ SubmitAttempt(p) \/ CoordinatorUnavailable(p)
  \/ RpcFails(p) \/ RemoteOk(p) \/ StoreEnds(p)
  \/ RemoteEmpty(p) \/ RemoteNonZero(p)
  \/ FallbackPreprocess(p) \/ FallbackImpossible(p)
  \/ CompileLocal(p) \/ CompileLocalFails(p)

Next ==
  \/ \E p \in Procs : ProcStep(p) \/ Killed(p)
  \/ ServiceStep
  \/ Edit

Spec == Init /\ [][Next]_vars

(* An invocation that was started keeps going: its compiler runs end and   *)
(* its RPCs have a deadline.  The coordinator owes it nothing.             *)
FairSpec == Spec /\ \A p \in Procs : WF_vars(Active(p) /\ ProcStep(p))

-----------------------------------------------------------------------------
(* Properties *)

(* The shape of the state of an invocation; the number of attempts stays   *)
(* within the loop bound of compileRemotePreprocessed and compileRemoteRaw.*)
ClientTypeOK ==
  /\ tree \in Unit /\ edits \in 0 .. MaxEdits
  /\ cache \in [Texts -> Unit \cup {NoUnit, Torn}]
  /\ indexed \subseteq Texts /\ clash \subseteq Procs
  /\ step \in [Procs -> Step]
  /\ read \in [Procs -> Unit \cup {NoUnit}]
  /\ unit \in [Procs -> Unit \cup {NoUnit}]
  /\ attempt \in [Procs -> 0 .. MaxRetries]
  /\ outcome \in [Procs -> Outcome]
  /\ object \in [Procs -> Object]
  /\ seen \in [Procs -> SUBSET Unit]

(* An object that came over the wire is the result of this invocation's    *)
(* latest attempt: the worker ran that call and the compiler accepted it.  *)
(* A late run of an attempt that was given up never becomes the output.    *)
(* The exception is an empty object: then the answer to the latest attempt *)
(* said that its run failed, and the invocation succeeds all the same.     *)
RemoteSuccessJustified ==
  [][\A p \in Procs :
       step[p] = "await" /\ object'[p] # NoUnit
       => /\ status[Call(p)] = "answered"
          /\ IF object'[p] = Empty
               THEN answer[Call(p)] = "fail" /\ ran[Call(p)] = "fail"
               ELSE ran[Call(p)] = "ok" /\ object'[p].text \notin Broken]_vars

LocalToolsWork == ~May("preprocess_fails") /\ ~May("local_trouble")

(* With fallback enabled and a working local compiler, an unreachable, slow*)
(* or dying coordinator never makes an invocation fail: it fails only on a *)
(* source the compiler rejects or on an answer that says so (Service.Build *)
(* after compileRemotePreprocessed gave up).                               *)
OutageAbsorbed ==
  \A p \in Procs : FallbackEnabled /\ LocalToolsWork =>
    /\ outcome[p] # "error"
    /\ outcome[p] = "failed" =>
         \/ unit[p].text \in Broken
         \/ \E n \in 1 .. MaxRetries : answer[<<p, n>>] \in Service!Answers \ {"ok"}

(* Another invocation is writing, or may have written, an object under the *)
(* key of this one.                                                        *)
Rewritten(p) ==
  \E q \in Procs \ {p} :
    /\ read[q] # NoUnit /\ generateCacheKeyRaw(q) = generateCacheKeyRaw(p)
    /\ unit[q] # NoUnit
    /\ Writing(q) \/ outcome[q] \in {"ok", "error", "killed"}

(* The object of a successful invocation is one of the units the tree held *)
(* while it ran: "Skip redundant compilations", and only those.  Two       *)
(* exceptions: the empty object of a failed answer, and a torn one, which  *)
(* it only gets from an entry that another invocation was rewriting or did *)
(* not get to finish.                                                      *)
SuccessIsCurrent ==
  \A p \in Procs : outcome[p] = "ok" =>
    \/ object[p] \in seen[p]
    \/ object[p] = Empty /\ attempt[p] > 0 /\ answer[Call(p)] = "fail"
    \/ object[p] = Torn /\ Rewritten(p)

(* A non-zero exit means that the compiler rejected the source; the grid's *)
(* own troubles ("coordinator.unavailable OR timeout OR all_workers_busy") *)
(* lead to a local compilation instead.                                    *)
FailureMeansRejected ==
  \A p \in Procs : outcome[p] = "failed" => unit[p].text \in Broken

(* "Keep all flags including -I and -D (needed for raw source              *)
(* compilation)": no object is built from the bare text.                   *)
RawModeKeepsContext ==
  \A p \in Procs : outcome[p] = "ok" => object[p].deps # Bare

(* Every invocation that was started ends, whatever the coordinator does.  *)
EveryInvocationEnds == \A p \in Procs : Active(p) ~> step[p] = "exit"

=============================================================================
