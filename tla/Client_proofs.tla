--------------------------- MODULE Client_proofs ----------------------------
(***************************************************************************)
(* Theorems about invocations of hgbuild, for any number of concurrent     *)
(* invocations, attempts and edits.                                        *)
(***************************************************************************)
EXTENDS BuildClient, TLAPS

ServiceTyped ==
  /\ status \in [Calls -> {"idle", "pending", "answered", "broken"}]
  /\ answer \in [Calls -> Service!Answers \cup {"none"}]
  /\ ran \in [Calls -> {"none", "ok", "fail"}]

(* An answer is final and, when it says how the run ended, true. *)
AnswersTrue ==
  \A c \in Calls :
    /\ status[c] = "idle" => ran[c] = "none"
    /\ answer[c] # "none" => status[c] = "answered"
    /\ answer[c] \in {"ok", "fail"} => ran[c] = answer[c]

(* Where an invocation stands and how many attempts it has made. *)
AttemptsKnown(p) ==
  /\ step[p] \in {"idle", "lookup", "preprocess", "direct"} => attempt[p] = 0
  /\ step[p] = "remote" => attempt[p] < MaxRetries
  /\ step[p] = "await" => attempt[p] >= 1
  /\ \A n \in 1 .. MaxRetries : n > attempt[p] => status[<<p, n>>] = "idle"
  /\ step[p] # "exit" => outcome[p] = "none"

(* What an invocation has read and what it sends. *)
UnitsKnown(p) ==
  /\ step[p] \in {"lookup", "preprocess", "remote", "await", "fallback", "local"} =>
       read[p] \in Unit
  /\ step[p] \in {"remote", "await", "fallback", "local", "direct"} => unit[p] \in Unit
  /\ step[p] \in {"remote", "await", "fallback"} =>
       \A n \in 1 .. MaxRetries : ran[<<p, n>>] = "ok" => unit[p].text \notin Broken
  /\ step[p] = "write" => read[p] \in Unit /\ object[p] \in Unit
  /\ step[p] \notin {"write", "exit"} => object[p] = NoUnit

ClientInv ==
  /\ ClientTypeOK
  /\ ServiceTyped
  /\ tree.deps <= edits
  /\ AnswersTrue
  /\ \A p \in Procs : AttemptsKnown(p) /\ UnitsKnown(p)

LEMMA CallsOf == ASSUME NEW p \in Procs, NEW n \in 1 .. MaxRetries PROVE <<p, n>> \in Calls
BY ClientAssumption

-----------------------------------------------------------------------------
(* The steps of an invocation *)

(* An invocation ends, whatever it leaves behind. *)
LEMMA ExitInv ==
  ASSUME ClientInv, NEW p \in Procs, NEW how \in Outcome, NEW what \in Object,
         Exit(p, how, what), UNCHANGED <<serviceVars, treeVars, read, attempt>>,
         cache' \in [Texts -> Unit \cup {NoUnit, Torn}], indexed' \subseteq Texts, clash' \subseteq Procs,
         unit' \in [Procs -> Unit \cup {NoUnit}], \A q \in Procs \ {p} : unit'[q] = unit[q],
         seen' \in [Procs -> SUBSET Unit]
  PROVE  ClientInv'
<1>1. ClientTypeOK' /\ ServiceTyped' /\ (tree.deps <= edits)' /\ AnswersTrue'
  BY DEF ClientInv, ClientTypeOK, ServiceTyped, AnswersTrue, Exit, Goto, Step, serviceVars, treeVars
<1>2. ASSUME NEW q \in Procs PROVE AttemptsKnown(q)' /\ UnitsKnown(q)'
  <2>1. CASE q = p
    BY <2>1, CallsOf DEF ClientInv, ClientTypeOK, AttemptsKnown, UnitsKnown, Exit, Goto, serviceVars
  <2>2. CASE q # p
    BY <2>2, CallsOf DEF ClientInv, ClientTypeOK, AttemptsKnown, UnitsKnown, Exit, Goto, serviceVars
  <2>3. QED
    BY <2>1, <2>2
<1>3. QED
  BY <1>1, <1>2 DEF ClientInv

(* An invocation goes on to a step other than waiting for an answer. *)
LEMMA MoveInv ==
  ASSUME ClientInv, NEW p \in Procs, NEW s \in Step \ {"idle", "await", "write", "exit"}, Goto(p, s),
         step[p] \notin {"write", "exit"},
         UNCHANGED <<serviceVars, treeVars, cacheVars, outcome, object>>,
         read' \in [Procs -> Unit \cup {NoUnit}], unit' \in [Procs -> Unit \cup {NoUnit}],
         attempt' \in [Procs -> 0 .. MaxRetries], seen' \in [Procs -> SUBSET Unit],
         \A q \in Procs \ {p} :
           read'[q] = read[q] /\ unit'[q] = unit[q] /\ attempt'[q] = attempt[q],
         attempt'[p] >= attempt[p],
         s \in {"lookup", "preprocess", "direct"} => attempt'[p] = 0,
         s = "remote" => attempt'[p] < MaxRetries,
         s # "direct" => read'[p] \in Unit,
         s \in {"remote", "fallback", "local", "direct"} => unit'[p] \in Unit,
         s \in {"remote", "fallback"} =>
           \A n \in 1 .. MaxRetries : ran[<<p, n>>] = "ok" => unit'[p].text \notin Broken
  PROVE  ClientInv'
<1>1. ClientTypeOK' /\ ServiceTyped' /\ (tree.deps <= edits)' /\ AnswersTrue'
  BY DEF ClientInv, ClientTypeOK, ServiceTyped, AnswersTrue, Goto, serviceVars, treeVars, cacheVars
<1>2. step'[p] = s /\ \A q \in Procs \ {p} : step'[q] = step[q]
  BY DEF ClientInv, ClientTypeOK, Goto
<1>3. status' = status /\ ran' = ran /\ outcome' = outcome
  BY DEF serviceVars
<1>4. ASSUME NEW q \in Procs PROVE AttemptsKnown(q)'
  <2>1. CASE q = p
    <3>1. outcome'[p] = "none"
      BY <1>3 DEF ClientInv, AttemptsKnown
    <3>2. ASSUME NEW n \in 1 .. MaxRetries, n > attempt'[p] PROVE status'[<<p, n>>] = "idle"
      <4>1. attempt[p] \in Nat /\ attempt'[p] \in Nat /\ n \in Nat
        BY ClientAssumption DEF ClientInv, ClientTypeOK
      <4>2. n > attempt[p]
        BY <3>2, <4>1
      <4>3. QED
        BY <1>3, <4>2 DEF ClientInv, AttemptsKnown
    <3>3. QED
      BY <1>2, <2>1, <3>1, <3>2 DEF AttemptsKnown
  <2>2. CASE q # p
    BY <1>2, <1>3, <2>2 DEF ClientInv, AttemptsKnown
  <2>3. QED
    BY <2>1, <2>2
<1>5. ASSUME NEW q \in Procs PROVE UnitsKnown(q)'
  <2>1. CASE q = p
    <3>1. object'[p] = NoUnit
      BY DEF ClientInv, UnitsKnown
    <3>2. QED
      BY <1>2, <1>3, <2>1, <3>1 DEF UnitsKnown
  <2>2. CASE q # p
    BY <1>2, <1>3, <2>2 DEF ClientInv, UnitsKnown
  <2>3. QED
    BY <2>1, <2>2
<1>6. QED
  BY <1>1, <1>4, <1>5 DEF ClientInv

(* The values an object can have besides a unit are none of the units. *)
LEMMA NotUnits ==
  /\ NoUnit \notin Unit /\ Empty \notin Unit /\ Torn \notin Unit
  /\ NoUnit # Empty /\ NoUnit # Torn /\ Empty # Torn
BY ClientAssumption DEF NoUnit, Empty, Torn, Unit

(* The last step of an invocation whose output file may not be written. *)
LEMMA SucceedInv ==
  ASSUME ClientInv, NEW p \in Procs, NEW what \in Object, Succeed(p, what),
         UNCHANGED <<serviceVars, treeVars, read, unit, attempt, seen>>,
         cache' \in [Texts -> Unit \cup {NoUnit, Torn}], indexed' \subseteq Texts, clash' \subseteq Procs
  PROVE  ClientInv'
<1>1. PICK how \in Outcome, w \in Object : Exit(p, how, w)
  BY DEF Succeed, Outcome, Object
<1>2. QED
  BY <1>1, ExitInv DEF ClientInv, ClientTypeOK

(* An invocation stores the object it has, or goes on without. *)
LEMMA StoreInv ==
  ASSUME ClientInv, NEW p \in Procs, NEW what \in Unit, Store(p, what),
         step[p] \in {"await", "local"}, read[p] \in Unit,
         UNCHANGED <<serviceVars, treeVars, read, unit, attempt, seen>>
  PROVE  ClientInv'
<1>1. CASE Succeed(p, what) /\ UNCHANGED cacheVars
  BY <1>1, SucceedInv DEF ClientInv, ClientTypeOK, cacheVars, Object
<1>2. CASE /\ Goto(p, "write")
           /\ object' = [object EXCEPT ![p] = what]
           /\ cache' = [cache EXCEPT ![generateCacheKeyRaw(p)] = Torn]
           /\ \E rivals \in SUBSET (Procs \ {p}) :
                clash' = IF rivals = {} THEN clash ELSE clash \cup rivals \cup {p}
           /\ UNCHANGED <<indexed, outcome>>
  <2>1. ClientTypeOK' /\ ServiceTyped' /\ (tree.deps <= edits)' /\ AnswersTrue'
    BY <1>2 DEF ClientInv, ClientTypeOK, ServiceTyped, AnswersTrue, Goto, Step, Object, serviceVars, treeVars
  <2>2. ASSUME NEW q \in Procs PROVE AttemptsKnown(q)' /\ UnitsKnown(q)'
    <3>1. CASE q = p
      BY <1>2, <3>1, CallsOf DEF ClientInv, ClientTypeOK, AttemptsKnown, UnitsKnown, Goto, serviceVars
    <3>2. CASE q # p
      BY <1>2, <3>2, CallsOf DEF ClientInv, ClientTypeOK, AttemptsKnown, UnitsKnown, Goto, serviceVars
    <3>3. QED
      BY <3>1, <3>2
  <2>3. QED
    BY <2>1, <2>2 DEF ClientInv
<1>3. QED
  <2> DEFINE rivals == {q \in Procs \ {p} :
                          Writing(q) /\ generateCacheKeyRaw(q) = generateCacheKeyRaw(p)}
  <2>1. rivals \in SUBSET (Procs \ {p})
    OBVIOUS
  <2>2. QED
    BY <1>1, <1>2, <2>1 DEF Store

LEMMA ReadSourceInv ==
  ASSUME ClientInv, NEW p \in Procs, ReadSource(p) PROVE ClientInv'
<1>1. tree \in Unit /\ attempt[p] = 0
  BY DEF ClientInv, ClientTypeOK, AttemptsKnown, ReadSource
<1>2. /\ read' \in [Procs -> Unit \cup {NoUnit}] /\ seen' \in [Procs -> SUBSET Unit]
      /\ read'[p] = tree /\ \A q \in Procs \ {p} : read'[q] = read[q]
  BY <1>1 DEF ClientInv, ClientTypeOK, ReadSource
<1>3. UNCHANGED <<serviceVars, treeVars, cacheVars, unit, attempt, outcome, object>> /\ Goto(p, "lookup")
  BY DEF ReadSource
<1>4. attempt[p] \in Nat /\ "lookup" \in Step \ {"idle", "await", "write", "exit"}
      /\ step[p] \notin {"write", "exit"}
  BY <1>1 DEF Step, ReadSource
<1>5. QED
  BY <1>1, <1>2, <1>3, <1>4, MoveInv DEF ClientInv, ClientTypeOK

LEMMA SourceUnreadableInv ==
  ASSUME ClientInv, NEW p \in Procs, SourceUnreadable(p) PROVE ClientInv'
<1>1. Exit(p, "error", NoUnit) /\ UNCHANGED <<serviceVars, treeVars, cacheVars, read, unit, attempt, seen>>
  BY DEF SourceUnreadable
<1>2. QED
  BY <1>1, ExitInv DEF ClientInv, ClientTypeOK, Outcome, Object, cacheVars

LEMMA NoCoordinatorInv ==
  ASSUME ClientInv, NEW p \in Procs, NoCoordinator(p) PROVE ClientInv'
<1>1. /\ unit' \in [Procs -> Unit \cup {NoUnit}] /\ seen' \in [Procs -> SUBSET Unit]
      /\ \A q \in Procs \ {p} : unit'[q] = unit[q]
      /\ unit'[p] \in Unit /\ UNCHANGED <<serviceVars, treeVars, cacheVars, read, attempt>>
  BY DEF ClientInv, ClientTypeOK, NoCoordinator
<1>2. CASE Exit(p, "error", NoUnit)
  BY <1>1, <1>2, ExitInv DEF ClientInv, ClientTypeOK, Outcome, Object, cacheVars
<1>3. CASE Goto(p, "direct") /\ UNCHANGED <<outcome, object>>
  <2>1. ClientTypeOK' /\ ServiceTyped' /\ (tree.deps <= edits)' /\ AnswersTrue'
    BY <1>1, <1>3 DEF ClientInv, ClientTypeOK, ServiceTyped, AnswersTrue, Goto, Step, serviceVars, treeVars, cacheVars
  <2>2. ASSUME NEW q \in Procs PROVE AttemptsKnown(q)' /\ UnitsKnown(q)'
    BY <1>1, <1>3, <2>2 DEF NoCoordinator, ClientInv, ClientTypeOK, AttemptsKnown, UnitsKnown, Goto, serviceVars
  <2>3. QED
    BY <2>1, <2>2 DEF ClientInv
<1>4. QED
  BY <1>2, <1>3 DEF NoCoordinator

LEMMA CacheHitInv ==
  ASSUME ClientInv, NEW p \in Procs, CacheHit(p) PROVE ClientInv'
<1>1. cache[generateCacheKeyRaw(p)] \in Object
  BY DEF ClientInv, ClientTypeOK, UnitsKnown, CacheHit, generateCacheKeyRaw, Unit, Object
<1>2. QED
  BY <1>1, SucceedInv DEF CacheHit, ClientInv, ClientTypeOK, cacheVars

LEMMA CacheMissInv ==
  ASSUME ClientInv, NEW p \in Procs, CacheMiss(p) PROVE ClientInv'
<1>1. attempt[p] = 0 /\ read[p] \in Unit
  BY DEF ClientInv, AttemptsKnown, UnitsKnown, CacheMiss
<1>2. /\ UNCHANGED <<serviceVars, treeVars, cacheVars, read, unit, attempt, outcome, object, seen>>
      /\ Goto(p, "preprocess") /\ "preprocess" \in Step \ {"idle", "await", "write", "exit"} /\ step[p] \notin {"write", "exit"}
  BY DEF CacheMiss, Step
<1>3. QED
  BY <1>1, <1>2, MoveInv DEF ClientInv, ClientTypeOK

LEMMA PreprocessInv ==
  ASSUME ClientInv, NEW p \in Procs, Preprocess(p) PROVE ClientInv'
<1>1. tree \in Unit /\ attempt[p] = 0 /\ read[p] \in Unit
  BY DEF ClientInv, ClientTypeOK, AttemptsKnown, UnitsKnown, Preprocess
<1>2. /\ unit' \in [Procs -> Unit \cup {NoUnit}]
      /\ unit'[p] = tree /\ \A q \in Procs \ {p} : unit'[q] = unit[q]
  BY <1>1 DEF ClientInv, ClientTypeOK, Preprocess
<1>3. /\ UNCHANGED <<serviceVars, treeVars, cacheVars, read, attempt, outcome, object, seen>>
      /\ Goto(p, "remote") /\ "remote" \in Step \ {"idle", "await", "write", "exit"} /\ step[p] \notin {"write", "exit"}
  BY DEF Preprocess, Step
<1>4. 0 < MaxRetries
  BY ClientAssumption
<1>5. \A n \in 1 .. MaxRetries : ran[<<p, n>>] = "none"
  BY <1>1, CallsOf DEF ClientInv, AnswersTrue, AttemptsKnown
<1>6. QED
  BY <1>1, <1>2, <1>3, <1>4, <1>5, MoveInv, SMTT(30) DEF ClientInv, ClientTypeOK

LEMMA PreprocessFailsInv ==
  ASSUME ClientInv, NEW p \in Procs, PreprocessFails(p) PROVE ClientInv'
<1> DEFINE bare == [text |-> read[p].text, deps |-> Bare]
<1>1. bare \in Unit
  BY ClientAssumption DEF ClientInv, UnitsKnown, PreprocessFails, Unit, Texts, Bare
<1>2. /\ unit' = [unit EXCEPT ![p] = bare] /\ step[p] = "preprocess" /\ Goto(p, "remote")
      /\ UNCHANGED <<serviceVars, treeVars, cacheVars, read, attempt, outcome, object, seen>>
  BY DEF PreprocessFails
<1> HIDE DEF bare
<1>3. ClientTypeOK' /\ (tree.deps <= edits)' /\ ServiceTyped' /\ AnswersTrue'
  BY <1>1, <1>2 DEF ClientInv, ClientTypeOK, ServiceTyped, AnswersTrue, Goto, Step, serviceVars, treeVars, cacheVars
<1>4. ASSUME NEW q \in Procs PROVE AttemptsKnown(q)'
  BY <1>2, ClientAssumption DEF ClientInv, ClientTypeOK, AttemptsKnown, Goto, serviceVars
<1>5. ASSUME NEW q \in Procs PROVE UnitsKnown(q)'
  <2>1. CASE q = p
    <3>1. unit'[q] = bare /\ step'[q] = "remote" /\ read'[q] = read[q] /\ read[q] \in Unit
      BY <1>2, <2>1 DEF ClientInv, ClientTypeOK, UnitsKnown, Goto
    <3>2. \A n \in 1 .. MaxRetries : ran'[<<q, n>>] = "none"
      BY <1>2, <2>1, CallsOf DEF ClientInv, AnswersTrue, AttemptsKnown, serviceVars
    <3>3. object'[q] = NoUnit
      BY <1>2, <2>1 DEF ClientInv, UnitsKnown
    <3>4. QED
      BY <1>1, <3>1, <3>2, <3>3 DEF UnitsKnown
  <2>2. CASE q # p
    BY <1>2, <2>2 DEF ClientInv, ClientTypeOK, UnitsKnown, Goto, serviceVars
  <2>3. QED
    BY <2>1, <2>2
<1>6. QED
  BY <1>3, <1>4, <1>5 DEF ClientInv

LEMMA SubmitAttemptInv ==
  ASSUME ClientInv, NEW p \in Procs, SubmitAttempt(p) PROVE ClientInv'
<1>0. attempt' \in [Procs -> 0 .. MaxRetries]
  BY ClientAssumption DEF ClientInv, ClientTypeOK, AttemptsKnown, SubmitAttempt
<1>1. ClientTypeOK' /\ (tree.deps <= edits)'
  BY <1>0 DEF ClientInv, ClientTypeOK, SubmitAttempt, Goto, Step, treeVars, cacheVars
<1>2. ServiceTyped' /\ AnswersTrue'
  BY ClientAssumption, CallsOf DEF ClientInv, ClientTypeOK, ServiceTyped, AnswersTrue, AttemptsKnown, SubmitAttempt, serviceVars, Service!Submit
<1>3. ASSUME NEW q \in Procs PROVE AttemptsKnown(q)'
  BY <1>3, ClientAssumption, CallsOf DEF ClientInv, ClientTypeOK, ServiceTyped, AnswersTrue, AttemptsKnown, SubmitAttempt, Goto, serviceVars, Service!Submit
<1>4. ASSUME NEW q \in Procs PROVE UnitsKnown(q)'
  BY <1>4, ClientAssumption, CallsOf, SMTT(30) DEF ClientInv, ClientTypeOK, ServiceTyped, AnswersTrue, AttemptsKnown, UnitsKnown, SubmitAttempt, Goto, serviceVars, Unit, Texts, Service!Submit
<1>5. QED
  BY <1>1, <1>2, <1>3, <1>4 DEF ClientInv

LEMMA CoordinatorUnavailableInv ==
  ASSUME ClientInv, NEW p \in Procs, CoordinatorUnavailable(p) PROVE ClientInv'
<1>1. /\ attempt[p] \in Nat /\ attempt[p] + 1 \in 0 .. MaxRetries /\ MaxRetries \in Nat
      /\ read[p] \in Unit /\ unit[p] \in Unit
      /\ \A n \in 1 .. MaxRetries : ran[<<p, n>>] = "ok" => unit[p].text \notin Broken
  BY ClientAssumption DEF ClientInv, ClientTypeOK, AttemptsKnown, UnitsKnown, CoordinatorUnavailable
<1>2. /\ attempt' \in [Procs -> 0 .. MaxRetries] /\ attempt'[p] = attempt[p] + 1
      /\ \A q \in Procs \ {p} : attempt'[q] = attempt[q]
  BY <1>1 DEF ClientInv, ClientTypeOK, CoordinatorUnavailable
<1>3. UNCHANGED <<serviceVars, treeVars, cacheVars, read, unit, outcome, object, seen>> /\ step[p] \notin {"write", "exit"}
  BY DEF CoordinatorUnavailable
<1>4. PICK s \in {"remote", "fallback"} : Goto(p, s) /\ (s = "remote" => attempt[p] + 1 < MaxRetries)
  BY DEF CoordinatorUnavailable, RetryOrFallback
<1>5. s \in Step \ {"idle", "await", "write", "exit"}
  BY <1>4 DEF Step
<1>6. attempt'[p] >= attempt[p]
  BY <1>1, <1>2
<1>7. QED
  BY <1>1, <1>2, <1>3, <1>4, <1>5, <1>6, MoveInv DEF ClientInv, ClientTypeOK

LEMMA RpcFailsInv ==
  ASSUME ClientInv, NEW p \in Procs, RpcFails(p) PROVE ClientInv'
<1>1. /\ attempt[p] \in Nat /\ read[p] \in Unit /\ unit[p] \in Unit
      /\ \A n \in 1 .. MaxRetries : ran[<<p, n>>] = "ok" => unit[p].text \notin Broken
  BY ClientAssumption DEF ClientInv, ClientTypeOK, UnitsKnown, RpcFails
<1>2. UNCHANGED <<serviceVars, treeVars, cacheVars, read, unit, attempt, outcome, object, seen>> /\ step[p] \notin {"write", "exit"}
  BY DEF RpcFails
<1>3. PICK s \in {"remote", "fallback"} : Goto(p, s) /\ (s = "remote" => attempt[p] < MaxRetries)
  BY DEF RpcFails, RetryOrFallback
<1>4. s \in Step \ {"idle", "await", "write", "exit"}
  BY <1>3 DEF Step
<1>5. QED
  BY <1>1, <1>2, <1>3, <1>4, MoveInv DEF ClientInv, ClientTypeOK

LEMMA RemoteOkInv ==
  ASSUME ClientInv, NEW p \in Procs, RemoteOk(p) PROVE ClientInv'
<1>1. unit[p] \in Unit /\ read[p] \in Unit /\ step[p] = "await"
  BY DEF ClientInv, UnitsKnown, RemoteOk
<1>2. QED
  BY <1>1, StoreInv DEF RemoteOk

LEMMA StoreEndsInv ==
  ASSUME ClientInv, NEW p \in Procs, StoreEnds(p) PROVE ClientInv'
<1>1. object[p] \in Unit /\ generateCacheKeyRaw(p) \in Texts
  BY DEF ClientInv, UnitsKnown, StoreEnds, Writing, generateCacheKeyRaw, Unit
<1>2. cache' \in [Texts -> Unit \cup {NoUnit, Torn}] /\ indexed' \subseteq Texts /\ clash' \subseteq Procs
  BY <1>1 DEF ClientInv, ClientTypeOK, StoreEnds
<1>3. QED
  BY <1>1, <1>2, SucceedInv DEF StoreEnds, Object

LEMMA RemoteEmptyInv ==
  ASSUME ClientInv, NEW p \in Procs, RemoteEmpty(p) PROVE ClientInv'
BY SucceedInv DEF RemoteEmpty, ClientInv, ClientTypeOK, cacheVars, Object

LEMMA RemoteNonZeroInv ==
  ASSUME ClientInv, NEW p \in Procs, RemoteNonZero(p) PROVE ClientInv'
<1>1. Exit(p, "failed", NoUnit) /\ UNCHANGED <<serviceVars, treeVars, cacheVars, read, unit, attempt, seen>>
  BY DEF RemoteNonZero
<1>2. QED
  BY <1>1, ExitInv DEF ClientInv, ClientTypeOK, Outcome, Object, cacheVars

LEMMA FallbackPreprocessInv ==
  ASSUME ClientInv, NEW p \in Procs, FallbackPreprocess(p) PROVE ClientInv'
<1>1. tree \in Unit /\ read[p] \in Unit /\ attempt[p] \in Nat
  BY DEF ClientInv, ClientTypeOK, UnitsKnown, FallbackPreprocess
<1>2. /\ unit' \in [Procs -> Unit \cup {NoUnit}]
      /\ unit'[p] = tree /\ \A q \in Procs \ {p} : unit'[q] = unit[q]
  BY <1>1 DEF ClientInv, ClientTypeOK, FallbackPreprocess
<1>3. /\ UNCHANGED <<serviceVars, treeVars, cacheVars, read, attempt, outcome, object, seen>>
      /\ Goto(p, "local") /\ "local" \in Step \ {"idle", "await", "write", "exit"} /\ step[p] \notin {"write", "exit"}
  BY DEF FallbackPreprocess, Step
<1>4. QED
  BY <1>1, <1>2, <1>3, MoveInv DEF ClientInv, ClientTypeOK

LEMMA FallbackImpossibleInv ==
  ASSUME ClientInv, NEW p \in Procs, FallbackImpossible(p) PROVE ClientInv'
<1>1. Exit(p, "error", NoUnit) /\ UNCHANGED <<serviceVars, treeVars, cacheVars, read, unit, attempt, seen>>
  BY DEF FallbackImpossible
<1>2. QED
  BY <1>1, ExitInv DEF ClientInv, ClientTypeOK, Outcome, Object, cacheVars

LEMMA CompileLocalInv ==
  ASSUME ClientInv, NEW p \in Procs, CompileLocal(p) PROVE ClientInv'
<1>1. unit[p] \in Unit /\ (step[p] = "local" => read[p] \in Unit)
  BY DEF ClientInv, UnitsKnown, CompileLocal
<1>2. CASE step[p] = "local"
  BY <1>1, <1>2, StoreInv DEF CompileLocal
<1>3. CASE step[p] # "local"
  BY <1>1, <1>3, SucceedInv DEF CompileLocal, ClientInv, ClientTypeOK, cacheVars, Object
<1>4. QED
  BY <1>2, <1>3

LEMMA CompileLocalFailsInv ==
  ASSUME ClientInv, NEW p \in Procs, CompileLocalFails(p) PROVE ClientInv'
<1>1. PICK how \in Outcome : Exit(p, how, NoUnit)
  BY DEF CompileLocalFails, Outcome
<1>2. QED
  BY <1>1, ExitInv DEF CompileLocalFails, ClientInv, ClientTypeOK, Object, cacheVars

-----------------------------------------------------------------------------
(* The surroundings *)

LEMMA KilledInv ==
  ASSUME ClientInv, NEW p \in Procs, Killed(p) PROVE ClientInv'
BY ExitInv DEF Killed, ClientInv, ClientTypeOK, Outcome, Object, cacheVars

LEMMA ServiceStepInv == ASSUME ClientInv, ServiceStep PROVE ClientInv'
<1>1. ClientTypeOK' /\ (tree.deps <= edits)'
  BY DEF ClientInv, ClientTypeOK, ServiceStep, procVars, treeVars, cacheVars
<1> SUFFICES ServiceTyped' /\ AnswersTrue' /\ \A q \in Procs : AttemptsKnown(q)' /\ UnitsKnown(q)'
  BY <1>1 DEF ClientInv
<1>2. UNCHANGED <<step, read, unit, attempt, outcome, object>>
  BY DEF ServiceStep, procVars
<1>3. ASSUME NEW c \in Calls, NEW r \in {"ok", "fail"}, Service!Run(c, r),
             r = "ok" => unit[c[1]].text \notin Broken
      PROVE  ServiceTyped' /\ AnswersTrue' /\ \A q \in Procs : AttemptsKnown(q)' /\ UnitsKnown(q)'
  <2>1. ServiceTyped' /\ AnswersTrue'
    BY <1>3 DEF ClientInv, ServiceTyped, AnswersTrue, Service!Run, Service!NotDispatched
  <2>2. ASSUME NEW q \in Procs PROVE AttemptsKnown(q)' /\ UnitsKnown(q)'
    <3>1. \A n \in 1 .. MaxRetries : /\ <<q, n>> \in Calls
                                     /\ <<q, n>> = c => q = c[1]
                                     /\ <<q, n>> # c => ran'[<<q, n>>] = ran[<<q, n>>]
                                     /\ status'[<<q, n>>] = status[<<q, n>>]
      BY <1>3, CallsOf DEF Service!Run, ClientInv, ServiceTyped
    <3>2. ran'[c] = r
      BY <1>3 DEF Service!Run, ClientInv, ServiceTyped
    <3>3. AttemptsKnown(q)'
      BY <1>2, <3>1 DEF ClientInv, AttemptsKnown
    <3>4. UnitsKnown(q)'
      BY <1>2, <1>3, <3>1, <3>2 DEF ClientInv, UnitsKnown
    <3>5. QED
      BY <3>3, <3>4
  <2>3. QED
    BY <2>1, <2>2
<1>4. ASSUME NEW c \in Calls, NEW a \in {"ok", "fail", "error", "noworker"}, Service!Answer(c, a)
      PROVE  ServiceTyped' /\ AnswersTrue' /\ \A q \in Procs : AttemptsKnown(q)' /\ UnitsKnown(q)'
  <2>1. status[c] = "pending" /\ (a \in {"ok", "fail"} => ran[c] = a)
    BY <1>4 DEF Service!Answer, Service!Justified
  <2>2. ServiceTyped' /\ AnswersTrue'
    BY <1>4, <2>1 DEF ClientInv, ServiceTyped, AnswersTrue, Service!Answer, Service!Answers, Service!NotDispatched
  <2>3. ASSUME NEW q \in Procs PROVE AttemptsKnown(q)' /\ UnitsKnown(q)'
    BY <1>2, <1>4, <2>1, <2>3, CallsOf DEF ClientInv, ServiceTyped, AttemptsKnown, UnitsKnown, Service!Answer
  <2>4. QED
    BY <2>2, <2>3
<1>5. ASSUME Service!BreakPending
      PROVE  ServiceTyped' /\ AnswersTrue' /\ \A q \in Procs : AttemptsKnown(q)' /\ UnitsKnown(q)'
  BY <1>2, <1>5, CallsOf DEF ClientInv, ServiceTyped, AnswersTrue, AttemptsKnown, UnitsKnown, Service!BreakPending
<1>6. QED
  BY <1>3, <1>4, <1>5 DEF ServiceStep

LEMMA EditInv == ASSUME ClientInv, Edit PROVE ClientInv'
<1> DEFINE d == tree.deps  t == tree.text
<1>0. /\ tree = [text |-> t, deps |-> d] /\ t \in 0 .. MaxEdits
      /\ d \in Nat /\ edits \in Nat /\ d <= edits /\ edits < MaxEdits /\ edits' = edits + 1
  BY ClientAssumption DEF ClientInv, ClientTypeOK, Edit, Unit, Texts
<1>1. tree' \in Unit /\ tree'.deps <= edits' /\ edits' \in 0 .. MaxEdits
  <2>1. ASSUME NEW u \in Texts, tree' = [tree EXCEPT !.text = u]
        PROVE  tree' \in Unit /\ tree'.deps <= edits'
    <3>1. tree' = [text |-> u, deps |-> d]
      BY <1>0, <2>1
    <3>2. QED
      BY <1>0, <2>1, <3>1, ClientAssumption DEF Unit, Texts
  <2>2. ASSUME tree' = [tree EXCEPT !.deps = @ + 1]
        PROVE  tree' \in Unit /\ tree'.deps <= edits'
    <3>1. tree' = [text |-> t, deps |-> d + 1]
      BY <1>0, <2>2
    <3>2. QED
      BY <1>0, <3>1, ClientAssumption DEF Unit, Texts
  <2>3. QED
    BY <1>0, <2>1, <2>2, ClientAssumption DEF Edit
<1>2. ClientTypeOK'
  BY <1>1 DEF ClientInv, ClientTypeOK, Edit, cacheVars
<1>3. ServiceTyped' /\ AnswersTrue'
  BY DEF ClientInv, ServiceTyped, AnswersTrue, Edit, serviceVars
<1>4. \A q \in Procs : AttemptsKnown(q)' /\ UnitsKnown(q)'
  BY DEF ClientInv, AttemptsKnown, UnitsKnown, Edit, serviceVars
<1>5. QED
  BY <1>1, <1>2, <1>3, <1>4 DEF ClientInv

LEMMA StutterInv == ASSUME ClientInv, UNCHANGED vars PROVE ClientInv'
BY DEF ClientInv, ClientTypeOK, ServiceTyped, AnswersTrue, AttemptsKnown, UnitsKnown, vars, serviceVars, treeVars, cacheVars, procVars

LEMMA InitInv == Init => ClientInv
BY ClientAssumption, CallsOf DEF Init, Service!Init, ClientInv, ClientTypeOK, ServiceTyped, AnswersTrue, AttemptsKnown, UnitsKnown, Unit, Texts, NoUnit, Object, Step, Outcome

LEMMA NextInv == ClientInv /\ [Next]_vars => ClientInv'
<1> SUFFICES ASSUME ClientInv, [Next]_vars PROVE ClientInv'
  OBVIOUS
<1>1. ASSUME NEW p \in Procs, ProcStep(p) PROVE ClientInv'
  BY <1>1, ReadSourceInv, SourceUnreadableInv, NoCoordinatorInv, CacheHitInv, CacheMissInv, PreprocessInv, PreprocessFailsInv, SubmitAttemptInv, CoordinatorUnavailableInv, RpcFailsInv, RemoteOkInv, StoreEndsInv, RemoteEmptyInv, RemoteNonZeroInv, FallbackPreprocessInv, FallbackImpossibleInv, CompileLocalInv, CompileLocalFailsInv DEF ProcStep
<1>2. QED
  BY <1>1, KilledInv, ServiceStepInv, EditInv, StutterInv DEF Next

(* The state of every invocation keeps its shape, and no more than         *)
(* MaxRetries attempts are made (compileRemotePreprocessed and             *)
(* compileRemoteRaw), whatever the coordinator answers or fails to answer. *)
THEOREM ClientTypeCorrect == Spec => []ClientTypeOK
<1>1. ClientInv => ClientTypeOK
  BY DEF ClientInv
<1>2. QED
  BY InitInv, NextInv, <1>1, PTL DEF Spec

-----------------------------------------------------------------------------
(* What a step leaves alone *)

(* A step of one invocation changes nothing of another. *)
LEMMA OthersKept ==
  ASSUME ClientInv, NEW p \in Procs, NEW q \in Procs, q # p, ProcStep(q) \/ Killed(q)
  PROVE  /\ step'[p] = step[p] /\ read'[p] = read[p] /\ unit'[p] = unit[p] /\ attempt'[p] = attempt[p]
         /\ outcome'[p] = outcome[p] /\ object'[p] = object[p] /\ seen'[p] = seen[p]
<1>0. /\ step \in [Procs -> Step] /\ outcome \in [Procs -> Outcome] /\ object \in [Procs -> Object]
      /\ read \in [Procs -> Unit \cup {NoUnit}] /\ unit \in [Procs -> Unit \cup {NoUnit}]
      /\ attempt \in [Procs -> 0 .. MaxRetries] /\ seen \in [Procs -> SUBSET Unit]
  BY DEF ClientInv, ClientTypeOK
<1>1. CASE ProcStep(q)
  BY <1>0, <1>1 DEF ProcStep, ReadSource, SourceUnreadable, NoCoordinator, CacheHit, CacheMiss, Preprocess, PreprocessFails, SubmitAttempt, CoordinatorUnavailable, RpcFails, RemoteOk, StoreEnds, RemoteEmpty, RemoteNonZero, FallbackPreprocess, FallbackImpossible, CompileLocal, CompileLocalFails, Store, Succeed, Exit, Goto, RetryOrFallback
<1>2. CASE Killed(q)
  BY <1>0, <1>2 DEF Killed, Exit, Goto
<1>3. QED
  BY <1>1, <1>2

(* No step of an invocation touches the answers of the service or the tree.*)
LEMMA ServiceKept ==
  ASSUME NEW p \in Procs, ProcStep(p) \/ Killed(p) PROVE UNCHANGED <<answer, treeVars>>
BY DEF ProcStep, ReadSource, SourceUnreadable, NoCoordinator, CacheHit, CacheMiss, Preprocess, PreprocessFails, SubmitAttempt, CoordinatorUnavailable, RpcFails, RemoteOk, StoreEnds, RemoteEmpty, RemoteNonZero, FallbackPreprocess, FallbackImpossible, CompileLocal, CompileLocalFails, Killed, serviceVars, Service!Submit

(* An answer, once given, is never taken back or replaced. *)
LEMMA AnswersPersist ==
  ASSUME ClientInv, [Next]_vars, NEW c \in Calls, answer[c] # "none"
  PROVE  answer'[c] = answer[c]
<1>1. ASSUME NEW d \in Calls, NEW a \in {"ok", "fail", "error", "noworker"}, Service!Answer(d, a)
      PROVE  answer'[c] = answer[c]
  <2>1. status[d] = "pending"
    BY <1>1 DEF Service!Answer, Service!Justified
  <2>2. d # c
    BY <2>1 DEF ClientInv, AnswersTrue
  <2>3. QED
    BY <1>1, <2>2 DEF Service!Answer, ClientInv, ServiceTyped
<1>2. CASE ServiceStep
  BY <1>1, <1>2 DEF ServiceStep, Service!Run, Service!BreakPending
<1>3. QED
  BY <1>2, ServiceKept DEF Next, Edit, vars, serviceVars

(* An invocation that ended keeps all it has. *)
LEMMA ExitIsFinal ==
  ASSUME ClientInv, [Next]_vars, NEW p \in Procs, step[p] = "exit"
  PROVE  /\ step'[p] = "exit" /\ read'[p] = read[p] /\ unit'[p] = unit[p] /\ attempt'[p] = attempt[p]
         /\ outcome'[p] = outcome[p] /\ object'[p] = object[p] /\ seen'[p] = seen[p]
<1>1. ~ProcStep(p) /\ ~Killed(p)
  BY DEF ProcStep, ReadSource, SourceUnreadable, NoCoordinator, CacheHit, CacheMiss, Preprocess, PreprocessFails, SubmitAttempt, CoordinatorUnavailable, RpcFails, RemoteOk, StoreEnds, RemoteEmpty, RemoteNonZero, FallbackPreprocess, FallbackImpossible, CompileLocal, CompileLocalFails, Killed, Active, Writing
<1>2. CASE Edit
  BY <1>2 DEF Edit, Active, ClientInv, ClientTypeOK
<1>3. CASE ServiceStep \/ UNCHANGED vars
  BY <1>3 DEF ServiceStep, vars, procVars
<1>4. QED
  BY <1>1, <1>2, <1>3, OthersKept DEF Next

-----------------------------------------------------------------------------
(* Success over the wire *)

LEMMA StepJustified ==
  ASSUME ClientInv, [Next]_vars, NEW p \in Procs, step[p] = "await", object'[p] # NoUnit
  PROVE  /\ status[Call(p)] = "answered"
         /\ IF object'[p] = Empty
              THEN answer[Call(p)] = "fail" /\ ran[Call(p)] = "fail"
              ELSE ran[Call(p)] = "ok" /\ object'[p].text \notin Broken
<1>1. object[p] = NoUnit /\ object \in [Procs -> Object] /\ unit[p] \in Unit
  BY DEF ClientInv, UnitsKnown, ClientTypeOK
<1>2. attempt[p] \in 1 .. MaxRetries /\ Call(p) \in Calls
  BY ClientAssumption, CallsOf DEF ClientInv, ClientTypeOK, AttemptsKnown, Call
<1>3. RemoteOk(p) \/ RemoteEmpty(p)
  <2>1. ASSUME ProcStep(p) \/ Killed(p), ~RemoteOk(p), ~RemoteEmpty(p) PROVE FALSE
    BY <1>1, <2>1 DEF ProcStep, ReadSource, SourceUnreadable, NoCoordinator, CacheHit, CacheMiss, Preprocess, PreprocessFails, SubmitAttempt, CoordinatorUnavailable, RpcFails, StoreEnds, RemoteNonZero, FallbackPreprocess, FallbackImpossible, CompileLocal, CompileLocalFails, RemoteEmpty, RemoteOk, Killed, Writing, Exit
  <2>2. ~ServiceStep /\ ~Edit /\ ~UNCHANGED vars
    BY <1>1 DEF ServiceStep, Edit, vars, procVars
  <2>3. QED
    BY <1>1, <2>1, <2>2, OthersKept DEF Next
<1>4. CASE RemoteOk(p)
  <2>1. answer[Call(p)] = "ok" /\ object'[p] = unit[p]
    BY <1>1, <1>4 DEF RemoteOk, Store, Succeed, Exit
  <2>2. ran[Call(p)] = "ok" /\ status[Call(p)] = "answered"
    BY <1>2, <2>1 DEF ClientInv, AnswersTrue
  <2>3. unit[p].text \notin Broken
    BY <1>2, <2>2 DEF ClientInv, UnitsKnown, Call
  <2>4. QED
    BY <1>1, <2>1, <2>2, <2>3, NotUnits
<1>5. CASE RemoteEmpty(p)
  <2>1. answer[Call(p)] = "fail" /\ object'[p] = Empty
    BY <1>1, <1>5 DEF RemoteEmpty, Succeed, Exit
  <2>2. QED
    BY <1>2, <2>1 DEF ClientInv, AnswersTrue
<1>6. QED
  BY <1>3, <1>4, <1>5

(* An object that comes over the wire is the result of the latest          *)
(* attempt's own run, which the compiler accepted, unless it is empty and  *)
(* the answer said that the run failed.  A late result of an attempt that  *)
(* was given up never becomes the output (compileRemotePreprocessed).      *)
THEOREM RemoteSuccessIsJustified == Spec => RemoteSuccessJustified
<1>1. ClientInv /\ [Next]_vars =>
        [\A p \in Procs :
           step[p] = "await" /\ object'[p] # NoUnit
           => /\ status[Call(p)] = "answered"
              /\ IF object'[p] = Empty
                   THEN answer[Call(p)] = "fail" /\ ran[Call(p)] = "fail"
                   ELSE ran[Call(p)] = "ok" /\ object'[p].text \notin Broken]_vars
  BY StepJustified
<1>2. QED
  BY InitInv, NextInv, <1>1, PTL DEF Spec, RemoteSuccessJustified

-----------------------------------------------------------------------------
(* Outages *)

LEMMA OutageStep ==
  ASSUME ClientInv, OutageAbsorbed, [Next]_vars, FallbackEnabled, LocalToolsWork, NEW p \in Procs
  PROVE  /\ outcome'[p] # "error"
         /\ outcome'[p] = "failed" =>
              \/ unit'[p].text \in Broken
              \/ \E n \in 1 .. MaxRetries : answer'[<<p, n>>] \in Service!Answers \ {"ok"}
<1>0. /\ step \in [Procs -> Step] /\ outcome \in [Procs -> Outcome]
      /\ unit \in [Procs -> Unit \cup {NoUnit}] /\ answer \in [Calls -> Service!Answers \cup {"none"}]
  BY DEF ClientInv, ClientTypeOK, ServiceTyped
<1>1. CASE step[p] = "exit"
  <2>1. outcome'[p] = outcome[p] /\ unit'[p] = unit[p]
    BY <1>1, ExitIsFinal
  <2>2. \A n \in 1 .. MaxRetries : answer[<<p, n>>] \in Service!Answers \ {"ok"} => answer'[<<p, n>>] = answer[<<p, n>>]
    BY AnswersPersist, CallsOf DEF Service!Answers, Service!NotDispatched
  <2>3. QED
    BY <2>1, <2>2 DEF OutageAbsorbed
<1>2. CASE step[p] # "exit"
  <2>0. outcome[p] = "none"
    BY <1>2 DEF ClientInv, AttemptsKnown
  <2>1. ASSUME NEW q \in Procs, q # p, ProcStep(q) \/ Killed(q) PROVE outcome'[p] = "none"
    BY <2>0, <2>1, OthersKept
  <2>2. CASE RemoteNonZero(p)
    <3>1. attempt[p] \in 1 .. MaxRetries
      BY <2>2, ClientAssumption DEF ClientInv, ClientTypeOK, AttemptsKnown, RemoteNonZero
    <3>2. answer' = answer /\ outcome'[p] = "failed"
      BY <1>0, <2>2 DEF RemoteNonZero, Exit, serviceVars
    <3>3. QED
      BY <2>2, <3>1, <3>2 DEF RemoteNonZero, Call
  <2>3. CASE CompileLocalFails(p)
    BY <1>0, <2>3 DEF CompileLocalFails, Exit, LocalToolsWork
  <2>4. ASSUME ProcStep(p), ~RemoteNonZero(p), ~CompileLocalFails(p) PROVE outcome'[p] \in {"none", "ok"}
    BY <1>0, <2>0, <2>4 DEF LocalToolsWork, ProcStep, ReadSource, SourceUnreadable, NoCoordinator, CacheHit, CacheMiss, Preprocess, PreprocessFails, SubmitAttempt, CoordinatorUnavailable, RpcFails, RemoteOk, StoreEnds, RemoteEmpty, RemoteNonZero, FallbackPreprocess, FallbackImpossible, CompileLocal, CompileLocalFails, Store, Succeed, Exit
  <2>5. CASE Killed(p)
    BY <1>0, <2>5 DEF Killed, Exit
  <2>6. QED
    BY <2>0, <2>1, <2>2, <2>3, <2>4, <2>5 DEF Next, Edit, ServiceStep, vars, procVars
<1>3. QED
  BY <1>1, <1>2

(* With fallback enabled and working local tools, no outage of the         *)
(* coordinator makes an invocation fail (Service.Build): only a source the *)
(* compiler rejects, or an answer that says so.                            *)
THEOREM OutagesAbsorbed == Spec => []OutageAbsorbed
<1>1. Init => OutageAbsorbed
  BY DEF Init, OutageAbsorbed
<1>2. ClientInv /\ OutageAbsorbed /\ [Next]_vars => OutageAbsorbed'
  BY OutageStep DEF OutageAbsorbed
<1>3. QED
  BY InitInv, NextInv, <1>1, <1>2, PTL DEF Spec

-----------------------------------------------------------------------------
(* Currency of the object *)

(* Only source texts change, only between builds, and the preprocessor     *)
(* works: what the cache key of generateCacheKeyRaw takes for granted.     *)
OnlyTextsChange ==
  ~May("edit_deps") /\ ~May("preprocess_fails") /\ ~May("edit_while_building")

Reading   == {"lookup", "preprocess", "remote", "await", "fallback", "local", "write"}
Compiling == {"remote", "await", "fallback", "local", "direct", "write"}

(* What a running invocation knows of the tree is still true of it. *)
Knows(p) ==
  /\ Active(p) => tree \in seen[p]
  /\ step[p] \in Reading => read[p] = tree
  /\ step[p] \in Compiling => unit[p] = tree
  /\ Writing(p) => object[p] = tree /\ cache[tree.text] # NoUnit

(* An invocation is writing, or may have written, the file of a text. *)
Wrote(q, t) ==
  /\ read[q] # NoUnit /\ read[q].text = t /\ unit[q] # NoUnit
  /\ Writing(q) \/ outcome[q] \in {"ok", "error", "killed"}

(* A file is the object of the text that it is stored under, or torn by an *)
(* invocation that wrote it.                                               *)
CacheTrue ==
  \A t \in Texts :
    /\ cache[t] \in {NoUnit, Torn, [text |-> t, deps |-> 0]}
    /\ t \in indexed => cache[t] # NoUnit
    /\ cache[t] = Torn => \E q \in Procs : Wrote(q, t)

(* The part of SuccessIsCurrent that is about one invocation. *)
Current(p) ==
  outcome[p] = "ok" =>
    \/ object[p] \in seen[p]
    \/ object[p] = Empty /\ attempt[p] > 0 /\ answer[Call(p)] = "fail"
    \/ object[p] = Torn /\ Rewritten(p)

CurrentInv ==
  /\ tree.deps = 0
  /\ CacheTrue
  /\ \A p \in Procs : Knows(p) /\ Current(p)

(* What was written stays written. *)
LEMMA WroteStays ==
  ASSUME ClientInv, [Next]_vars, NEW q \in Procs, NEW t \in Texts, Wrote(q, t)
  PROVE  Wrote(q, t)'
<1>1. CASE step[q] = "exit"
  BY <1>1, ExitIsFinal DEF Wrote, Writing
<1>2. CASE step[q] # "exit"
  <2>0. Writing(q)
    BY <1>2 DEF Wrote, ClientInv, AttemptsKnown
  <2>1. CASE ProcStep(q) \/ Killed(q)
    <3>1. StoreEnds(q) \/ Killed(q)
      BY <2>0, <2>1 DEF ProcStep, ReadSource, SourceUnreadable, NoCoordinator, CacheHit, CacheMiss, Preprocess, PreprocessFails, SubmitAttempt, CoordinatorUnavailable, RpcFails, RemoteOk, StoreEnds, RemoteEmpty, RemoteNonZero, FallbackPreprocess, FallbackImpossible, CompileLocal, CompileLocalFails, Writing
    <3>2. outcome'[q] \in {"ok", "error", "killed"} /\ read' = read /\ unit' = unit
      BY <3>1 DEF StoreEnds, Killed, Succeed, Exit, ClientInv, ClientTypeOK
    <3>3. QED
      BY <3>2 DEF Wrote
  <2>2. CASE ServiceStep \/ Edit \/ UNCHANGED vars
    BY <2>2 DEF Wrote, Writing, ServiceStep, Edit, vars, procVars
  <2>3. CASE \E p \in Procs \ {q} : ProcStep(p) \/ Killed(p)
    BY <2>3, OthersKept DEF Wrote, Writing
  <2>4. QED
    BY <2>1, <2>2, <2>3 DEF Next
<1>3. QED
  BY <1>1, <1>2

(* An object that was current stays so, whatever the others do. *)
LEMMA CurrentStays ==
  ASSUME ClientInv, [Next]_vars, NEW p \in Procs, Current(p),
         outcome'[p] = outcome[p] /\ object'[p] = object[p]
         /\ seen'[p] = seen[p] /\ attempt'[p] = attempt[p] /\ read'[p] = read[p]
  PROVE  Current(p)'
<1>1. Rewritten(p) => Rewritten(p)'
  <2> SUFFICES ASSUME NEW q \in Procs \ {p}, read[q] # NoUnit, read[q].text = read[p].text,
                      unit[q] # NoUnit, Writing(q) \/ outcome[q] \in {"ok", "error", "killed"}
               PROVE  Rewritten(p)'
    BY DEF Rewritten, generateCacheKeyRaw
  <2>1. read[q] \in Unit /\ read[q].text \in Texts
    BY DEF ClientInv, ClientTypeOK, Unit
  <2>2. Wrote(q, read[q].text)
    BY DEF Wrote
  <2>3. Wrote(q, read[q].text)'
    <3> DEFINE t == read[q].text
    <3>1. ASSUME NEW u \in Texts, Wrote(q, u) PROVE Wrote(q, u)'
      BY <3>1, WroteStays
    <3>2. read'[q] # NoUnit /\ read'[q].text = t /\ unit'[q] # NoUnit
          /\ (Writing(q)' \/ outcome'[q] \in {"ok", "error", "killed"})
      BY <2>1, <2>2, <3>1 DEF Wrote
    <3>3. QED
      BY <3>2 DEF Wrote
  <2>4. QED
    BY <2>1, <2>2, WroteStays DEF Rewritten, generateCacheKeyRaw, Wrote
<1>2. attempt[p] > 0 /\ answer[Call(p)] = "fail" => answer'[Call(p)'] = "fail"
  <2> SUFFICES ASSUME attempt[p] > 0, answer[Call(p)] = "fail" PROVE answer'[Call(p)'] = "fail"
    OBVIOUS
  <2>1. Call(p) \in Calls /\ Call(p)' = Call(p)
    BY CallsOf, ClientAssumption DEF Call, ClientInv, ClientTypeOK
  <2>2. QED
    BY <2>1, AnswersPersist
<1>3. QED
  BY <1>1, <1>2 DEF Current

(* An invocation exits with the object of the tree, or without success. *)
LEMMA ExitsCurrent ==
  ASSUME ClientInv, NEW p \in Procs, NEW how \in Outcome, NEW what \in Object, Exit(p, how, what),
         how = "ok" => what = tree /\ tree \in seen[p], UNCHANGED seen
  PROVE  Knows(p)' /\ Current(p)'
BY DEF ClientInv, ClientTypeOK, Exit, Goto, Knows, Current, Active, Writing, Reading, Compiling

(* An invocation goes on, and what it knows is true. *)
LEMMA MovesCurrent ==
  ASSUME ClientInv, NEW p \in Procs, NEW s \in Step \ {"exit", "write"}, Goto(p, s),
         UNCHANGED <<outcome, tree>>, step[p] # "exit", tree \in seen'[p],
         s \in Reading => read'[p] = tree, s \in Compiling => unit'[p] = tree
  PROVE  Knows(p)' /\ Current(p)'
<1>1. outcome'[p] = "none" /\ step'[p] = s
  BY DEF ClientInv, ClientTypeOK, AttemptsKnown, Goto
<1>2. QED
  BY <1>1 DEF Knows, Current, Active, Writing

(* A step of an invocation stores what the tree holds, or tears the file   *)
(* it is writing.                                                          *)
Stores(p) ==
  /\ \/ UNCHANGED cache
     \/ /\ \E w \in {tree, Torn} : cache' = [cache EXCEPT ![tree.text] = w]
        /\ Wrote(p, tree.text)'
  /\ \/ UNCHANGED indexed
     \/ indexed' = indexed \cup {tree.text} /\ cache'[tree.text] # NoUnit

LEMMA StoreCurrent ==
  ASSUME ClientInv, CurrentInv, NEW p \in Procs, Store(p, unit[p]), step[p] \in {"await", "local"},
         UNCHANGED <<treeVars, read, unit, attempt, seen>>
  PROVE  Stores(p) /\ Knows(p)' /\ Current(p)'
<1>0. /\ read[p] = tree /\ unit[p] = tree /\ tree \in seen[p] /\ outcome[p] = "none"
      /\ tree \in Unit /\ tree # NoUnit /\ tree.text \in Texts /\ tree \in Object /\ tree' = tree
  BY NotUnits DEF CurrentInv, Knows, Active, Reading, Compiling, ClientInv, ClientTypeOK, AttemptsKnown, Unit, Object, treeVars
<1>1. CASE Succeed(p, unit[p]) /\ UNCHANGED cacheVars
  <2>1. PICK how \in Outcome, what \in Object : Exit(p, how, what) /\ (how = "ok" => what = tree)
    BY <1>0, <1>1 DEF Succeed, Outcome, Object
  <2>2. QED
    BY <1>0, <1>1, <2>1, ExitsCurrent DEF Stores, cacheVars
<1>2. CASE /\ Goto(p, "write") /\ object' = [object EXCEPT ![p] = unit[p]]
           /\ cache' = [cache EXCEPT ![generateCacheKeyRaw(p)] = Torn]
           /\ UNCHANGED <<indexed, outcome>>
  <2>1. /\ step'[p] = "write" /\ object'[p] = tree /\ outcome'[p] = "none"
        /\ cache' = [cache EXCEPT ![tree.text] = Torn] /\ cache'[tree.text] = Torn
    BY <1>0, <1>2 DEF ClientInv, ClientTypeOK, Goto, generateCacheKeyRaw
  <2>2. Stores(p)
    BY <1>0, <1>2, <2>1 DEF Stores, Wrote, Writing
  <2>3. Knows(p)'
    BY <1>0, <2>1, NotUnits DEF Knows
  <2>4. QED
    BY <2>1, <2>2, <2>3 DEF Current
<1>3. QED
  BY <1>1, <1>2 DEF Store

LEMMA StoreEndsCurrent ==
  ASSUME ClientInv, CurrentInv, NEW p \in Procs, StoreEnds(p) PROVE Stores(p) /\ Knows(p)' /\ Current(p)'
<1>0. /\ read[p] = tree /\ unit[p] = tree /\ object[p] = tree /\ tree \in seen[p]
      /\ cache[tree.text] # NoUnit /\ generateCacheKeyRaw(p) = tree.text
      /\ tree \in Unit /\ tree # NoUnit /\ tree.text \in Texts /\ tree \in Object /\ tree.deps = 0
  BY NotUnits DEF StoreEnds, Writing, CurrentInv, Knows, Active, Reading, Compiling, ClientInv, ClientTypeOK, Unit, Object, generateCacheKeyRaw
<1>1. PICK how \in {"ok", "error"}, what \in Object : Exit(p, how, what) /\ (how = "ok" => what = tree)
  BY <1>0 DEF StoreEnds, Succeed, Object
<1>2. Knows(p)' /\ Current(p)'
  BY <1>0, <1>1, ExitsCurrent DEF StoreEnds, Outcome
<1>3. cache[tree.text] \in {tree, Torn}
  <2>1. tree = [text |-> tree.text, deps |-> 0]
    BY <1>0 DEF Unit
  <2>2. QED
    BY <1>0, <2>1 DEF CurrentInv, CacheTrue
<1>4. Wrote(p, tree.text)'
  BY <1>0, <1>1 DEF StoreEnds, Exit, Wrote, ClientInv, ClientTypeOK, treeVars
<1>5. CASE UNCHANGED <<cache, indexed>>
  BY <1>2, <1>5 DEF Stores
<1>6. CASE ~UNCHANGED <<cache, indexed>>
  <2>1. PICK w \in {tree, Torn} : cache' = [cache EXCEPT ![tree.text] = w]
    BY <1>0, <1>3, <1>6 DEF StoreEnds
  <2>2. indexed' = indexed \cup {tree.text}
    BY <1>0, <1>6 DEF StoreEnds
  <2>3. cache'[tree.text] # NoUnit
    BY <1>0, <2>1, NotUnits DEF ClientInv, ClientTypeOK
  <2>4. QED
    BY <1>2, <1>4, <2>1, <2>2, <2>3 DEF Stores
<1>7. QED
  BY <1>2, <1>5, <1>6 DEF Stores

LEMMA CacheHitCurrent ==
  ASSUME ClientInv, CurrentInv, NEW p \in Procs, CacheHit(p) PROVE Knows(p)' /\ Current(p)'
<1>0. /\ read[p] = tree /\ tree \in seen[p] /\ outcome[p] = "none" /\ ~Writing(p)
      /\ generateCacheKeyRaw(p) = tree.text /\ tree.text \in indexed
      /\ tree \in Unit /\ tree.text \in Texts /\ tree \in Object /\ tree.deps = 0
      /\ Torn \in Object /\ NoUnit \in Object
  BY DEF CacheHit, Writing, CurrentInv, Knows, Active, Reading, ClientInv, ClientTypeOK, AttemptsKnown, Unit, Object, generateCacheKeyRaw
<1>1. tree = [text |-> tree.text, deps |-> 0]
  BY <1>0 DEF Unit
<1>2. /\ cache[tree.text] \in {tree, Torn}
      /\ cache[tree.text] = Torn => \E q \in Procs : Wrote(q, tree.text)
  BY <1>0, <1>1 DEF CurrentInv, CacheTrue
<1>3. UNCHANGED <<read, unit, seen>>
  BY DEF CacheHit
<1>4. CASE Exit(p, "error", NoUnit)
  BY <1>0, <1>3, <1>4, ExitsCurrent DEF Outcome
<1>5. CASE Exit(p, "ok", cache[tree.text]) /\ cache[tree.text] = tree
  BY <1>0, <1>3, <1>5, ExitsCurrent DEF Outcome
<1>6. CASE Exit(p, "ok", Torn) /\ cache[tree.text] = Torn
  <2>1. PICK q \in Procs : Wrote(q, tree.text)
    BY <1>2, <1>6
  <2>2. q # p
    BY <1>0, <2>1 DEF Wrote
  <2>3. Rewritten(p)'
    BY <1>0, <1>3, <1>6, <2>1, <2>2 DEF Rewritten, Wrote, Writing, generateCacheKeyRaw, Exit, Goto, ClientInv, ClientTypeOK
  <2>4. object'[p] = Torn /\ step'[p] = "exit"
    BY <1>6 DEF Exit, Goto, ClientInv, ClientTypeOK
  <2>5. QED
    BY <2>3, <2>4 DEF Current, Knows, Active, Writing, Reading, Compiling
<1>7. QED
  BY <1>0, <1>2, <1>4, <1>5, <1>6 DEF CacheHit, Succeed

LEMMA RemoteEmptyCurrent ==
  ASSUME ClientInv, NEW p \in Procs, RemoteEmpty(p) PROVE Knows(p)' /\ Current(p)'
<1>1. step[p] = "await" /\ attempt'[p] > 0 /\ answer'[Call(p)'] = "fail" /\ Call(p)' = Call(p)
  BY ClientAssumption DEF RemoteEmpty, ClientInv, ClientTypeOK, AttemptsKnown, Call, serviceVars
<1>2. step'[p] = "exit" /\ object'[p] \in {Empty, NoUnit} /\ (outcome'[p] = "ok" => object'[p] = Empty)
  BY DEF RemoteEmpty, Succeed, Exit, Goto, ClientInv, ClientTypeOK
<1>3. QED
  BY <1>1, <1>2 DEF Current, Knows, Active, Writing, Reading, Compiling

(* A step of an invocation: what it stores or outputs is the tree, but for *)
(* the exceptions of SuccessIsCurrent.                                     *)
LEMMA ProcStepTrue ==
  ASSUME ClientInv, CurrentInv, OnlyTextsChange, NEW p \in Procs, ProcStep(p) \/ Killed(p)
  PROVE  Stores(p) /\ Knows(p)' /\ Current(p)'
<1>0. tree \in Unit /\ UNCHANGED tree /\ NoUnit \in Object
  BY ServiceKept DEF ClientInv, ClientTypeOK, Object, treeVars
<1>1. CASE RemoteOk(p) \/ (CompileLocal(p) /\ step[p] = "local")
  BY <1>1, StoreCurrent DEF RemoteOk, CompileLocal
<1>2. CASE StoreEnds(p)
  BY <1>2, StoreEndsCurrent
<1>3. ASSUME ~RemoteOk(p), ~(CompileLocal(p) /\ step[p] = "local"), ~StoreEnds(p) PROVE Stores(p)
  BY <1>3 DEF Stores, cacheVars, Killed, ProcStep, ReadSource, SourceUnreadable, NoCoordinator, CacheHit, CacheMiss, Preprocess, PreprocessFails, SubmitAttempt, CoordinatorUnavailable, RpcFails, RemoteOk, StoreEnds, RemoteEmpty, RemoteNonZero, FallbackPreprocess, FallbackImpossible, CompileLocal, CompileLocalFails
<1>4. ASSUME CacheHit(p) PROVE Knows(p)' /\ Current(p)'
  BY <1>4, CacheHitCurrent
<1>5. ASSUME RemoteEmpty(p) PROVE Knows(p)' /\ Current(p)'
  BY <1>5, RemoteEmptyCurrent
<1>6. ASSUME CompileLocal(p), step[p] = "direct" PROVE Knows(p)' /\ Current(p)'
  <2>1. unit[p] = tree /\ tree \in seen[p] /\ tree \in Object
    BY <1>0, <1>6 DEF CurrentInv, Knows, Compiling, Active, Object
  <2>2. QED
    BY <1>0, <1>6, <2>1, ExitsCurrent DEF CompileLocal, Succeed, Outcome
<1>7. ASSUME \/ SourceUnreadable(p) \/ RemoteNonZero(p) \/ FallbackImpossible(p)
             \/ CompileLocalFails(p) \/ Killed(p)
      PROVE Knows(p)' /\ Current(p)'
  BY <1>0, <1>7, ExitsCurrent DEF SourceUnreadable, RemoteNonZero, FallbackImpossible, CompileLocalFails, Killed, Outcome
<1>8. ASSUME ReadSource(p) PROVE Knows(p)' /\ Current(p)'
  <2>1. tree \in seen'[p] /\ read'[p] = tree
    BY <1>8 DEF ReadSource, ClientInv, ClientTypeOK
  <2>2. QED
    BY <1>0, <1>8, <2>1, MovesCurrent DEF ReadSource, Step, Reading, Compiling
<1>9. ASSUME NoCoordinator(p) PROVE Knows(p)' /\ Current(p)'
  <2>1. tree \in seen'[p] /\ unit'[p] = tree
    BY <1>9 DEF NoCoordinator, ClientInv, ClientTypeOK
  <2>2. CASE FallbackEnabled
    BY <1>0, <1>9, <2>1, <2>2, MovesCurrent DEF NoCoordinator, Step, Reading, Compiling
  <2>3. CASE ~FallbackEnabled
    BY <1>9, <2>3 DEF NoCoordinator, Exit, Goto, Knows, Current, Active, Writing, Reading, Compiling, ClientInv, ClientTypeOK
  <2>4. QED
    BY <2>2, <2>3
<1>10. ASSUME CacheMiss(p) \/ SubmitAttempt(p) \/ CoordinatorUnavailable(p) \/ RpcFails(p)
       PROVE Knows(p)' /\ Current(p)'
  <2>1. PICK s \in Step \ {"exit", "write"} :
          /\ Goto(p, s) /\ s \in Reading /\ step[p] \in Reading
          /\ s \in Compiling => step[p] \in Compiling
    BY <1>10 DEF CacheMiss, SubmitAttempt, CoordinatorUnavailable, RpcFails, RetryOrFallback, Step, Reading, Compiling
  <2>2. UNCHANGED <<outcome, tree, read, unit, seen>>
    BY <1>0, <1>10 DEF CacheMiss, SubmitAttempt, CoordinatorUnavailable, RpcFails
  <2>3. tree \in seen[p] /\ read[p] = tree /\ (s \in Compiling => unit[p] = tree) /\ step[p] # "exit"
    BY <2>1 DEF CurrentInv, Knows, Active, Reading
  <2>4. QED
    BY <2>1, <2>2, <2>3, MovesCurrent
<1>11. ASSUME Preprocess(p) \/ FallbackPreprocess(p)
       PROVE Knows(p)' /\ Current(p)'
  <2>1. PICK s \in Step \ {"exit", "write"} : Goto(p, s) /\ step[p] \in Reading
    BY <1>11 DEF Preprocess, FallbackPreprocess, Step, Reading
  <2>2. UNCHANGED <<outcome, tree, read, seen>> /\ unit'[p] = tree
    BY <1>0, <1>11 DEF Preprocess, FallbackPreprocess, ClientInv, ClientTypeOK
  <2>3. tree \in seen[p] /\ read[p] = tree /\ step[p] # "exit"
    BY <2>1 DEF CurrentInv, Knows, Active, Reading
  <2>4. QED
    BY <2>1, <2>2, <2>3, MovesCurrent
<1>12. ~PreprocessFails(p)
  BY DEF PreprocessFails, OnlyTextsChange
<1>13. CompileLocal(p) => step[p] \in {"local", "direct"}
  BY DEF CompileLocal
<1>14. QED
  BY <1>1, <1>2, <1>3, <1>4, <1>5, <1>6, <1>7, <1>8, <1>9, <1>10, <1>11, <1>12, <1>13 DEF ProcStep

LEMMA CurrentStep ==
  ASSUME ClientInv, CurrentInv, OnlyTextsChange, [Next]_vars PROVE CurrentInv'
<1>1. ASSUME NEW p \in Procs, ProcStep(p) \/ Killed(p) PROVE CurrentInv'
  <2>0. /\ Stores(p) /\ Knows(p)' /\ Current(p)' /\ tree' = tree
        /\ tree = [text |-> tree.text, deps |-> 0] /\ tree.text \in Texts /\ tree # NoUnit
        /\ cache \in [Texts -> Unit \cup {NoUnit, Torn}]
    BY <1>1, ProcStepTrue, ServiceKept, NotUnits DEF CurrentInv, ClientInv, ClientTypeOK, Unit, treeVars
  <2>1. (tree.deps = 0)'
    BY <2>0 DEF CurrentInv
  <2>2. CacheTrue'
    <3> SUFFICES ASSUME NEW t \in Texts
                 PROVE  /\ cache'[t] \in {NoUnit, Torn, [text |-> t, deps |-> 0]}
                        /\ t \in indexed' => cache'[t] # NoUnit
                        /\ cache'[t] = Torn => \E q \in Procs : Wrote(q, t)'
      BY DEF CacheTrue
    <3>1. CASE cache'[t] = cache[t]
      BY <2>0, <3>1, WroteStays DEF CurrentInv, CacheTrue, Stores
    <3>2. CASE cache'[t] # cache[t]
      <4>1. t = tree.text /\ cache'[t] \in {tree, Torn} /\ Wrote(p, tree.text)'
        BY <2>0, <3>2 DEF Stores
      <4>2. Wrote(p, t)'
        BY <2>0, <4>1 DEF Wrote
      <4>3. QED
        BY <2>0, <4>1, <4>2, NotUnits
    <3>3. QED
      BY <3>1, <3>2
  <2>3. ASSUME NEW q \in Procs, q # p PROVE Knows(q)' /\ Current(q)'
    <3>1. /\ step'[q] = step[q] /\ read'[q] = read[q] /\ unit'[q] = unit[q] /\ attempt'[q] = attempt[q]
          /\ outcome'[q] = outcome[q] /\ object'[q] = object[q] /\ seen'[q] = seen[q]
      BY <1>1, <2>3, OthersKept
    <3>2. cache[tree.text] # NoUnit => cache'[tree.text] # NoUnit
      BY <2>0, NotUnits DEF Stores
    <3>3. Knows(q)'
      BY <2>0, <3>1, <3>2 DEF CurrentInv, Knows, Active, Writing
    <3>4. QED
      BY <3>1, <3>3, CurrentStays DEF CurrentInv
  <2>4. QED
    BY <2>0, <2>1, <2>2, <2>3 DEF CurrentInv
<1>2. CASE ServiceStep \/ UNCHANGED vars
  <2>1. UNCHANGED <<treeVars, cacheVars, procVars>>
    BY <1>2 DEF ServiceStep, vars
  <2>2. \A p \in Procs : Current(p)'
    BY <2>1, CurrentStays DEF CurrentInv, procVars
  <2>3. CacheTrue' /\ (tree.deps = 0)' /\ \A p \in Procs : Knows(p)'
    BY <2>1 DEF CurrentInv, CacheTrue, Wrote, Knows, Active, Writing, treeVars, cacheVars, procVars
  <2>4. QED
    BY <2>2, <2>3 DEF CurrentInv
<1>3. CASE Edit
  <2>1. \A p \in Procs : ~Active(p) /\ ~Writing(p) /\ step[p] \notin Reading /\ step[p] \notin Compiling
    BY <1>3 DEF Edit, OnlyTextsChange, Active, Writing, Reading, Compiling
  <2>2. (tree.deps = 0)'
    BY <1>3 DEF Edit, OnlyTextsChange, CurrentInv, ClientInv, ClientTypeOK, Unit
  <2>3. seen' = seen /\ UNCHANGED <<serviceVars, cacheVars, step, read, unit, attempt, outcome, object>>
    BY <1>3, <2>1 DEF Edit, ClientInv, ClientTypeOK
  <2>4. \A p \in Procs : Current(p)'
    BY <2>3, CurrentStays DEF CurrentInv
  <2>5. CacheTrue' /\ \A p \in Procs : Knows(p)'
    BY <2>1, <2>3 DEF CurrentInv, CacheTrue, Wrote, Knows, Active, Writing, cacheVars
  <2>6. QED
    BY <2>2, <2>4, <2>5 DEF CurrentInv
<1>4. QED
  BY <1>1, <1>2, <1>3 DEF Next

(* As long as only source texts change, and none of them during a build,   *)
(* the object of a successful invocation is that of the tree it ran on,    *)
(* whether it came from the cache, the grid or the local compiler, for any *)
(* interleaving of invocations sharing the cache: except for an empty one, *)
(* when the latest answer said that the task failed, and for a torn one,   *)
(* read from a file that another invocation was writing or left unfinished *)
(* (RemoteEmpty, Store and CacheHit).                                      *)
THEOREM SuccessesAreCurrent ==
  ASSUME OnlyTextsChange PROVE Spec => []SuccessIsCurrent
<1>1. Init => CurrentInv
  <2> SUFFICES ASSUME Init PROVE CurrentInv
    OBVIOUS
  <2>1. \A p \in Procs : Knows(p) /\ Current(p)
    BY DEF Init, Knows, Current, Active, Writing, Reading, Compiling
  <2>2. CacheTrue
    <3> SUFFICES ASSUME NEW t \in Texts
                 PROVE  /\ cache[t] \in {NoUnit, [text |-> t, deps |-> 0]}
                        /\ t \in indexed => cache[t] # NoUnit
                        /\ cache[t] # Torn
      BY DEF CacheTrue
    <3>1. [text |-> t, deps |-> 0] \in Unit
      BY ClientAssumption DEF Unit, Texts
    <3>2. QED
      BY <3>1, NotUnits DEF Init
  <2>3. QED
    BY <2>1, <2>2 DEF Init, CurrentInv
<1>2. ClientInv /\ CurrentInv /\ [Next]_vars => CurrentInv'
  BY CurrentStep
<1>3. CurrentInv => SuccessIsCurrent
  BY DEF CurrentInv, Current, SuccessIsCurrent
<1>4. QED
  BY InitInv, NextInv, <1>1, <1>2, <1>3, PTL DEF Spec

=============================================================================
