--------------------------- MODULE CompileService ---------------------------
(***************************************************************************)
(* What the coordinator promises a client about one call, with no registry,*)
(* no scheduler and no workers in sight: a call is answered once; a result *)
(* is the result of a run of that very call, which happens at most once;   *)
(* and an answer that says the task was not dispatched is final, the task  *)
(* has not run and never will.  An "error" answer promises nothing: the    *)
(* task may have run, may be running, or may run later.                    *)
(***************************************************************************)
EXTENDS Grid

CONSTANT KeyOf     \* [Calls -> cache keys]

VARIABLES
  status,   \* [Calls -> {"idle", "pending", "answered", "broken"}]
  answer,   \* [Calls -> Answers \cup {"none"}]
  ran       \* [Calls -> {"none", "ok", "fail"}], the run of the task

serviceVars == <<status, answer, ran>>

NotDispatched == {"noworker", "unreachable", "cached"}
Answers       == {"ok", "fail", "error"} \cup NotDispatched

Init ==
  /\ status = [c \in Calls |-> "idle"]
  /\ answer = [c \in Calls |-> "none"]
  /\ ran = [c \in Calls |-> "none"]

Submit(c) ==
  /\ status[c] = "idle"
  /\ status' = [status EXCEPT ![c] = "pending"]
  /\ UNCHANGED <<answer, ran>>

Run(c, r) ==
  /\ status[c] # "idle" /\ ran[c] = "none" /\ answer[c] \notin NotDispatched
  /\ ran' = [ran EXCEPT ![c] = r]
  /\ UNCHANGED <<status, answer>>

Justified(c, a) ==
  CASE a \in {"ok", "fail"} -> ran[c] = a
    [] a = "cached"         -> /\ IsBuild(c) /\ ran[c] = "none"
                               /\ \E d \in Calls : KeyOf[d] = KeyOf[c] /\ ran[d] = "ok"
    [] a = "error"          -> TRUE
    [] OTHER                -> ran[c] = "none"

Answer(c, a) ==
  /\ status[c] = "pending"
  /\ Justified(c, a)
  /\ status' = [status EXCEPT ![c] = "answered"]
  /\ answer' = [answer EXCEPT ![c] = a]
  /\ UNCHANGED ran

(* The coordinator dies: every pending call breaks. *)
BreakPending ==
  /\ status' = [c \in Calls |->
                  IF status[c] = "pending" THEN "broken" ELSE status[c]]
  /\ UNCHANGED <<answer, ran>>

Next ==
  \/ \E c \in Calls : \/ Submit(c)
                      \/ \E r \in {"ok", "fail"} : Run(c, r)
                      \/ \E a \in Answers : Answer(c, a)
  \/ BreakPending

Spec == Init /\ [][Next]_serviceVars

=============================================================================
