------------------------------ MODULE MCBuilds ------------------------------
(* One worker that serves everything; the calls of an instance are two of  *)
(* these: b1 and b2, Flutter builds of the same project, u1, a Unity       *)
(* build, and c1, a compile call.                                          *)
EXTENDS Coordinator

CONSTANTS b1, b2, u1, c1

MCKind == [c \in Calls |-> CASE c = c1 -> "compile" [] c = u1 -> "unity"
                             [] OTHER -> "flutter"]
MCMaxConcurrent == [w \in Workers |-> 1]
MCCaps == [w \in Workers |->
             [arch |-> "x86_64", docker |-> FALSE, crossCompile |-> FALSE,
              builds |-> {"compile", "flutter", "unity"}, os |-> "linux",
              platforms |-> {"android"}]]
MCRequest == [c \in Calls |->
                [arch |-> "x86_64", os |-> "linux", platform |-> "android",
                 source |-> "s"]]
MCBaseScore == [w \in Workers |-> 100]
MCTimes == {2}

=============================================================================
