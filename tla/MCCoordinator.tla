--------------------------- MODULE MCCoordinator ----------------------------
(* Small instances of Coordinator: one or two workers, compile calls only. *)
EXTENDS Coordinator, TLC

MCKind == [c \in Calls |-> "compile"]
MCMaxConcurrent == [w \in Workers |-> 1]
MCCaps == [w \in Workers |->
             [arch |-> "x86_64", docker |-> FALSE, crossCompile |-> FALSE,
              builds |-> {"compile"}, os |-> "linux", platforms |-> {}]]
MCRequest == [c \in Calls |->
                [arch |-> "x86_64", os |-> "linux", platform |-> "none",
                 source |-> "s"]]
MCBaseScore == [w \in Workers |-> 100]
MCTimes == {2}

Symmetry == Permutations(Workers) \cup Permutations(Calls)

=============================================================================
