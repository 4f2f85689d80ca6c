--------------------------- MODULE MCBuildClient ----------------------------
(* Small instances of BuildClient: two invocations, two attempts each. *)
EXTENDS BuildClient, TLC

MCCalls == Procs \X (1 .. MaxRetries)
MCKind == [c \in MCCalls |-> "compile"]

Symmetry == Permutations(Procs)

=============================================================================
