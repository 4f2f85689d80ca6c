-------------------------------- MODULE Grid --------------------------------
(***************************************************************************)
(* The identities the components of the build grid share: worker hosts and *)
(* the calls (Compile and Build RPCs) clients make to the coordinator.     *)
(***************************************************************************)
EXTENDS Integers, FiniteSets

CONSTANTS
  Workers,   \* worker identifiers, "worker-<hostname>": a restart keeps them
  Calls,     \* RPCs made to the coordinator; a client's retry is another call
  Kind       \* [Calls -> Kinds], the RPC and, for Build, its config

Kinds == {"compile", "flutter", "unity"}

ASSUME GridAssumption ==
  /\ IsFiniteSet(Workers)
  /\ IsFiniteSet(Calls)
  /\ Kind \in [Calls -> Kinds]
  /\ "none" \notin Workers

IsBuild(c) == Kind[c] # "compile"

=============================================================================
