------------------------------ MODULE MCIsolate ------------------------------
(***************************************************************************)
(* Instances of Isolate for TLC.                                           *)
(***************************************************************************)
EXTENDS Isolate, TLC

\* Every gas scope, each with a different mix of the other limits.
MCPolicies ==
  {[gas |-> "execution", wall |-> FALSE, caps |-> {"soft"}, depth |-> FALSE],
   [gas |-> "isolate", wall |-> TRUE, caps |-> {}, depth |-> FALSE],
   [gas |-> "unlimited", wall |-> FALSE, caps |-> {"hard"}, depth |-> TRUE]}

Symmetry == Permutations(Threads)
=============================================================================
