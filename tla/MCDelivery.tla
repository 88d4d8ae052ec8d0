----------------------------- MODULE MCDelivery -----------------------------
(***************************************************************************)
(* Instances of Delivery for TLC.                                          *)
(***************************************************************************)
EXTENDS Delivery

\* Every gas scope, each with a different mix of the other limits.
MCPolicies ==
  {[gas |-> "execution", wall |-> FALSE, caps |-> {"soft", "hard"}, depth |-> FALSE],
   [gas |-> "isolate", wall |-> TRUE, caps |-> {}, depth |-> FALSE],
   [gas |-> "unlimited", wall |-> TRUE, caps |-> {}, depth |-> TRUE]}
=============================================================================
