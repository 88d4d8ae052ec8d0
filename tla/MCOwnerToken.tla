---------------------------- MODULE MCOwnerToken ----------------------------
(***************************************************************************)
(* Instances of OwnerToken for TLC.                                        *)
(***************************************************************************)
EXTENDS OwnerToken, TLC

CONSTANTS t1, t2, capped, free

\* One cell with caps that two blocks cross, one without caps.
MCSoftCap == capped :> 2 @@ free :> 9
MCHardCap == capped :> 3 @@ free :> 9

Symmetric == Permutations(Threads) \cup Permutations(Blocks)
=============================================================================
