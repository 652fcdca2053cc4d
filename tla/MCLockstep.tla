----------------------------- MODULE MCLockstep -----------------------------
(* Instances of Lockstep for TLC. *)
EXTENDS Lockstep, TLC

\* every pair; the pair whose leading core has two requests granted early
AllPairs == Pair
DeepLockstep == {[lag |-> TRUE, room |-> 2]}
=============================================================================
