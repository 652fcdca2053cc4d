---------------------------- MODULE MCSapSystem ----------------------------
(* Instances of SapSystem for TLC. *)
EXTENDS SapSystem, TLC

HartSymmetry == Permutations(Hart)

\* every job a host can describe: a pair for the dual modes, no mask otherwise
AllJobs == {j \in Job : j.mask \in IF j.cfg \in Dual THEN Pair(j.master) ELSE {{}}}

\* one job per mode, all launched with the same master
First == CHOOSE h \in Hart : TRUE
FirstPair == CHOOSE k \in Pair(First) : TRUE
SomeJobs == {j \in AllJobs : j.master = First /\ j.mask \subseteq FirstPair}
=============================================================================
