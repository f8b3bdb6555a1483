------------------------------ MODULE MCRunOnce ------------------------------
(* Instances of RunOnce for TLC.                                           *)
EXTENDS RunOnce, TLC

CONSTANTS l1, l2, l3

ThreeLaunchers == {l1, l2, l3}
Interchangeable == Permutations(ThreeLaunchers)
=============================================================================
