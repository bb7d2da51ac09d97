--------------------------- MODULE MCAttemptLimit ---------------------------
(* Model values and symmetry for checking AttemptLimit with TLC.           *)
EXTENDS AttemptLimit, TLC

\* The calls are not among the symmetric sets: the cfg has one or two.
Symmetry == Permutations(CredId) \cup Permutations(VerId) \cup Permutations(Code)
=============================================================================
