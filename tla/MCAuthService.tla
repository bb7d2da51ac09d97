--------------------------- MODULE MCAuthService ---------------------------
(* Model values and symmetry for checking AuthService with TLC.            *)
EXTENDS AuthInvariant, TLC

\* Sound for the safety runs: no definition tells two calls, two ids or two
\* codes apart, and the addresses of a set are all treated alike.
Symmetry == Permutations(Call) \cup Permutations(CredId) \cup Permutations(VerId)
            \cup Permutations(Code) \cup Permutations(ValidEmail)
=============================================================================
