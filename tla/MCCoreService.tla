--------------------------- MODULE MCCoreService ---------------------------
(* TLC instances of CoreService: calls, accounts, addresses, codes and OAB  *)
(* numbers are each interchangeable.                                        *)
EXTENDS CoreRefinement, TLC

Symmetry == Permutations(Call) \cup Permutations(Account) \cup Permutations(Address)
            \cup Permutations(Code) \cup Permutations(Oab)
=============================================================================
