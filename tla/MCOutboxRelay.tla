--------------------------- MODULE MCOutboxRelay ---------------------------
(* TLC instance of OutboxRelay: more rows than a batch holds, without       *)
(* symmetry, which liveness does not admit.                                 *)
EXTENDS OutboxRefinement
=============================================================================
