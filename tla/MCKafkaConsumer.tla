-------------------------- MODULE MCKafkaConsumer --------------------------
(* TLC instances of KafkaConsumer: a readable message and one that is not,  *)
(* without symmetry, which liveness does not admit.                         *)
EXTENDS KafkaConsumer
=============================================================================
