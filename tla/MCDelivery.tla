----------------------------- MODULE MCDelivery -----------------------------
(* TLC instances of Delivery, without symmetry for the sake of liveness.    *)
EXTENDS Delivery
=============================================================================
