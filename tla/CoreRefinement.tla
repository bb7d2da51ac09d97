--------------------------- MODULE CoreRefinement ---------------------------
(* The operations of CoreService, their RPCs and the messages that come back *)
(* take each account through AccountLife.                                    *)
EXTENDS CoreService

\* The last stage of which anything is stored, in either database.
Stage(a) ==
    IF users[a] # NULL /\ users[a].status = "email_verified" THEN "verified"
    ELSE IF a \in verified THEN "confirmed"
    ELSE IF HasCode(a) THEN "coded"
    ELSE IF users[a] # NULL THEN "user"
    ELSE IF address[a] # NULL THEN "registered"
    ELSE "none"

Stages == [a \in Account |-> Stage(a)]

Life == INSTANCE AccountLife WITH stage <- Stages

\* Each step of either service takes one account one stage further, or none:
\* an RPC without an answer, a retried or a dropped sign-up or a message handled
\* at any time lets no account skip a stage or go back to one.
LifeSpec == Life!Spec
=============================================================================
