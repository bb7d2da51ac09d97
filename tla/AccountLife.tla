---------------------------- MODULE AccountLife ----------------------------
(* The life of an account across both services, as a sign-up promises it:   *)
(* one stage after another, none skipped and none taken back.               *)
CONSTANT Account

VARIABLE stage  \* account -> how far it has come

\* Its address is registered, it has its user, a code was issued to it, the code
\* was entered, and its user is told so.
After == [none |-> "registered", registered |-> "user", user |-> "coded",
          coded |-> "confirmed", confirmed |-> "verified"]

Init == stage = [a \in Account |-> "none"]

Advance(a) ==
    /\ stage[a] \in DOMAIN After
    /\ stage' = [stage EXCEPT ![a] = After[@]]

Next == \E a \in Account : Advance(a)

Spec == Init /\ [][Next]_stage
=============================================================================
