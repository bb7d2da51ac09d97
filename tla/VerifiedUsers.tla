--------------------------- MODULE VerifiedUsers ---------------------------
(* What the delivery of EmailVerified promises, without relay, topic and    *)
(* consumer: users come to be verified in any order, also several times,    *)
(* but only once their verification is announced, and for good.             *)
CONSTANT Account

VARIABLES
    announced,  \* the accounts whose EmailVerified message is committed
    verified,   \* the users with status email_verified
    lost        \* the accounts a copy of whose message went unhandled

vars == <<announced, verified, lost>>

Init == announced = {} /\ verified = {} /\ lost = {}

Announce(a) ==
    /\ announced' = announced \cup {a}
    /\ UNCHANGED <<verified, lost>>

\* Handling a message verifies its user or loses the message, or both: an error
\* can come after the effect.  A start can leave several messages behind.
Deliver(V, L) ==
    /\ verified' = verified \cup V
    /\ lost' = lost \cup L
    /\ UNCHANGED announced

Next ==
    \/ \E a \in Account : Announce(a)
    \/ \E V, L \in SUBSET announced : Deliver(V, L)

Spec == Init /\ [][Next]_vars
=============================================================================
