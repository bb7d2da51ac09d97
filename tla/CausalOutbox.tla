---------------------------- MODULE CausalOutbox ----------------------------
(* What the outbox promises those that read its topic, without table, batch *)
(* or relay: only messages of committed transactions are sent, each after   *)
(* all that were committed before its transaction began, at least once      *)
(* before it is finished and not again after that.                          *)
EXTENDS Integers, Sequences

CONSTANT Row

VARIABLES
    after,     \* a row whose transaction began -> what was committed by then
    accepted,  \* the rows whose transaction committed
    finished,  \* the rows that are sent no more
    stored,    \* the messages in Kafka, in its order
    underway   \* row -> its copies that Kafka may still store

kafka == <<stored, underway>>
vars == <<after, accepted, finished, kafka>>

Delivered == {stored[i] : i \in DOMAIN stored}

Init ==
    /\ after = [r \in {} |-> {}]
    /\ accepted = {} /\ finished = {}
    /\ stored = <<>>
    /\ underway = [r \in Row |-> 0]

Begin(r) ==
    /\ r \notin DOMAIN after
    /\ after' = [q \in DOMAIN after \cup {r} |-> IF q = r THEN accepted ELSE after[q]]
    /\ UNCHANGED <<accepted, finished, kafka>>

Accept(r) ==
    /\ r \in DOMAIN after \ accepted
    /\ accepted' = accepted \cup {r}
    /\ UNCHANGED <<after, finished, kafka>>

\* A copy that is sent is stored now, or may be later.
Send(r) ==
    /\ r \in accepted \ finished
    /\ after[r] \subseteq Delivered
    /\ \/ stored' = Append(stored, r) /\ UNCHANGED underway
       \/ underway' = [underway EXCEPT ![r] = @ + 1] /\ UNCHANGED stored
    /\ UNCHANGED <<after, accepted, finished>>

Arrive(r) ==
    /\ underway[r] > 0
    /\ underway' = [underway EXCEPT ![r] = @ - 1]
    /\ stored' = Append(stored, r)
    /\ UNCHANGED <<after, accepted, finished>>

Finish(r) ==
    /\ r \in accepted \cap Delivered
    /\ finished' = finished \cup {r}
    /\ UNCHANGED <<after, accepted, kafka>>

Next == \E r \in Row : Begin(r) \/ Accept(r) \/ Send(r) \/ Arrive(r) \/ Finish(r)

Spec == Init /\ [][Next]_vars
=============================================================================
