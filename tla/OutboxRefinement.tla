-------------------------- MODULE OutboxRefinement --------------------------
(* The relay over the table outbox implements CausalOutbox.                 *)
EXTENDS OutboxRelay

Begun == {r \in Row : status[r] # "none"}

\* What each row has to come after, by the dates of the table.
Follows == [r \in Begun |-> {q \in Row : Before(q, r)}]

Abstract == INSTANCE CausalOutbox WITH
    after <- Follows, accepted <- CommittedRows,
    finished <- {r \in Row : status[r] = "published"},
    stored <- log, underway <- late

\* created_at and a batch of the oldest rows are enough to send each message
\* after all it may depend on, whatever fails; and a row that is marked is not
\* sent again, since no batch holds it twice or outlives its poll.
OutboxSpec == Abstract!Spec
=============================================================================
