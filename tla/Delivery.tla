------------------------------ MODULE Delivery ------------------------------
(***************************************************************************)
(* The way of an EmailVerified message: from the outbox of confirmo-auth   *)
(* (OutboxRelay) through the topic core.email.verified and the consumer of *)
(* confirmo-graphql (KafkaConsumer) to the table users.                    *)
(*                                                                         *)
(* An account has one such message (AuthService!VerifiedEventOnce) and its *)
(* user exists by then (CoreService!CodesHaveUsers), so messages and users *)
(* both go by the account.                                                 *)
(***************************************************************************)
EXTENDS Integers, Sequences, FiniteSets

CONSTANTS
    Account,     \* users, and outbox rows that announce their verification
    Partition,   \* the partitions of core.email.verified
    BatchSize,   \* BATCH_SIZE
    MaxFaults,   \* bound on the faults of a row
    MaxAssigns,  \* bound on the starts of the consumer
    NULL

VARIABLES
    status, created, committed, now, relay, sent, late, faults,  \* OutboxRelay
    log, offset, inflight, position, consumer,                   \* KafkaConsumer
    done, failed, skipped, effects, assigns,
    users        \* the users of confirmo-graphql

outbox == <<status, created, committed, now, relay, sent, late, faults>>
topic == <<log, offset, inflight, position, consumer, done, failed, skipped, effects, assigns>>
vars == <<outbox, topic, users>>

ASSUME DeliveryAssumption ==
    /\ IsFiniteSet(Account) /\ IsFiniteSet(Partition)
    /\ BatchSize \in Nat \ {0}
    /\ MaxFaults \in Nat /\ MaxAssigns \in Nat
    /\ NULL \notin Nat

\* Bounds of the model, which follow from MaxFaults: each fault of a row, a request
\* that the producer repeats included, stores it once more at most.
MaxCopies == MaxFaults + 1
MaxLen == Cardinality(Account) * MaxCopies

Outbox == INSTANCE OutboxRelay WITH Row <- Account, log <- sent

Topic == INSTANCE KafkaConsumer WITH Message <- Account, Invalid <- {}, committed <- offset

-----------------------------------------------------------------------------
(* The users                                                               *)

\* email_verified_at counts the updates of the row, 0 for NULL: of the times
\* that now() gives, only that each is another matters.
Unverified == [status |-> "pending_email_verification", email_verified_at |-> 0]

\* Mutant of Verify: an UPDATE without its WHERE.
VerifyAll(a) ==
    users' = [b \in Account |-> [users[b] EXCEPT !.status = "email_verified"]]

\* UPDATE users SET status, email_verified_at WHERE id = $1
Verify(a) ==
    users' = [users EXCEPT ![a] =
        [status |-> "email_verified", email_verified_at |-> @.email_verified_at + 1]]

Init ==
    /\ Outbox!Init
    /\ Topic!Init
    /\ users = [a \in Account |-> Unverified]

-----------------------------------------------------------------------------
(* The steps of the parts, and what a step of one does to the next         *)

\* What Kafka stores of the relay's sends is appended to a partition.
RelayStep ==
    /\ Outbox!Next
    /\ \/ sent' = sent /\ UNCHANGED topic
       \/ /\ sent' # sent
          /\ \E p \in Partition : Topic!Produce(sent'[Len(sent')], p)
    /\ UNCHANGED users

\* The consumer's handler is email_verified: its effect is the update.
ConsumerStep ==
    /\ \/ \E p \in Partition : Topic!StoreCommit(p)
       \/ Topic!Assign \/ Topic!Loop \/ Topic!Stop
    /\ \/ effects' = effects /\ UNCHANGED users
       \/ \E a \in Account : effects'[a] # effects[a] /\ Verify(a)
    /\ UNCHANGED outbox

Next == RelayStep \/ ConsumerStep

Spec == Init /\ [][Next]_vars

\* The fairness of the parts: the relay and the consumer go on, and the consumer
\* is restarted.
FairSpec ==
    /\ Spec
    /\ WF_vars(Outbox!Relay /\ RelayStep)
    /\ WF_vars(Topic!At("down") /\ Topic!Assign /\ ConsumerStep)
    /\ WF_vars(Topic!Loop /\ ConsumerStep)

-----------------------------------------------------------------------------
(* Correctness                                                             *)

TypeOK ==
    /\ Outbox!TypeOK
    /\ Topic!TypeOK
    /\ users \in [Account -> [status : {"pending_email_verification", "email_verified"},
                              email_verified_at : Nat]]

Announced == {a \in Account : status[a] \in {"pending", "published"}}
Verified == {a \in Account : users[a].status = "email_verified"}

\* A copy of the account's message was left behind by a failed handler or by a
\* start that found no offset.
Lost == {a \in Account : \E slot \in failed \cup skipped : Topic!MessageAt(slot) = a}

Abstract == INSTANCE VerifiedUsers WITH announced <- Announced, verified <- Verified, lost <- Lost

\* Through relay, topic and consumer, a user is verified only when confirmo-auth
\* committed its verification, whatever is repeated, reordered or late, and then
\* stays verified.
UsersSpec == Abstract!Spec

\* When nothing will send a message again, because its row is marked published
\* and the committed offsets are past every copy, its user is verified, unless a
\* handler failed or a start without an offset left a copy behind.
NothingLeftBehind ==
    \A a \in Account :
        /\ status[a] = "published"
        /\ \A slot \in Topic!CopiesOf(a) : Topic!Covered(slot)
        => a \in Verified \cup Lost

\* email_verified_at is set again at most once for each copy and each start of the
\* consumer, and each copy but one has its fault: a request without acknowledgement,
\* also one repeated inside a send that was Ok in the end, or a failed mark.
UpdatesAccounted ==
    \A a \in Account : users[a].email_verified_at <= (1 + faults[a]) * assigns

\* However many verifications are committed, the moment comes again and again when
\* the users of all of them are verified, or a copy of their message lost.
EveryoneSettles == []<>(Announced \subseteq Verified \cup Lost)

\* email_verified_at is set once, as it would be by an idempotent consumer.
VerifiedAtStays == \A a \in Account : users[a].email_verified_at <= 1
=============================================================================
