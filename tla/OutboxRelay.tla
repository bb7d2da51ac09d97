---------------------------- MODULE OutboxRelay ----------------------------
(***************************************************************************)
(* The transactional outbox: handlers insert rows in their transactions,   *)
(* and one relay task publishes them to Kafka and marks them published.    *)
(*                                                                         *)
(* A row is dated by the start of its transaction (created_at defaults to  *)
(* now()), and transactions that overlap commit in any order.  The producer *)
(* is not idempotent: a request it gets no acknowledgement of may be stored *)
(* all the same, now or a while later, and is repeated inside the send.     *)
(***************************************************************************)
EXTENDS Integers, Sequences, FiniteSets

CONSTANTS
    Row,        \* ids of outbox rows
    BatchSize,  \* BATCH_SIZE
    MaxFaults   \* bound on the faults of each row

VARIABLES
    status,     \* row -> where its transaction and its publication are
    created,    \* row -> created_at, the start of its transaction
    committed,  \* row -> when its transaction committed (history)
    now,        \* the clock of Postgres
    relay,      \* the relay task: its await and what is left of its batch
    log,        \* the messages Kafka has stored, in the order it stored them
    late,       \* row -> copies without acknowledgement that may still be stored
    faults      \* row -> unacknowledged requests and failed marks (history)

rows == <<status, created, committed, now>>
kafka == <<log, late>>
vars == <<rows, relay, kafka, faults>>

ASSUME BatchAssumption == BatchSize \in Nat \ {0}
ASSUME FaultsAssumption == MaxFaults \in Nat

RowStatus == {"none", "open", "rolled_back", "pending", "published"}

Polling == [pc |-> "poll", batch |-> <<>>]

Init ==
    /\ status = [r \in Row |-> "none"]
    /\ created = [r \in Row |-> 0]
    /\ committed = [r \in Row |-> 0]
    /\ now = 1
    /\ relay = Polling
    /\ log = <<>>
    /\ late = [r \in Row |-> 0]
    /\ faults = [r \in Row |-> 0]

-----------------------------------------------------------------------------
(* The transactions of the handlers                                        *)

\* Two transactions may begin at the same instant; one that begins after a
\* commit is dated later than it.
Begin(r) ==
    /\ status[r] = "none"
    /\ status' = [status EXCEPT ![r] = "open"]
    /\ created' = [created EXCEPT ![r] = now]
    /\ UNCHANGED <<committed, now, relay, kafka, faults>>

Commit(r) ==
    /\ status[r] = "open"
    /\ status' = [status EXCEPT ![r] = "pending"]
    /\ committed' = [committed EXCEPT ![r] = now]
    /\ now' = now + 1
    /\ UNCHANGED <<created, relay, kafka, faults>>

Rollback(r) ==
    /\ status[r] = "open"
    /\ status' = [status EXCEPT ![r] = "rolled_back"]
    /\ UNCHANGED <<created, committed, now, relay, kafka, faults>>

-----------------------------------------------------------------------------
(* The relay                                                               *)

\* The committed rows.  (Mutant of Unpublished: the query without its WHERE.)
CommittedRows == {r \in Row : status[r] \in {"pending", "published"}}

\* WHERE published_at IS NULL, over the committed rows
Unpublished == {r \in Row : status[r] = "pending"}

\* ORDER BY created_at LIMIT BATCH_SIZE: ties in any order.
Batches ==
    {b \in UNION {[1..n -> Unpublished] : n \in 0..BatchSize} :
        /\ \A i, j \in DOMAIN b : i < j => b[i] # b[j] /\ created[b[i]] <= created[b[j]]
        /\ \A r \in Unpublished : (\A i \in DOMAIN b : b[i] # r) =>
              /\ Len(b) = BatchSize
              /\ \A i \in DOMAIN b : created[b[i]] <= created[r]}

At(pc) == relay.pc = pc

\* The row the relay is at.
Current == Head(relay.batch)

\* Mutant of Advance: the end of the batch is not looked for.
AdvanceAlways == [pc |-> "publish", batch |-> Tail(relay.batch)]

\* On to the next row, or to the next poll.
Advance == IF Tail(relay.batch) = <<>> THEN Polling
           ELSE [pc |-> "publish", batch |-> Tail(relay.batch)]

\* unpublished(BATCH_SIZE), after the sleep
Poll ==
    /\ At("poll")
    /\ \E b \in Batches :
          relay' = IF b = <<>> THEN Polling ELSE [pc |-> "publish", batch |-> b]
    /\ UNCHANGED <<rows, kafka, faults>>

\* A fault of the current row, which bounds the faults to come.
Fault ==
    /\ faults[Current] < MaxFaults
    /\ faults' = [faults EXCEPT ![Current] = @ + 1]

\* What a request without an acknowledgement leaves in Kafka.
Unacknowledged ==
    \/ UNCHANGED kafka
    \/ log' = Append(log, Current) /\ UNCHANGED late
    \/ late' = [late EXCEPT ![Current] = @ + 1] /\ UNCHANGED log

\* A request of the producer for the current row gets no acknowledgement.
NoAck == At("publish") /\ Fault /\ Unacknowledged /\ UNCHANGED rows

\* The producer repeats such a request, and the send goes on: enable.idempotence
\* is off and retries at its default.
Retry == NoAck /\ UNCHANGED relay

\* Mutant of Publish: the send is not awaited.
PublishUnawaited ==
    /\ At("publish") /\ Unacknowledged
    /\ relay' = [relay EXCEPT !.pc = "mark"]
    /\ UNCHANGED <<rows, faults>>

\* Kafka acknowledges a request, after any number of others: the send is Ok.
Publish ==
    /\ At("publish")
    /\ log' = Append(log, Current)
    /\ relay' = [relay EXCEPT !.pc = "mark"]
    /\ UNCHANGED <<rows, late, faults>>

\* Mutant of PublishFails: on an error the loop goes on to the next row.
PublishFailsNext == NoAck /\ relay' = Advance

\* Mutant of PublishFails: an error ends run's loop.
PublishFailsForGood == NoAck /\ relay' = [Polling EXCEPT !.pc = "ended"]

\* The send reports an error, or the process stops while it waits: the rest of
\* the batch is left for the next poll.
PublishFails == NoAck /\ relay' = Polling

MarkCurrent ==
    /\ status' = [status EXCEPT ![Current] = "published"]
    /\ UNCHANGED <<created, committed, now>>

\* mark_published
Mark ==
    /\ At("mark")
    /\ MarkCurrent
    /\ relay' = Advance
    /\ UNCHANGED <<kafka, faults>>

\* The UPDATE fails, or the process stops, before or after it took effect.
MarkFails ==
    /\ At("mark") /\ Fault
    /\ MarkCurrent \/ UNCHANGED rows
    /\ relay' = Polling
    /\ UNCHANGED kafka

\* A copy that was not acknowledged is stored after all.
LateStore(r) ==
    /\ late[r] > 0
    /\ late' = [late EXCEPT ![r] = @ - 1]
    /\ log' = Append(log, r)
    /\ UNCHANGED <<rows, relay, faults>>

-----------------------------------------------------------------------------

Handlers == \E r \in Row : Begin(r) \/ Commit(r) \/ Rollback(r)
Relay == Poll \/ Publish \/ Retry \/ PublishFails \/ Mark \/ MarkFails

Next == Handlers \/ Relay \/ \E r \in Row : LateStore(r)

Spec == Init /\ [][Next]_vars

\* run never returns, and each request and update ends some way or other; a row
\* has MaxFaults faults at most.
FairSpec == Spec /\ WF_vars(Relay)

-----------------------------------------------------------------------------
(* Correctness                                                             *)

\* Between polls the relay holds a nonempty batch of at most BatchSize rows.
TypeOK ==
    /\ status \in [Row -> RowStatus]
    /\ created \in [Row -> Nat] /\ committed \in [Row -> Nat] /\ now \in Nat
    /\ \/ relay = Polling
       \/ /\ relay \in [pc : {"publish", "mark"}, batch : Seq(Row)]
          /\ Len(relay.batch) \in 1..BatchSize
    /\ log \in Seq(Row)
    /\ late \in [Row -> Nat] /\ faults \in [Row -> Nat]

Stored(r) == \E i \in DOMAIN log : log[i] = r

\* The outbox and Kafka agree: nothing is marked published that Kafka has not
\* stored, and nothing is stored, even late, whose transaction did not commit.
MarkedIsStored ==
    \A r \in Row :
        /\ status[r] = "published" => Stored(r)
        /\ Stored(r) \/ late[r] > 0 => status[r] \in {"pending", "published"}

\* q's transaction had committed when r's began.
Before(q, r) ==
    /\ status[q] \in {"pending", "published"} /\ status[r] # "none"
    /\ committed[q] < created[r]

\* If one row was committed before the transaction of another began, Kafka has
\* stored it before any copy of the other, through failures, restarts, late
\* copies and full batches.
CausalOrder ==
    \A q, r \in Row : Before(q, r) =>
        \A j \in DOMAIN log : log[j] = r => \E i \in 1..(j - 1) : log[i] = q

Copies(r) == Cardinality({i \in DOMAIN log : log[i] = r})

\* A message is stored more than once only by faults, each of which accounts for
\* one copy at most: a request of the producer without an acknowledgement, also
\* one inside a send that was Ok in the end, or a mark that failed after it.
CopiesAccounted == \A r \in Row : Copies(r) + late[r] <= 1 + faults[r]

\* Every committed row comes to be published, whatever is committed around it.
AllPublished == \A r \in Row : status[r] = "pending" ~> status[r] = "published"
=============================================================================
