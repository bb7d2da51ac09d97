--------------------------- MODULE KafkaConsumer ---------------------------
(***************************************************************************)
(* The consumer loops of confirmo-notification-service and                 *)
(* confirmo-graphql: one consumer of one topic, alone in its group, that   *)
(* runs a handler on each message and commits the message's offset,        *)
(* asynchronously, when the handler succeeds.                              *)
(*                                                                         *)
(* How far the consumer has come is in its process; the committed offset   *)
(* is in Kafka and is where the next process starts.  An offset is the     *)
(* number of messages of the partition it covers.                          *)
(***************************************************************************)
EXTENDS Integers, Sequences, FiniteSets

CONSTANTS
    Partition,   \* the partitions of the topic
    Message,     \* what the producer sends
    Invalid,     \* the messages without a payload, or that do not decode
    MaxLen,      \* bound on the length of a partition
    MaxCopies,   \* bound on the copies of a message
    MaxAssigns,  \* bound on the starts of the process and the rebalances
    NULL

VARIABLES
    log,        \* partition -> its messages
    committed,  \* partition -> the offset the group has committed, or NULL
    inflight,   \* partition -> the commits on their way to Kafka
    position,   \* partition -> how far the consumer has received
    consumer,   \* the await of the loop, and the message it is at
    done,       \* the slots whose handler succeeded (history)
    failed,     \* the slots whose handler failed (history)
    skipped,    \* the slots an assignment started behind (history)
    effects,    \* message -> how often its effect took place (history)
    assigns     \* assignments so far (history)

kafka == <<log, committed, inflight>>
outcomes == <<done, failed, effects>>
vars == <<kafka, position, consumer, outcomes, skipped, assigns>>

ASSUME ConsumerAssumption ==
    /\ Invalid \subseteq Message /\ IsFiniteSet(Partition)
    /\ MaxLen \in Nat /\ MaxCopies \in Nat /\ MaxAssigns \in Nat
    /\ NULL \notin Nat

\* A message of a partition; one message can be produced to several slots.
Slot == Partition \X (1..MaxLen)
MessageAt(slot) == log[slot[1]][slot[2]]
Produced == {slot \in Slot : slot[2] <= Len(log[slot[1]])}
CopiesOf(m) == {slot \in Produced : MessageAt(slot) = m}

Waiting(pc) == [pc |-> pc, slot |-> NULL]
At(pc) == consumer.pc = pc

Init ==
    /\ log = [p \in Partition |-> <<>>]
    /\ committed = [p \in Partition |-> NULL]
    /\ inflight = [p \in Partition |-> {}]
    /\ position = [p \in Partition |-> 0]
    /\ consumer = Waiting("down")
    /\ done = {} /\ failed = {} /\ skipped = {}
    /\ effects = [m \in Message |-> 0]
    /\ assigns = 0

-----------------------------------------------------------------------------
(* Kafka                                                                   *)

\* The relay sends a message, again after a failure; the empty key puts each
\* copy into any partition.
Produce(m, p) ==
    /\ Len(log[p]) < MaxLen
    /\ Cardinality(CopiesOf(m)) < MaxCopies
    /\ log' = [log EXCEPT ![p] = Append(@, m)]
    /\ UNCHANGED <<committed, inflight, position, consumer, outcomes, skipped, assigns>>

\* A commit arrives; those sent before it were lost.
StoreCommit(p) ==
    /\ \E o \in inflight[p] :
          /\ committed' = [committed EXCEPT ![p] = o]
          /\ inflight' = [inflight EXCEPT ![p] = {i \in @ : i > o}]
    /\ UNCHANGED <<log, position, consumer, outcomes, skipped, assigns>>

-----------------------------------------------------------------------------
(* The loop                                                                *)

\* Mutant of StartOf: every start is at the beginning (an explicit assignment).
StartAtFirst(p) == 0

\* Mutant of StartOf: the partition without an offset is forgotten.
StartAtCommitted(p) == committed[p]

\* Where an assignment starts: the committed offset, or without one the end of
\* the partition (auto.offset.reset is not set).
StartOf(p) == IF committed[p] = NULL THEN Len(log[p]) ELSE committed[p]

\* The process starts, or its group is rebalanced: commits of the assignment
\* before are no longer accepted.
Assign ==
    /\ At("down") \/ At("recv")
    /\ assigns < MaxAssigns
    /\ assigns' = assigns + 1
    /\ position' = [p \in Partition |-> StartOf(p)]
    /\ inflight' = [p \in Partition |-> {}]
    /\ skipped' = skipped \cup {slot \in Produced : committed[slot[1]] = NULL}
    /\ consumer' = Waiting("recv")
    /\ UNCHANGED <<log, committed, outcomes>>

NextSlot(p) == <<p, position[p] + 1>>

Advance(p) == position' = [position EXCEPT ![p] = @ + 1]

\* Mutant of Recv: offsets are committed as messages are received.
RecvCommits(p) ==
    /\ At("recv") /\ NextSlot(p) \in Produced
    /\ Advance(p)
    /\ inflight' = [inflight EXCEPT ![p] = @ \cup {position[p] + 1}]
    /\ consumer' = IF MessageAt(NextSlot(p)) \in Invalid THEN consumer
                   ELSE [pc |-> "handle", slot |-> NextSlot(p)]
    /\ UNCHANGED <<log, committed, outcomes, skipped, assigns>>

\* recv: a message that cannot be read is passed over without a commit.
Recv(p) ==
    /\ At("recv") /\ NextSlot(p) \in Produced
    /\ Advance(p)
    /\ \/ /\ MessageAt(NextSlot(p)) \in Invalid
          /\ UNCHANGED consumer
       \/ /\ MessageAt(NextSlot(p)) \notin Invalid
          /\ consumer' = [pc |-> "handle", slot |-> NextSlot(p)]
    /\ UNCHANGED <<kafka, outcomes, skipped, assigns>>

Effect == effects' = [effects EXCEPT ![MessageAt(consumer.slot)] = @ + 1]

HandlerSucceeds ==
    /\ At("handle")
    /\ Effect
    /\ done' = done \cup {consumer.slot}
    /\ consumer' = [consumer EXCEPT !.pc = "commit"]
    /\ UNCHANGED <<kafka, position, failed, skipped, assigns>>

\* Mutant of HandlerFails: the message is received again.
HandlerFailsRetries ==
    /\ At("handle")
    /\ Effect \/ UNCHANGED effects
    /\ failed' = failed \cup {consumer.slot}
    /\ position' = [position EXCEPT ![consumer.slot[1]] = consumer.slot[2] - 1]
    /\ consumer' = Waiting("recv")
    /\ UNCHANGED <<kafka, done, skipped, assigns>>

\* Mutant of HandlerFails: the error leaves the loop.
HandlerFailsForGood ==
    /\ At("handle")
    /\ Effect \/ UNCHANGED effects
    /\ failed' = failed \cup {consumer.slot}
    /\ consumer' = Waiting("ended")
    /\ UNCHANGED <<kafka, position, done, skipped, assigns>>

\* The error, which can come after the effect, is logged and the loop goes on:
\* the next commit of the partition covers this message too.
HandlerFails ==
    /\ At("handle")
    /\ Effect \/ UNCHANGED effects
    /\ failed' = failed \cup {consumer.slot}
    /\ consumer' = Waiting("recv")
    /\ UNCHANGED <<kafka, position, done, skipped, assigns>>

\* commit_message, whose error is logged.
Commit ==
    LET p == consumer.slot[1] IN
    /\ At("commit")
    /\ \/ inflight' = [inflight EXCEPT ![p] = @ \cup {consumer.slot[2]}]
       \/ UNCHANGED inflight
    /\ consumer' = Waiting("recv")
    /\ UNCHANGED <<log, committed, position, outcomes, skipped, assigns>>

\* The process stops, to be restarted; a handler may have had its effect.
Stop ==
    /\ ~At("down")
    /\ assigns < MaxAssigns
    /\ \/ At("handle") /\ Effect
       \/ UNCHANGED effects
    /\ consumer' = Waiting("down")
    /\ UNCHANGED <<kafka, position, done, failed, skipped, assigns>>

-----------------------------------------------------------------------------

Loop ==
    \/ \E p \in Partition : Recv(p)
    \/ HandlerSucceeds \/ HandlerFails \/ Commit

Next ==
    \/ \E m \in Message, p \in Partition : Produce(m, p)
    \/ \E p \in Partition : StoreCommit(p)
    \/ Assign \/ Loop \/ Stop

Spec == Init /\ [][Next]_vars

\* The process is restarted whenever it stops (restart: unless-stopped), and
\* its loop goes on: recv delivers what is there, handlers end some way.
FairSpec == Spec /\ WF_vars(At("down") /\ Assign) /\ WF_vars(Loop)

-----------------------------------------------------------------------------
(* Correctness                                                             *)

TypeOK ==
    /\ log \in [Partition -> Seq(Message)]
    /\ \A p \in Partition : Len(log[p]) <= MaxLen
    /\ committed \in [Partition -> 0..MaxLen \cup {NULL}]
    /\ inflight \in [Partition -> SUBSET (1..MaxLen)]
    /\ position \in [Partition -> 0..MaxLen]
    /\ \/ consumer \in {Waiting("down"), Waiting("recv")}
       \/ consumer \in [pc : {"handle", "commit"}, slot : Produced]
    /\ done \subseteq Produced /\ failed \subseteq Produced /\ skipped \subseteq Produced
    /\ effects \in [Message -> Nat]
    /\ assigns \in Nat

Covered(slot) == committed[slot[1]] # NULL /\ slot[2] <= committed[slot[1]]

\* The offset a new process starts from leaves a readable message behind only
\* if its handler ended, well or with an error, or if the partition had no
\* offset when an assignment started after it: neither a crash at any await nor
\* a commit that is lost or late loses a message.
LossAccounted ==
    \A slot \in Produced : Covered(slot) =>
        slot \in done \cup failed \cup skipped \/ MessageAt(slot) \in Invalid

\* Within a partition handlers run in the order of the log, across restarts,
\* rebalances and late commits: a handler is run, or was, only when those of all
\* readable messages before it ended or were skipped.
HandledInOrder ==
    \A slot \in Produced : slot \in done \cup failed \/ (At("handle") /\ consumer.slot = slot) =>
        \A before \in Produced : before[1] = slot[1] /\ before[2] < slot[2] =>
            before \in done \cup failed \cup skipped \/ MessageAt(before) \in Invalid

\* The committed offset of a partition never goes back, whatever is redelivered.
CommitsAdvance ==
    [][\A p \in Partition : committed[p] # NULL =>
          committed'[p] # NULL /\ committed'[p] >= committed[p]]_vars

\* A message takes effect again only through another copy of it or another
\* assignment: within one, each copy is handled once.
EffectsAccounted ==
    \A m \in Message : effects[m] <= Cardinality(CopiesOf(m)) * assigns

\* Every readable message that is produced is handled, fails, or is left behind
\* by an assignment that found no offset.
Settled ==
    \A slot \in Slot :
        slot \in Produced /\ MessageAt(slot) \notin Invalid
            ~> slot \in done \cup failed \cup skipped
=============================================================================
