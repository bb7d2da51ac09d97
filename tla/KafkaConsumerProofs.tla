------------------------ MODULE KafkaConsumerProofs ------------------------
(* Proofs about KafkaConsumer, for any topic, any messages and any bounds. *)
EXTENDS KafkaConsumer, SequenceTheorems, FiniteSetTheorems, TLAPS

\* The slots no start may come back to.
Ended(slot) == slot \in done \cup failed \cup skipped \/ MessageAt(slot) \in Invalid

Handling(slot) == At("handle") /\ consumer.slot = slot

\* A commit on its way lies between the committed offset and the position.
OffsetsInOrder ==
    \A p \in Partition :
        /\ position[p] <= Len(log[p])
        /\ committed[p] # NULL => committed[p] <= position[p]
        /\ \A o \in inflight[p] :
              o <= position[p] /\ (committed[p] # NULL => committed[p] <= o)

\* The message at hand is the last one received of its partition.
AtPosition ==
    At("handle") \/ At("commit") =>
        /\ position[consumer.slot[1]] = consumer.slot[2]
        /\ At("commit") => consumer.slot \in done

\* Behind the position of a running consumer only the message at hand is open.
BehindEnded ==
    ~At("down") => \A slot \in Produced :
        slot[2] <= position[slot[1]] => Ended(slot) \/ Handling(slot)

\* A commit on its way covers no message that is open.
InflightEnded ==
    \A slot \in Produced : \A o \in inflight[slot[1]] : slot[2] <= o => Ended(slot)

Inv ==
    /\ TypeOK
    /\ OffsetsInOrder
    /\ AtPosition
    /\ BehindEnded
    /\ InflightEnded
    /\ LossAccounted

LEMMA InitInv == Init => Inv
  <1> SUFFICES ASSUME Init PROVE Inv
    OBVIOUS
  <1>1. \A p \in Partition : log[p] = <<>> /\ Len(log[p]) = 0
    BY DEF Init
  <1>2. Produced = {}
    BY <1>1 DEF Produced, Slot
  <1>3. log \in [Partition -> Seq(Message)]
    BY DEF Init
  <1>4. TypeOK
    BY <1>1, <1>3, ConsumerAssumption DEF Init, TypeOK, Waiting
  <1>5. OffsetsInOrder /\ AtPosition
    BY <1>1 DEF Init, OffsetsInOrder, AtPosition, At, Waiting
  <1>6. BehindEnded /\ InflightEnded /\ LossAccounted
    BY <1>2 DEF BehindEnded, InflightEnded, LossAccounted
  <1> QED
    BY <1>4, <1>5, <1>6 DEF Inv

\* A slot that was produced keeps its message, and a new one lies at the end.
LEMMA ProduceAppends ==
    ASSUME TypeOK, NEW m \in Message, NEW p \in Partition, Produce(m, p)
    PROVE  /\ log' \in [Partition -> Seq(Message)]
           /\ \A q \in Partition : Len(log[q]) <= Len(log'[q]) /\ Len(log'[q]) <= MaxLen
           /\ Produced \subseteq Produced'
           /\ \A slot \in Produced : MessageAt(slot)' = MessageAt(slot)
           /\ \A slot \in Produced' : slot \notin Produced => slot[2] > Len(log[slot[1]])
  <1>1. /\ log \in [Partition -> Seq(Message)] /\ Len(log[p]) < MaxLen
        /\ log' = [log EXCEPT ![p] = Append(@, m)]
        /\ MaxLen \in Nat
    BY ConsumerAssumption DEF TypeOK, Produce
  <1>2. /\ log'[p] = Append(log[p], m)
        /\ \A q \in Partition : q # p => log'[q] = log[q]
    BY <1>1
  <1>3. /\ log'[p] \in Seq(Message) /\ Len(log'[p]) = Len(log[p]) + 1
        /\ \A i \in 1..Len(log[p]) : log'[p][i] = log[p][i]
    BY <1>1, <1>2, AppendProperties
  <1>4. \A q \in Partition : Len(log[q]) \in Nat /\ Len(log[q]) <= MaxLen
    BY <1>1, LenProperties DEF TypeOK
  <1>5. log' \in [Partition -> Seq(Message)]
    BY <1>1, <1>3
  <1>6. \A q \in Partition : Len(log[q]) <= Len(log'[q]) /\ Len(log'[q]) <= MaxLen
    BY <1>1, <1>2, <1>3, <1>4
  <1>7. Produced \subseteq Produced'
    BY <1>2, <1>3, <1>4 DEF Produced, Slot
  <1>8. ASSUME NEW slot \in Produced PROVE MessageAt(slot)' = MessageAt(slot)
    <2>1. slot[1] \in Partition /\ slot[2] \in 1..Len(log[slot[1]])
      BY <1>4 DEF Produced, Slot
    <2>2. CASE slot[1] = p
      BY <1>3, <2>1, <2>2 DEF MessageAt
    <2>3. CASE slot[1] # p
      BY <1>2, <2>1, <2>3 DEF MessageAt
    <2> QED
      BY <2>2, <2>3
  <1>9. ASSUME NEW slot \in Produced', slot \notin Produced PROVE slot[2] > Len(log[slot[1]])
    BY <1>4, <1>9 DEF Produced, Slot
  <1> QED
    BY <1>5, <1>6, <1>7, <1>8, <1>9

LEMMA ProduceInv ==
    ASSUME Inv, NEW m \in Message, NEW p \in Partition, Produce(m, p)
    PROVE  Inv'
  <1>1. /\ log' \in [Partition -> Seq(Message)]
        /\ \A q \in Partition : Len(log[q]) <= Len(log'[q]) /\ Len(log'[q]) <= MaxLen
        /\ Produced \subseteq Produced'
        /\ \A slot \in Produced : MessageAt(slot)' = MessageAt(slot)
        /\ \A slot \in Produced' : slot \notin Produced => slot[2] > Len(log[slot[1]])
    BY ProduceAppends DEF Inv
  <1>2. UNCHANGED <<committed, inflight, position, consumer, done, failed, skipped, effects, assigns>>
    BY DEF Produce, outcomes
  <1>3. TypeOK'
    <2>1. consumer' \in {Waiting("down"), Waiting("recv")}
          \/ consumer' \in [pc : {"handle", "commit"}, slot : Produced']
      BY <1>1, <1>2 DEF Inv, TypeOK
    <2> QED
      BY <1>1, <1>2, <2>1 DEF Inv, TypeOK, Waiting
  <1>4. /\ \A q \in Partition : /\ Len(log[q]) \in Nat /\ Len(log'[q]) \in Nat
                                /\ position[q] \in Nat
        /\ \A slot \in Produced' : slot[1] \in Partition /\ slot[2] \in Nat
    BY <1>1, LenProperties DEF Inv, TypeOK, Produced, Slot
  <1>5. OffsetsInOrder'
    BY <1>1, <1>2, <1>4 DEF Inv, OffsetsInOrder
  <1>6. AtPosition'
    BY <1>2 DEF Inv, AtPosition, At
  <1>7. \A slot \in Produced : Ended(slot)' <=> Ended(slot)
    BY <1>1, <1>2 DEF Ended
  <1>8. \A slot \in Produced' : slot[2] <= position[slot[1]] => slot \in Produced
    BY <1>1, <1>4 DEF Inv, OffsetsInOrder
  <1>9. BehindEnded'
    <2> SUFFICES ASSUME ~At("down")', NEW slot \in Produced', slot[2] <= position'[slot[1]]
                 PROVE  Ended(slot)' \/ Handling(slot)'
      BY DEF BehindEnded
    <2>1. slot \in Produced
      BY <1>2, <1>8
    <2> QED
      BY <1>2, <1>7, <2>1 DEF Inv, BehindEnded, Handling, At
  <1>10. InflightEnded'
    <2> SUFFICES ASSUME NEW slot \in Produced', NEW o \in inflight'[slot[1]], slot[2] <= o
                 PROVE  Ended(slot)'
      BY DEF InflightEnded
    <2>1. o \in inflight[slot[1]] /\ o <= position[slot[1]] /\ o \in Nat
      BY <1>2, <1>4 DEF Inv, OffsetsInOrder, TypeOK
    <2>2. slot \in Produced
      BY <1>4, <1>8, <2>1
    <2> QED
      BY <1>7, <2>1, <2>2 DEF Inv, InflightEnded
  <1>11. LossAccounted'
    <2> SUFFICES ASSUME NEW slot \in Produced', Covered(slot)'
                 PROVE  Ended(slot)'
      BY DEF LossAccounted, Ended
    <2>1. Covered(slot) /\ committed[slot[1]] \in Nat /\ committed[slot[1]] <= position[slot[1]]
      BY <1>2, <1>4 DEF Covered, Inv, OffsetsInOrder, TypeOK
    <2>2. slot \in Produced
      BY <1>4, <1>8, <2>1 DEF Covered
    <2> QED
      BY <1>7, <2>1, <2>2 DEF Inv, LossAccounted, Ended
  <1> QED
    BY <1>3, <1>5, <1>6, <1>9, <1>10, <1>11 DEF Inv

-----------------------------------------------------------------------------
(* The other steps leave the log as it is                                  *)

LEMMA SameLog ==
    ASSUME log' = log
    PROVE  /\ Produced' = Produced
           /\ \A slot \in Produced : MessageAt(slot)' = MessageAt(slot)
  BY DEF Produced, MessageAt

\* What the type invariant says of a partition and of a produced slot.
LEMMA TypeFacts ==
    ASSUME TypeOK
    PROVE  /\ \A p \in Partition :
                 /\ log[p] \in Seq(Message) /\ Len(log[p]) \in 0..MaxLen
                 /\ position[p] \in Nat
                 /\ committed[p] # NULL => committed[p] \in Nat
                 /\ inflight[p] \subseteq Nat
           /\ \A slot \in Produced :
                 /\ slot[1] \in Partition
                 /\ slot[2] \in 1..Len(log[slot[1]])
                 /\ slot = <<slot[1], slot[2]>>
                 /\ MessageAt(slot) \in Message
           /\ MaxLen \in Nat
  <1>1. /\ log \in [Partition -> Seq(Message)] /\ MaxLen \in Nat
        /\ \A p \in Partition : Len(log[p]) <= MaxLen
    BY ConsumerAssumption DEF TypeOK
  <1>2. ASSUME NEW p \in Partition
        PROVE  /\ log[p] \in Seq(Message) /\ Len(log[p]) \in 0..MaxLen
               /\ position[p] \in Nat
               /\ committed[p] # NULL => committed[p] \in Nat
               /\ inflight[p] \subseteq Nat
    BY <1>1, LenProperties DEF TypeOK
  <1>3. ASSUME NEW slot \in Produced
        PROVE  /\ slot[1] \in Partition
               /\ slot[2] \in 1..Len(log[slot[1]])
               /\ slot = <<slot[1], slot[2]>>
               /\ MessageAt(slot) \in Message
    <2>1. /\ slot[1] \in Partition /\ slot[2] \in 1..Len(log[slot[1]])
          /\ slot = <<slot[1], slot[2]>>
      BY <1>1, <1>2 DEF Produced, Slot
    <2>2. MessageAt(slot) \in Message
      BY <1>2, <2>1, ElementOfSeq DEF MessageAt
    <2> QED
      BY <2>1, <2>2
  <1> QED
    BY <1>1, <1>2, <1>3

\* While a message is at hand, consumer.slot is its slot.
LEMMA AtHand ==
    ASSUME TypeOK, At("handle") \/ At("commit")
    PROVE  /\ consumer \in [pc : {"handle", "commit"}, slot : Produced]
           /\ consumer.slot \in Produced
           /\ consumer.slot[1] \in Partition
           /\ consumer.slot[2] \in 1..Len(log[consumer.slot[1]])
           /\ consumer.slot[2] \in 1..MaxLen
  <1>1. consumer \in [pc : {"handle", "commit"}, slot : Produced]
    BY DEF TypeOK, At, Waiting
  <1>2. consumer.slot \in Produced
    BY <1>1
  <1> QED
    BY <1>1, <1>2, TypeFacts

LEMMA StoreCommitInv ==
    ASSUME Inv, NEW p \in Partition, StoreCommit(p)
    PROVE  Inv'
  <1>1. PICK o \in inflight[p] : /\ committed' = [committed EXCEPT ![p] = o]
                                 /\ inflight' = [inflight EXCEPT ![p] = {i \in @ : i > o}]
    BY DEF StoreCommit
  <1>2. UNCHANGED <<log, position, consumer, done, failed, skipped, effects, assigns>>
    BY DEF StoreCommit, outcomes
  <1>3. TypeOK
    BY DEF Inv
  <1>4. /\ inflight \in [Partition -> SUBSET (1..MaxLen)]
        /\ committed \in [Partition -> 0..MaxLen \cup {NULL}]
    BY <1>3 DEF TypeOK
  <1>5. /\ o \in 1..MaxLen /\ o \in Nat /\ o \in 0..MaxLen
        /\ inflight'[p] = {i \in inflight[p] : i > o} /\ committed'[p] = o
        /\ \A q \in Partition : q # p => inflight'[q] = inflight[q] /\ committed'[q] = committed[q]
        /\ \A q \in Partition : inflight'[q] \subseteq inflight[q]
    BY <1>1, <1>4, TypeFacts, <1>3
  <1>6. TypeOK'
    <2>1. committed' \in [Partition -> 0..MaxLen \cup {NULL}]
      BY <1>1, <1>4, <1>5
    <2>2. inflight' \in [Partition -> SUBSET (1..MaxLen)]
      BY <1>1, <1>4, <1>5
    <2> QED
      BY <1>2, <1>3, <2>1, <2>2, SameLog DEF TypeOK, Waiting
  <1>7. OffsetsInOrder'
    BY <1>2, <1>3, <1>5, TypeFacts DEF Inv, OffsetsInOrder
  <1>8. AtPosition' /\ BehindEnded'
    BY <1>2, SameLog DEF Inv, AtPosition, BehindEnded, Ended, Handling, At
  <1>9. \A slot \in Produced : Ended(slot)' <=> Ended(slot)
    BY <1>2, SameLog DEF Ended
  <1>10. InflightEnded'
    BY <1>2, <1>3, <1>5, <1>9, SameLog, TypeFacts DEF Inv, InflightEnded
  <1>11. LossAccounted'
    <2> SUFFICES ASSUME NEW slot \in Produced, Covered(slot)' PROVE Ended(slot)
      BY <1>2, <1>9, SameLog DEF LossAccounted, Ended
    <2>1. CASE slot[1] = p
      BY <1>5, <2>1 DEF Covered, Inv, InflightEnded
    <2>2. CASE slot[1] # p
      BY <1>3, <1>5, <2>2, TypeFacts DEF Covered, Inv, LossAccounted, Ended
    <2> QED
      BY <2>1, <2>2
  <1> QED
    BY <1>6, <1>7, <1>8, <1>10, <1>11 DEF Inv

LEMMA AssignInv ==
    ASSUME Inv, Assign
    PROVE  Inv'
  <1>1. /\ UNCHANGED <<log, committed, done, failed, effects>>
        /\ position' = [p \in Partition |-> StartOf(p)]
        /\ inflight' = [p \in Partition |-> {}]
        /\ skipped' = skipped \cup {slot \in Produced : committed[slot[1]] = NULL}
        /\ consumer' = Waiting("recv")
        /\ assigns' = assigns + 1
    BY DEF Assign, outcomes
  <1>2. TypeOK
    BY DEF Inv
  <1>3. \A p \in Partition : /\ position'[p] = StartOf(p)
                             /\ position'[p] \in 0..MaxLen /\ position'[p] <= Len(log[p])
                             /\ inflight'[p] = {}
    BY <1>1, <1>2, TypeFacts DEF StartOf, Inv, OffsetsInOrder, TypeOK
  <1>4. TypeOK'
    BY <1>1, <1>2, <1>3, SameLog DEF TypeOK, Waiting
  <1>5. OffsetsInOrder'
    BY <1>1, <1>2, <1>3, TypeFacts DEF OffsetsInOrder, StartOf
  <1>6. AtPosition'
    BY <1>1 DEF AtPosition, At, Waiting
  <1>7. ASSUME NEW slot \in Produced
        PROVE  /\ Ended(slot) => Ended(slot)'
               /\ slot[2] <= position'[slot[1]] => Ended(slot)'
    <2>1. Ended(slot) => Ended(slot)'
      BY <1>1, SameLog DEF Ended
    <2>2. CASE committed[slot[1]] = NULL
      BY <1>1, <2>2 DEF Ended
    <2>3. CASE committed[slot[1]] # NULL
      BY <1>2, <1>3, <2>1, <2>3, TypeFacts DEF StartOf, Inv, LossAccounted, Covered, Ended
    <2> QED
      BY <2>1, <2>2, <2>3
  <1>8. BehindEnded' /\ InflightEnded' /\ LossAccounted'
    <2>1. BehindEnded'
      BY <1>1, <1>7, SameLog DEF BehindEnded
    <2>2. InflightEnded'
      BY <1>1, <1>2, <1>3, SameLog, TypeFacts DEF InflightEnded
    <2>3. LossAccounted'
      <3> SUFFICES ASSUME NEW slot \in Produced, Covered(slot)' PROVE Ended(slot)'
        BY <1>1, SameLog DEF LossAccounted, Ended
      <3> QED
        BY <1>1, <1>7 DEF Covered, Inv, LossAccounted, Ended
    <2> QED
      BY <2>1, <2>2, <2>3
  <1> QED
    BY <1>4, <1>5, <1>6, <1>8 DEF Inv

\* A step of the loop changes neither the log nor what Kafka holds, and ends no
\* slot's account: what is left to show is about the position.
LEMMA OutcomesGrow ==
    ASSUME Inv, UNCHANGED <<log, committed>>, UNCHANGED skipped,
           done \subseteq done', failed \subseteq failed'
    PROVE  /\ \A slot \in Produced : Ended(slot) => Ended(slot)'
           /\ LossAccounted'
  <1>1. \A slot \in Produced : Ended(slot) => Ended(slot)'
    BY SameLog DEF Ended
  <1>2. LossAccounted'
    <2> SUFFICES ASSUME NEW slot \in Produced, Covered(slot)' PROVE Ended(slot)'
      BY SameLog DEF LossAccounted, Ended
    <2> QED
      BY <1>1 DEF Covered, Inv, LossAccounted, Ended
  <1> QED
    BY <1>1, <1>2

LEMMA RecvInv ==
    ASSUME Inv, NEW p \in Partition, Recv(p)
    PROVE  Inv'
  <1> PICK n : n = <<p, position[p] + 1>>
    OBVIOUS
  <1>1. /\ At("recv") /\ n \in Produced
        /\ position' = [position EXCEPT ![p] = @ + 1]
        /\ \/ MessageAt(n) \in Invalid /\ consumer' = consumer
           \/ MessageAt(n) \notin Invalid /\ consumer' = [pc |-> "handle", slot |-> n]
        /\ UNCHANGED <<log, committed, inflight, done, failed, effects, skipped, assigns>>
    BY DEF Recv, NextSlot, Advance, kafka, outcomes
  <1>2. TypeOK
    BY DEF Inv
  <1>3. /\ n[1] = p /\ n[2] = position[p] + 1
        /\ position[p] \in Nat /\ position[p] + 1 <= Len(log[p]) /\ position[p] + 1 \in 0..MaxLen
        /\ position'[p] = position[p] + 1
        /\ \A q \in Partition : q # p => position'[q] = position[q]
        /\ \A q \in Partition : position'[q] \in Nat /\ position[q] <= position'[q]
    BY <1>1, <1>2, TypeFacts DEF TypeOK
  <1>4. TypeOK'
    <2>1. position' \in [Partition -> 0..MaxLen]
      BY <1>1, <1>2, <1>3 DEF TypeOK
    <2>2. \/ consumer' \in {Waiting("down"), Waiting("recv")}
          \/ consumer' \in [pc : {"handle", "commit"}, slot : Produced]
      <3>1. [pc |-> "handle", slot |-> n] \in [pc : {"handle", "commit"}, slot : Produced]
        BY <1>1
      <3> QED
        BY <1>1, <1>2, <3>1 DEF TypeOK
    <2> QED
      BY <1>1, <1>2, <2>1, <2>2, SameLog DEF TypeOK, Waiting
  <1>5. OffsetsInOrder'
    BY <1>1, <1>2, <1>3, TypeFacts DEF Inv, OffsetsInOrder
  <1>6. AtPosition'
    BY <1>1, <1>3 DEF AtPosition, At
  <1>7. /\ \A slot \in Produced : Ended(slot) => Ended(slot)'
        /\ LossAccounted'
    BY <1>1, OutcomesGrow
  <1>8. BehindEnded'
    <2> SUFFICES ASSUME NEW slot \in Produced, slot[2] <= position'[slot[1]]
                 PROVE  Ended(slot)' \/ Handling(slot)'
      BY <1>1, SameLog DEF BehindEnded
    <2>1. CASE slot[2] <= position[slot[1]]
      BY <1>1, <1>7, <2>1 DEF Inv, BehindEnded, Handling, At
    <2>2. CASE ~(slot[2] <= position[slot[1]])
      <3>1. slot = n
        BY <1>2, <1>3, <2>2, TypeFacts
      <3> QED
        BY <1>1, <3>1, SameLog DEF Ended, Handling, At
    <2> QED
      BY <2>1, <2>2
  <1>9. InflightEnded'
    BY <1>1, <1>7, SameLog DEF Inv, InflightEnded
  <1> QED
    BY <1>4, <1>5, <1>6, <1>7, <1>8, <1>9 DEF Inv

\* The handler ends: the message at hand is accounted for, the rest stays.
LEMMA HandlerEnds ==
    ASSUME Inv, At("handle"),
           \/ done' = done \cup {consumer.slot} /\ failed' = failed
           \/ failed' = failed \cup {consumer.slot} /\ done' = done,
           consumer' \in {Waiting("recv"), [consumer EXCEPT !.pc = "commit"]},
           consumer'.pc = "commit" => consumer.slot \in done',
           effects' \in [Message -> Nat],
           UNCHANGED <<log, committed, inflight, position, skipped, assigns>>
    PROVE  Inv'
  <1>1. TypeOK
    BY DEF Inv
  <1>2. /\ consumer \in [pc : {"handle", "commit"}, slot : Produced]
        /\ consumer.slot \in Produced
    BY <1>1, AtHand
  <1>3. TypeOK'
    <2>1. \/ consumer' \in {Waiting("down"), Waiting("recv")}
          \/ consumer' \in [pc : {"handle", "commit"}, slot : Produced]
      <3>1. [consumer EXCEPT !.pc = "commit"] \in [pc : {"handle", "commit"}, slot : Produced]
        BY <1>2
      <3> QED
        BY <3>1
    <2>2. done' \subseteq Produced /\ failed' \subseteq Produced
      BY <1>1, <1>2 DEF TypeOK
    <2> QED
      BY <1>1, <2>1, <2>2, SameLog DEF TypeOK, Waiting
  <1>4. OffsetsInOrder'
    BY DEF Inv, OffsetsInOrder
  <1>5. AtPosition'
    BY <1>2 DEF Inv, AtPosition, At, Waiting
  <1>6. /\ \A slot \in Produced : Ended(slot) => Ended(slot)'
        /\ LossAccounted'
    BY OutcomesGrow
  <1>7. Ended(consumer.slot)' \/ consumer'.slot # consumer.slot
    BY DEF Ended
  <1>8. BehindEnded'
    <2> SUFFICES ASSUME NEW slot \in Produced, slot[2] <= position[slot[1]]
                 PROVE  Ended(slot)'
      BY SameLog DEF BehindEnded
    <2>1. CASE slot = consumer.slot
      BY <2>1 DEF Ended
    <2>2. CASE slot # consumer.slot
      BY <1>6, <2>2 DEF Inv, BehindEnded, Handling, At
    <2> QED
      BY <2>1, <2>2
  <1>9. InflightEnded'
    BY <1>6, SameLog DEF Inv, InflightEnded
  <1> QED
    BY <1>3, <1>4, <1>5, <1>6, <1>8, <1>9 DEF Inv

\* The effect of the message at hand leaves effects a function to Nat.
LEMMA EffectType ==
    ASSUME TypeOK, At("handle"), Effect \/ UNCHANGED effects
    PROVE  effects' \in [Message -> Nat]
  <1>1. effects \in [Message -> Nat]
    BY DEF TypeOK
  <1> QED
    BY <1>1 DEF Effect

LEMMA HandlerInv ==
    ASSUME Inv, HandlerSucceeds \/ HandlerFails
    PROVE  Inv'
  <1>1. TypeOK /\ At("handle")
    BY DEF Inv, HandlerSucceeds, HandlerFails
  <1>2. effects' \in [Message -> Nat]
    BY <1>1, EffectType DEF HandlerSucceeds, HandlerFails
  <1>3. CASE HandlerSucceeds
    BY <1>1, <1>2, <1>3, HandlerEnds DEF HandlerSucceeds, kafka
  <1>4. CASE HandlerFails
    BY <1>1, <1>2, <1>4, HandlerEnds DEF HandlerFails, kafka, Waiting
  <1> QED
    BY <1>3, <1>4

LEMMA CommitInv ==
    ASSUME Inv, Commit
    PROVE  Inv'
  <1> PICK p, n : p = consumer.slot[1] /\ n = consumer.slot[2]
    OBVIOUS
  <1>1. /\ At("commit")
        /\ inflight' = [inflight EXCEPT ![p] = @ \cup {n}] \/ inflight' = inflight
        /\ consumer' = Waiting("recv")
        /\ UNCHANGED <<log, committed, position, done, failed, effects, skipped, assigns>>
    BY DEF Commit, outcomes
  <1>2. TypeOK
    BY DEF Inv
  <1>3. p \in Partition /\ n \in 1..MaxLen /\ position[p] = n
    BY <1>1, <1>2, AtHand DEF Inv, AtPosition
  <1>4. /\ \A q \in Partition : q # p => inflight'[q] = inflight[q]
        /\ inflight'[p] \subseteq inflight[p] \cup {n}
        /\ inflight' \in [Partition -> SUBSET (1..MaxLen)]
    <2>1. inflight \in [Partition -> SUBSET (1..MaxLen)]
      BY <1>2 DEF TypeOK
    <2>2. CASE inflight' = inflight
      BY <2>1, <2>2
    <2>3. CASE inflight' = [inflight EXCEPT ![p] = @ \cup {n}]
      <3>1. /\ inflight'[p] = inflight[p] \cup {n}
            /\ \A q \in Partition : q # p => inflight'[q] = inflight[q]
        BY <1>3, <2>1, <2>3
      <3>2. inflight[p] \cup {n} \in SUBSET (1..MaxLen)
        BY <1>3, <2>1
      <3>3. inflight' \in [Partition -> SUBSET (1..MaxLen)]
        BY <2>1, <2>3, <3>2
      <3> QED
        BY <3>1, <3>3
    <2> QED
      BY <1>1, <2>2, <2>3
  <1>5. TypeOK'
    BY <1>1, <1>2, <1>4, SameLog DEF TypeOK, Waiting
  <1>6. OffsetsInOrder'
    BY <1>1, <1>2, <1>3, <1>4, TypeFacts DEF Inv, OffsetsInOrder
  <1>7. AtPosition'
    BY <1>1 DEF AtPosition, At, Waiting
  <1>8. /\ \A slot \in Produced : Ended(slot) => Ended(slot)'
        /\ LossAccounted'
    BY <1>1, OutcomesGrow
  <1>9. \A slot \in Produced : slot[2] <= position[slot[1]] => Ended(slot)
    BY <1>1 DEF Inv, BehindEnded, Handling, At
  <1>10. BehindEnded'
    BY <1>1, <1>8, <1>9, SameLog DEF BehindEnded
  <1>11. InflightEnded'
    <2> SUFFICES ASSUME NEW slot \in Produced, NEW o \in inflight'[slot[1]], slot[2] <= o
                 PROVE  Ended(slot)
      BY <1>1, <1>8, SameLog DEF InflightEnded
    <2>1. CASE o \in inflight[slot[1]]
      BY <2>1 DEF Inv, InflightEnded
    <2>2. CASE o \notin inflight[slot[1]]
      BY <1>2, <1>3, <1>4, <1>9, <2>2, TypeFacts
    <2> QED
      BY <2>1, <2>2
  <1> QED
    BY <1>5, <1>6, <1>7, <1>8, <1>10, <1>11 DEF Inv

LEMMA StopInv ==
    ASSUME Inv, Stop
    PROVE  Inv'
  <1>1. /\ consumer' = Waiting("down")
        /\ UNCHANGED <<log, committed, inflight, position, done, failed, skipped, assigns>>
    BY DEF Stop, kafka
  <1>2. TypeOK
    BY DEF Inv
  <1>3. effects' \in [Message -> Nat]
    BY <1>2, EffectType DEF Stop, TypeOK
  <1>4. TypeOK'
    BY <1>1, <1>2, <1>3, SameLog DEF TypeOK, Waiting
  <1>5. OffsetsInOrder' /\ AtPosition' /\ BehindEnded'
    BY <1>1 DEF Inv, OffsetsInOrder, AtPosition, BehindEnded, At, Waiting
  <1>6. /\ \A slot \in Produced : Ended(slot) => Ended(slot)'
        /\ LossAccounted'
    BY <1>1, OutcomesGrow
  <1>7. InflightEnded'
    BY <1>1, <1>6, SameLog DEF Inv, InflightEnded
  <1> QED
    BY <1>4, <1>5, <1>6, <1>7 DEF Inv

LEMMA StepInv == Inv /\ [Next]_vars => Inv'
  <1> SUFFICES ASSUME Inv, [Next]_vars PROVE Inv'
    OBVIOUS
  <1>1. CASE Next
    BY <1>1, ProduceInv, StoreCommitInv, AssignInv, RecvInv, HandlerInv, CommitInv, StopInv
       DEF Next, Loop
  <1>2. CASE UNCHANGED vars
    <2>1. /\ UNCHANGED <<log, committed, inflight, done, failed, effects>>
          /\ UNCHANGED <<position, consumer, skipped, assigns>>
      BY <1>2 DEF vars, kafka, outcomes
    <2>2. TypeOK' /\ OffsetsInOrder' /\ AtPosition'
      BY <2>1, SameLog DEF Inv, TypeOK, OffsetsInOrder, AtPosition, At, Waiting
    <2>3. \A slot \in Produced : Ended(slot)' <=> Ended(slot)
      BY <2>1, SameLog DEF Ended
    <2>4. BehindEnded' /\ InflightEnded'
      BY <2>1, <2>3, SameLog DEF Inv, BehindEnded, InflightEnded, Handling, At
    <2>5. LossAccounted'
      BY <2>1, OutcomesGrow
    <2> QED
      BY <2>2, <2>4, <2>5 DEF Inv
  <1> QED
    BY <1>1, <1>2

-----------------------------------------------------------------------------

\* Every reachable state of the topic and its consumer is well typed.
THEOREM TypeCorrect == Spec => []TypeOK
  <1>1. Inv => TypeOK
    BY DEF Inv
  <1> QED
    BY InitInv, StepInv, <1>1, PTL DEF Spec

\* No message is lost behind the committed offset, however the process stops,
\* is rebalanced or its commits are lost: the offset covers only messages whose
\* handler ended, that cannot be read, or that an assignment skipped because the
\* partition had no offset yet.
THEOREM NothingLost == Spec => []LossAccounted
  <1>1. Inv => LossAccounted
    BY DEF Inv
  <1> QED
    BY InitInv, StepInv, <1>1, PTL DEF Spec

LEMMA CommitsInOrder ==
    ASSUME Inv, [Next]_vars
    PROVE  \A p \in Partition : committed[p] # NULL =>
              committed'[p] # NULL /\ committed'[p] >= committed[p]
  <1> SUFFICES ASSUME NEW p \in Partition, committed[p] # NULL
               PROVE  committed'[p] # NULL /\ committed'[p] >= committed[p]
    OBVIOUS
  <1>1. TypeOK /\ OffsetsInOrder
    BY DEF Inv
  <1>2. committed[p] \in Nat
    BY <1>1, TypeFacts
  <1>3. CASE UNCHANGED committed
    BY <1>2, <1>3
  <1>4. ASSUME NEW q \in Partition, StoreCommit(q)
        PROVE  committed'[p] # NULL /\ committed'[p] >= committed[p]
    <2>1. PICK o \in inflight[q] : committed' = [committed EXCEPT ![q] = o]
      BY <1>4 DEF StoreCommit
    <2>2. o \in Nat
      BY <1>1, TypeFacts
    <2>3. committed'[q] = o /\ (p # q => committed'[p] = committed[p])
      BY <1>1, <2>1 DEF TypeOK
    <2> QED
      BY <1>1, <1>2, <2>2, <2>3, ConsumerAssumption DEF OffsetsInOrder
  <1> QED
    BY <1>3, <1>4
       DEF Next, Loop, Produce, Assign, Recv, HandlerSucceeds, HandlerFails, Commit, Stop,
           kafka, vars

\* The committed offset never goes back: a commit on its way lies at or past it,
\* a commit that arrives discards the older ones, and an assignment discards all.
THEOREM CommitsNeverGoBack == Spec => CommitsAdvance
  <1>1. Inv /\ [Next]_vars => [\A p \in Partition : committed[p] # NULL =>
            committed'[p] # NULL /\ committed'[p] >= committed[p]]_vars
    BY CommitsInOrder
  <1> QED
    BY InitInv, StepInv, <1>1, PTL DEF Spec, CommitsAdvance

-----------------------------------------------------------------------------
(* How often a message takes effect                                        *)

\* The copies this assignment is through with.
Behind(m) == {slot \in CopiesOf(m) : slot[2] <= position[slot[1]] /\ ~Handling(slot)}

\* Every assignment but the last used each copy once at most, and the last one
\* only the copies it is through with.
Budget(m) ==
    /\ assigns = 0 => effects[m] = 0
    /\ assigns > 0 => effects[m] + Cardinality(CopiesOf(m))
                         <= Cardinality(CopiesOf(m)) * assigns + Cardinality(Behind(m))

EffectInv ==
    /\ Inv
    /\ ~At("down") => assigns > 0
    /\ \A m \in Message : Budget(m)

LEMMA CopiesFinite ==
    ASSUME TypeOK, NEW m \in Message
    PROVE  /\ IsFiniteSet(CopiesOf(m)) /\ IsFiniteSet(Behind(m))
           /\ Cardinality(CopiesOf(m)) \in Nat /\ Cardinality(Behind(m)) \in Nat
           /\ Cardinality(Behind(m)) <= Cardinality(CopiesOf(m))
           /\ effects[m] \in Nat /\ assigns \in Nat
  <1>1. IsFiniteSet(1..MaxLen)
    BY FS_Interval, ConsumerAssumption
  <1>2. IsFiniteSet(Slot)
    BY <1>1, FS_Product, ConsumerAssumption DEF Slot
  <1>3. CopiesOf(m) \in SUBSET Slot /\ Behind(m) \in SUBSET CopiesOf(m)
    BY DEF CopiesOf, Produced, Behind
  <1>4. IsFiniteSet(CopiesOf(m))
    BY <1>2, <1>3, FS_Subset
  <1>5. IsFiniteSet(Behind(m)) /\ Cardinality(Behind(m)) <= Cardinality(CopiesOf(m))
    BY <1>3, <1>4, FS_Subset
  <1>6. Cardinality(CopiesOf(m)) \in Nat /\ Cardinality(Behind(m)) \in Nat
    BY <1>4, <1>5, FS_CardinalityType
  <1> QED
    BY <1>4, <1>5, <1>6 DEF TypeOK

\* The arithmetic of the steps: c copies, a assignments.
LEMMA OneMoreCopy ==
    ASSUME NEW c \in Nat, NEW a \in Nat, a > 0, NEW e \in Nat, NEW b \in Nat,
           e + c <= c * a + b
    PROVE  e + (c + 1) <= (c + 1) * a + b
  <1>1. (c + 1) * a = c * a + a /\ c * a \in Nat
    OBVIOUS
  <1> QED
    BY <1>1

LEMMA OneMoreAssign ==
    ASSUME NEW c \in Nat, NEW a \in Nat, NEW e \in Nat, NEW b \in Nat, b <= c,
           a = 0 => e = 0,
           a > 0 => e + c <= c * a + b
    PROVE  e + c <= c * (a + 1) /\ e <= c * a
  <1>1. c * (a + 1) = c * a + c /\ c * a \in Nat
    OBVIOUS
  <1>2. a = 0 => c * a = 0
    OBVIOUS
  <1> QED
    BY <1>1, <1>2

\* A step that takes no effect keeps the budget when the copies stay and none
\* of those it is through with is forgotten.
LEMMA BudgetKept ==
    ASSUME TypeOK, NEW m \in Message, Budget(m),
           UNCHANGED assigns, effects'[m] = effects[m],
           CopiesOf(m)' = CopiesOf(m), Behind(m) \subseteq Behind(m)'
    PROVE  Budget(m)'
  <1>1. IsFiniteSet(Behind(m)') /\ Cardinality(Behind(m)') \in Nat
    <2>1. IsFiniteSet(CopiesOf(m)) /\ Behind(m)' \in SUBSET CopiesOf(m)
      BY CopiesFinite DEF Behind
    <2> QED
      BY <2>1, FS_Subset, FS_CardinalityType
  <1>2. Cardinality(Behind(m)) <= Cardinality(Behind(m)')
    BY <1>1, FS_Subset
  <1>3. /\ effects[m] \in Nat /\ assigns \in Nat
        /\ Cardinality(CopiesOf(m)) \in Nat /\ Cardinality(Behind(m)) \in Nat
        /\ Cardinality(CopiesOf(m)) * assigns \in Nat
    BY CopiesFinite
  <1> QED
    BY <1>1, <1>2, <1>3 DEF Budget

\* A step that takes an effect keeps it when it is through with one more copy.
LEMMA BudgetSpent ==
    ASSUME TypeOK, NEW m \in Message, Budget(m),
           UNCHANGED assigns, assigns > 0, effects'[m] = effects[m] + 1,
           CopiesOf(m)' = CopiesOf(m),
           NEW slot, slot \notin Behind(m), Behind(m) \cup {slot} \subseteq Behind(m)'
    PROVE  Budget(m)'
  <1>1. IsFiniteSet(Behind(m)') /\ Cardinality(Behind(m)') \in Nat
    <2>1. IsFiniteSet(CopiesOf(m)) /\ Behind(m)' \in SUBSET CopiesOf(m)
      BY CopiesFinite DEF Behind
    <2> QED
      BY <2>1, FS_Subset, FS_CardinalityType
  <1>2. /\ effects[m] \in Nat /\ assigns \in Nat
        /\ Cardinality(CopiesOf(m)) \in Nat /\ Cardinality(Behind(m)) \in Nat
        /\ Cardinality(CopiesOf(m)) * assigns \in Nat
        /\ IsFiniteSet(Behind(m))
    BY CopiesFinite
  <1>3. Cardinality(Behind(m) \cup {slot}) = Cardinality(Behind(m)) + 1
    BY <1>2, FS_AddElement
  <1>4. Cardinality(Behind(m) \cup {slot}) <= Cardinality(Behind(m)')
    BY <1>1, FS_Subset
  <1> QED
    BY <1>1, <1>2, <1>3, <1>4 DEF Budget

LEMMA ProduceBudget ==
    ASSUME EffectInv, NEW n \in Message, NEW p \in Partition, Produce(n, p), NEW m \in Message
    PROVE  Budget(m)'
  <1> PICK new : new = <<p, Len(log[p]) + 1>>
    OBVIOUS
  <1>1. TypeOK /\ Inv /\ Budget(m)
    BY DEF EffectInv, Inv
  <1>2. UNCHANGED <<position, consumer, effects, assigns>>
    BY DEF Produce, outcomes
  <1>3. /\ Produced \subseteq Produced'
        /\ \A slot \in Produced : MessageAt(slot)' = MessageAt(slot)
        /\ \A slot \in Produced' : slot \notin Produced => slot[2] > Len(log[slot[1]])
    BY <1>1, ProduceAppends
  <1>4. \A slot \in Produced' : slot \notin Produced => slot = new
    <2>1. /\ log \in [Partition -> Seq(Message)] /\ log' = [log EXCEPT ![p] = Append(@, n)]
      BY <1>1 DEF TypeOK, Produce
    <2>2. /\ Len(log'[p]) = Len(log[p]) + 1
          /\ \A q \in Partition : q # p => log'[q] = log[q]
      BY <2>1, AppendProperties
    <2>3. \A q \in Partition : Len(log[q]) \in Nat
      BY <1>1, TypeFacts
    <2> QED
      BY <1>3, <2>2, <2>3 DEF Produced, Slot
  <1>5. \/ CopiesOf(m)' = CopiesOf(m)
        \/ CopiesOf(m)' = CopiesOf(m) \cup {new} /\ new \notin CopiesOf(m)
    <2>1. CopiesOf(m) \subseteq CopiesOf(m)' /\ CopiesOf(m)' \subseteq CopiesOf(m) \cup {new}
      BY <1>3, <1>4 DEF CopiesOf
    <2> QED
      BY <2>1
  <1>6. Behind(m)' = Behind(m)
    <2>1. ASSUME NEW slot \in Produced', slot[2] <= position[slot[1]] PROVE slot \in Produced
      <3>1. slot[1] \in Partition /\ slot[2] \in Nat
        BY DEF Produced, Slot
      <3>2. position[slot[1]] <= Len(log[slot[1]]) /\ position[slot[1]] \in Nat
            /\ Len(log[slot[1]]) \in Nat
        BY <1>1, <3>1, TypeFacts DEF Inv, OffsetsInOrder
      <3> QED
        BY <1>3, <2>1, <3>1, <3>2
    <2>2. Behind(m) \subseteq Behind(m)'
      BY <1>2, <1>3 DEF Behind, CopiesOf, Handling, At
    <2>3. Behind(m)' \subseteq Behind(m)
      BY <1>2, <1>3, <2>1 DEF Behind, CopiesOf, Handling, At
    <2> QED
      BY <2>2, <2>3
  <1>7. CASE CopiesOf(m)' = CopiesOf(m)
    BY <1>1, <1>2, <1>6, <1>7 DEF Budget
  <1>8. CASE CopiesOf(m)' = CopiesOf(m) \cup {new} /\ new \notin CopiesOf(m)
    <2>1. /\ effects[m] \in Nat /\ assigns \in Nat /\ IsFiniteSet(CopiesOf(m))
          /\ Cardinality(CopiesOf(m)) \in Nat /\ Cardinality(Behind(m)) \in Nat
      BY <1>1, CopiesFinite
    <2>2. Cardinality(CopiesOf(m)') = Cardinality(CopiesOf(m)) + 1
      BY <1>8, <2>1, FS_AddElement
    <2>3. CASE assigns > 0
      <3>1. effects[m] + (Cardinality(CopiesOf(m)) + 1)
              <= (Cardinality(CopiesOf(m)) + 1) * assigns + Cardinality(Behind(m))
        BY <1>1, <2>1, <2>3, OneMoreCopy DEF Budget
      <3> QED
        BY <1>2, <1>6, <2>2, <2>3, <3>1 DEF Budget
    <2>4. CASE assigns = 0
      BY <1>1, <1>2, <2>4 DEF Budget
    <2> QED
      BY <2>1, <2>3, <2>4
  <1> QED
    BY <1>5, <1>7, <1>8

LEMMA AssignBudget ==
    ASSUME EffectInv, Assign, NEW m \in Message
    PROVE  Budget(m)'
  <1>1. TypeOK /\ Budget(m)
    BY DEF EffectInv, Inv
  <1>2. /\ UNCHANGED <<log, effects>> /\ assigns' = assigns + 1
    BY DEF Assign, outcomes
  <1>3. CopiesOf(m)' = CopiesOf(m)
    BY <1>2, SameLog DEF CopiesOf
  <1>4. /\ effects[m] \in Nat /\ assigns \in Nat /\ IsFiniteSet(CopiesOf(m))
        /\ Cardinality(CopiesOf(m)) \in Nat /\ Cardinality(Behind(m)) \in Nat
        /\ Cardinality(Behind(m)) <= Cardinality(CopiesOf(m))
    BY <1>1, CopiesFinite
  <1>5. effects[m] + Cardinality(CopiesOf(m)) <= Cardinality(CopiesOf(m)) * (assigns + 1)
    BY <1>1, <1>4, OneMoreAssign DEF Budget
  <1>6. Cardinality(Behind(m)') \in Nat
    <2>1. Behind(m)' \in SUBSET CopiesOf(m)
      BY <1>3 DEF Behind
    <2> QED
      BY <1>4, <2>1, FS_Subset, FS_CardinalityType
  <1>7. Cardinality(CopiesOf(m)) * (assigns + 1) \in Nat
    BY <1>4
  <1> QED
    BY <1>2, <1>3, <1>4, <1>5, <1>6, <1>7 DEF Budget

LEMMA RecvBudget ==
    ASSUME EffectInv, NEW p \in Partition, Recv(p), NEW m \in Message
    PROVE  Budget(m)'
  <1>1. TypeOK /\ Budget(m)
    BY DEF EffectInv, Inv
  <1>2. /\ At("recv")
        /\ position' = [position EXCEPT ![p] = @ + 1]
        /\ consumer' \in {consumer, [pc |-> "handle", slot |-> NextSlot(p)]}
        /\ UNCHANGED <<log, effects, assigns>>
    BY DEF Recv, Advance, kafka, outcomes
  <1>3. CopiesOf(m)' = CopiesOf(m)
    BY <1>2, SameLog DEF CopiesOf
  <1>4. Behind(m) \subseteq Behind(m)'
    <2> SUFFICES ASSUME NEW slot \in Behind(m) PROVE slot \in Behind(m)'
      OBVIOUS
    <2>1. slot \in CopiesOf(m) /\ slot[1] \in Partition /\ slot[2] \in Nat
          /\ slot[2] <= position[slot[1]] /\ position[slot[1]] \in Nat
      BY <1>1, TypeFacts DEF Behind, CopiesOf
    <2>2. slot[2] <= position'[slot[1]]
      BY <1>1, <1>2, <2>1 DEF TypeOK
    <2>3. ~Handling(slot)'
      <3>1. slot # NextSlot(p)
        BY <2>1 DEF NextSlot
      <3> QED
        BY <1>2, <3>1 DEF Handling, At
    <2> QED
      BY <1>3, <2>1, <2>2, <2>3 DEF Behind
  <1> QED
    BY <1>1, <1>2, <1>3, <1>4, BudgetKept

\* A step that leaves the message at hand, with or without its effect.
LEMMA LeaveBudget ==
    ASSUME EffectInv, At("handle"), Effect \/ UNCHANGED effects,
           consumer'.pc # "handle", UNCHANGED <<log, position, assigns>>, NEW m \in Message
    PROVE  Budget(m)'
  <1>1. /\ TypeOK /\ Inv /\ Budget(m) /\ assigns > 0
    BY DEF EffectInv, Inv, At
  <1>2. consumer.slot \in Produced /\ effects \in [Message -> Nat]
    BY <1>1, AtHand DEF TypeOK
  <1>3. position[consumer.slot[1]] = consumer.slot[2] /\ consumer.slot[2] \in Nat
    BY <1>1, AtHand DEF Inv, AtPosition
  <1>4. CopiesOf(m)' = CopiesOf(m)
    BY SameLog DEF CopiesOf
  <1>5. Behind(m) \subseteq Behind(m)'
    BY <1>4 DEF Behind, Handling, At
  <1>6. CASE effects'[m] = effects[m]
    BY <1>1, <1>4, <1>5, <1>6, BudgetKept
  <1>7. CASE effects'[m] # effects[m]
    <2>1. MessageAt(consumer.slot) = m /\ effects'[m] = effects[m] + 1
      BY <1>2, <1>7 DEF Effect
    <2> PICK s : s = consumer.slot
      OBVIOUS
    <2>2. s \in CopiesOf(m) /\ s \notin Behind(m)
      BY <1>2, <2>1 DEF CopiesOf, Behind, Handling
    <2>3. s \in Behind(m)'
      BY <1>3, <1>4, <2>2 DEF Behind, Handling, At
    <2>4. Behind(m) \cup {s} \subseteq Behind(m)'
      BY <1>5, <2>3
    <2> QED
      BY <1>1, <1>4, <2>1, <2>2, <2>4, BudgetSpent
  <1> QED
    BY <1>6, <1>7

\* A step that handles nothing: a commit, a stop at another await.
LEMMA RestBudget ==
    ASSUME EffectInv, consumer'.pc # "handle", UNCHANGED <<log, position, assigns, effects>>,
           NEW m \in Message
    PROVE  Budget(m)'
  <1>1. TypeOK /\ Budget(m)
    BY DEF EffectInv, Inv
  <1>2. CopiesOf(m)' = CopiesOf(m)
    BY SameLog DEF CopiesOf
  <1>3. Behind(m) \subseteq Behind(m)'
    BY <1>2 DEF Behind, Handling, At
  <1> QED
    BY <1>1, <1>2, <1>3, BudgetKept

\* A step that leaves the consumer and the log alone.
LEMMA SameBudget ==
    ASSUME EffectInv, UNCHANGED <<log, position, consumer, assigns, effects>>, NEW m \in Message
    PROVE  Budget(m)'
  <1>1. TypeOK /\ Budget(m)
    BY DEF EffectInv, Inv
  <1>2. CopiesOf(m)' = CopiesOf(m)
    BY SameLog DEF CopiesOf
  <1>3. Behind(m) \subseteq Behind(m)'
    BY <1>2 DEF Behind, Handling, At
  <1> QED
    BY <1>1, <1>2, <1>3, BudgetKept

LEMMA StepBudget ==
    ASSUME EffectInv, [Next]_vars, NEW m \in Message
    PROVE  Budget(m)'
  <1>1. ASSUME NEW n \in Message, NEW p \in Partition, Produce(n, p) PROVE Budget(m)'
    BY <1>1, ProduceBudget
  <1>2. ASSUME NEW p \in Partition, StoreCommit(p) PROVE Budget(m)'
    BY <1>2, SameBudget DEF StoreCommit, outcomes
  <1>3. CASE Assign
    BY <1>3, AssignBudget
  <1>4. ASSUME NEW p \in Partition, Recv(p) PROVE Budget(m)'
    BY <1>4, RecvBudget
  <1>5. CASE HandlerSucceeds
    <2>1. consumer'.pc # "handle"
      <3>1. consumer \in [pc : {"handle", "commit"}, slot : Produced]
        BY <1>5, AtHand DEF HandlerSucceeds, EffectInv, Inv
      <3> QED
        BY <1>5, <3>1 DEF HandlerSucceeds
    <2> QED
      BY <1>5, <2>1, LeaveBudget DEF HandlerSucceeds, kafka
  <1>6. CASE HandlerFails
    BY <1>6, LeaveBudget DEF HandlerFails, kafka, Waiting
  <1>7. CASE Commit
    BY <1>7, RestBudget DEF Commit, outcomes, Waiting
  <1>8. CASE Stop
    BY <1>8, LeaveBudget, RestBudget DEF Stop, kafka, Waiting
  <1>9. CASE UNCHANGED vars
    BY <1>9, SameBudget DEF vars, kafka, outcomes
  <1> QED
    BY <1>1, <1>2, <1>3, <1>4, <1>5, <1>6, <1>7, <1>8, <1>9 DEF Next, Loop

LEMMA InitEffectInv == Init => EffectInv
  <1> SUFFICES ASSUME Init PROVE EffectInv
    OBVIOUS
  <1> QED
    BY InitInv DEF Init, EffectInv, Budget, At, Waiting

LEMMA StepEffectInv == EffectInv /\ [Next]_vars => EffectInv'
  <1> SUFFICES ASSUME EffectInv, [Next]_vars PROVE EffectInv'
    OBVIOUS
  <1>1. Inv' /\ \A m \in Message : Budget(m)'
    BY StepInv, StepBudget DEF EffectInv
  <1>2. assigns \in Nat
    BY DEF EffectInv, Inv, TypeOK
  <1>3. ~At("down")' => assigns' > 0
    BY <1>2 DEF EffectInv, Next, Loop, Produce, StoreCommit, Assign, Recv, HandlerSucceeds,
                HandlerFails, Commit, Stop, At, Waiting, vars, kafka, outcomes
  <1> QED
    BY <1>1, <1>3 DEF EffectInv

LEMMA EffectsWithin == EffectInv => EffectsAccounted
  <1> SUFFICES ASSUME EffectInv, NEW m \in Message
               PROVE  effects[m] <= Cardinality(CopiesOf(m)) * assigns
    BY DEF EffectsAccounted
  <1>1. TypeOK /\ Budget(m)
    BY DEF EffectInv, Inv
  <1> QED
    BY <1>1, CopiesFinite, OneMoreAssign DEF Budget

\* A message takes effect at most once for each of its copies and each start of
\* the consumer: redelivery needs a duplicate of the relay, a restart or a
\* rebalance, and never happens within the loop.
THEOREM EffectsBounded == Spec => []EffectsAccounted
  BY InitEffectInv, StepEffectInv, EffectsWithin, PTL DEF Spec

-----------------------------------------------------------------------------
(* What a step does to the topic and to the effects, for those that use    *)
(* them                                                                    *)

\* The steps of the consumer and its commits; the others produce.
ConsumerNext ==
    \/ \E p \in Partition : StoreCommit(p)
    \/ Assign \/ Loop \/ Stop

DoneTookEffect == \A slot \in done : effects[MessageAt(slot)] > 0

LEMMA ProduceCopies ==
    ASSUME TypeOK, NEW n \in Message, NEW p \in Partition, Produce(n, p), NEW m \in Message
    PROVE  Cardinality(CopiesOf(m)') = Cardinality(CopiesOf(m)) + (IF m = n THEN 1 ELSE 0)
  <1> PICK new : new = <<p, Len(log[p]) + 1>>
    OBVIOUS
  <1>1. /\ Produced \subseteq Produced'
        /\ \A slot \in Produced : MessageAt(slot)' = MessageAt(slot)
        /\ \A slot \in Produced' : slot \notin Produced => slot[2] > Len(log[slot[1]])
    BY ProduceAppends
  <1>2. /\ log'[p] = Append(log[p], n) /\ Len(log[p]) < MaxLen
        /\ \A q \in Partition : q # p => log'[q] = log[q]
    BY DEF TypeOK, Produce
  <1>3. /\ Len(log'[p]) = Len(log[p]) + 1 /\ log'[p][Len(log[p]) + 1] = n
    BY <1>2, AppendProperties DEF TypeOK
  <1>4. \A q \in Partition : Len(log[q]) \in Nat
    BY TypeFacts
  <1>5. \A slot \in Produced' : slot \notin Produced => slot = new
    BY <1>1, <1>2, <1>3, <1>4 DEF Produced, Slot
  <1>6. new \in Produced' /\ new \notin Produced /\ MessageAt(new)' = n
    <2>1. new[1] = p /\ new[2] = Len(log[p]) + 1 /\ Len(log[p]) \in Nat /\ MaxLen \in Nat
      BY <1>4, ConsumerAssumption
    <2>2. new \in Slot
      BY <1>2, <2>1 DEF Slot
    <2> QED
      BY <1>3, <2>1, <2>2 DEF Produced, MessageAt
  <1>7. Cardinality(CopiesOf(m)) \in Nat /\ IsFiniteSet(CopiesOf(m))
    BY CopiesFinite
  <1>8. CASE m = n
    <2>1. CopiesOf(m)' = CopiesOf(m) \cup {new} /\ new \notin CopiesOf(m)
      BY <1>1, <1>5, <1>6, <1>8 DEF CopiesOf
    <2>2. Cardinality(CopiesOf(m) \cup {new}) = Cardinality(CopiesOf(m)) + 1
      BY <1>7, <2>1, FS_AddElement
    <2> QED
      BY <1>8, <2>1, <2>2
  <1>9. CASE m # n
    <2>1. CopiesOf(m)' = CopiesOf(m)
      BY <1>1, <1>5, <1>6, <1>9 DEF CopiesOf
    <2> QED
      BY <1>7, <1>9, <2>1
  <1> QED
    BY <1>8, <1>9

LEMMA EffectIsOne ==
    ASSUME Inv, At("handle"), Effect
    PROVE  /\ consumer.slot \in Produced /\ MessageAt(consumer.slot) \in Message
           /\ effects'[MessageAt(consumer.slot)] = effects[MessageAt(consumer.slot)] + 1
           /\ \A m \in Message : m # MessageAt(consumer.slot) => effects'[m] = effects[m]
  <1>1. consumer.slot \in Produced /\ MessageAt(consumer.slot) \in Message
    BY AtHand, TypeFacts DEF Inv
  <1> QED
    BY <1>1 DEF Effect, Inv, TypeOK

\* A step of the consumer takes one effect at most, that of a produced slot; the
\* topic and the outcomes so far stay.
LEMMA ConsumerStepTakes ==
    ASSUME Inv, ConsumerNext
    PROVE  /\ UNCHANGED log
           /\ done \subseteq done' /\ failed \subseteq failed' /\ skipped \subseteq skipped'
           /\ \/ UNCHANGED <<effects, done>>
              \/ \E slot \in Produced :
                    /\ MessageAt(slot) \in Message
                    /\ done' \subseteq done \cup {slot}
                    /\ effects'[MessageAt(slot)] = effects[MessageAt(slot)] + 1
                    /\ \A m \in Message : m # MessageAt(slot) => effects'[m] = effects[m]
  <1>1. CASE (\E p \in Partition : StoreCommit(p) \/ Recv(p)) \/ Assign \/ Commit
    BY <1>1 DEF StoreCommit, Recv, Assign, Commit, outcomes, kafka
  <1>2. CASE HandlerSucceeds
    BY <1>2, EffectIsOne DEF HandlerSucceeds, kafka
  <1>3. CASE HandlerFails
    <2>1. CASE Effect
      BY <1>3, <2>1, EffectIsOne DEF HandlerFails, kafka
    <2>2. CASE UNCHANGED effects
      BY <1>3, <2>2 DEF HandlerFails, kafka
    <2> QED
      BY <1>3, <2>1, <2>2 DEF HandlerFails
  <1>4. CASE Stop
    <2>1. CASE At("handle") /\ Effect
      BY <1>4, <2>1, EffectIsOne DEF Stop, kafka
    <2>2. CASE UNCHANGED effects
      BY <1>4, <2>2 DEF Stop, kafka
    <2> QED
      BY <1>4, <2>1, <2>2 DEF Stop
  <1> QED
    BY <1>1, <1>2, <1>3, <1>4 DEF ConsumerNext, Loop

LEMMA StepDone == Inv /\ DoneTookEffect /\ [Next]_vars => DoneTookEffect'
  <1> SUFFICES ASSUME Inv, DoneTookEffect, [Next]_vars PROVE DoneTookEffect'
    OBVIOUS
  <1>1. /\ done \subseteq Produced
        /\ \A m \in Message : effects[m] \in Nat
        /\ \A slot \in Produced : MessageAt(slot) \in Message
    BY TypeFacts DEF Inv, TypeOK
  <1>2. CASE UNCHANGED vars
    <2>1. UNCHANGED <<log, done, effects>>
      BY <1>2 DEF vars, kafka, outcomes
    <2> QED
      BY <2>1 DEF DoneTookEffect, MessageAt
  <1>3. ASSUME NEW m \in Message, NEW p \in Partition, Produce(m, p) PROVE DoneTookEffect'
    <2>1. \A slot \in Produced : MessageAt(slot)' = MessageAt(slot)
      BY <1>3, ProduceAppends DEF Inv
    <2>2. UNCHANGED <<done, effects>>
      BY <1>3 DEF Produce, outcomes
    <2> QED
      BY <1>1, <2>1, <2>2 DEF DoneTookEffect
  <1>4. CASE ConsumerNext
    <2>1. \A slot \in Produced : MessageAt(slot)' = MessageAt(slot)
      BY <1>4, ConsumerStepTakes, SameLog
    <2>2. CASE UNCHANGED <<effects, done>>
      BY <1>1, <2>1, <2>2 DEF DoneTookEffect
    <2>3. ASSUME NEW s \in Produced, MessageAt(s) \in Message, done' \subseteq done \cup {s},
                 effects'[MessageAt(s)] = effects[MessageAt(s)] + 1,
                 \A m \in Message : m # MessageAt(s) => effects'[m] = effects[m]
          PROVE  DoneTookEffect'
      <3>1. \A m \in Message : effects[m] > 0 => effects'[m] > 0
        BY <1>1, <2>3
      <3>2. effects'[MessageAt(s)] > 0
        BY <1>1, <2>3
      <3> QED
        BY <1>1, <2>1, <2>3, <3>1, <3>2 DEF DoneTookEffect
    <2> QED
      BY <1>4, <2>2, <2>3, ConsumerStepTakes
  <1> QED
    BY <1>2, <1>3, <1>4 DEF Next, ConsumerNext
-----------------------------------------------------------------------------
(* The order of the handlers                                               *)

AllBeforeEnded(slot) ==
    \A before \in Produced : before[1] = slot[1] /\ before[2] < slot[2] => Ended(before)

EndedInOrder == \A slot \in done \cup failed : AllBeforeEnded(slot)

\* What is before the message at hand has ended, since recv took all of it.
LEMMA AtHandIsNext ==
    ASSUME Inv, At("handle") \/ At("commit")
    PROVE  AllBeforeEnded(consumer.slot)
  <1>1. /\ consumer.slot \in Produced /\ position[consumer.slot[1]] = consumer.slot[2]
        /\ ~At("down")
    BY AtHand DEF Inv, AtPosition, At
  <1>2. ASSUME NEW before \in Produced,
               before[1] = consumer.slot[1], before[2] < consumer.slot[2]
        PROVE  Ended(before)
    <2>1. before[2] \in Nat /\ consumer.slot[2] \in Nat
      BY <1>1, TypeFacts DEF Inv
    <2>2. before[2] <= position[before[1]] /\ before # consumer.slot
      BY <1>1, <1>2, <2>1
    <2> QED
      BY <1>1, <2>2 DEF Inv, BehindEnded, Handling
  <1> QED
    BY <1>2 DEF AllBeforeEnded

\* A message that is produced comes after those that were handled.
LEMMA ProduceInOrder ==
    ASSUME Inv, EndedInOrder, NEW m \in Message, NEW p \in Partition, Produce(m, p)
    PROVE  EndedInOrder'
  <1>1. /\ \A slot \in Produced : MessageAt(slot)' = MessageAt(slot)
        /\ \A slot \in Produced' : slot \notin Produced => slot[2] > Len(log[slot[1]])
        /\ Produced \subseteq Produced'
    BY ProduceAppends DEF Inv
  <1>2. UNCHANGED <<done, failed, skipped>>
    BY DEF Produce, outcomes
  <1> SUFFICES ASSUME NEW slot \in done \cup failed, NEW before \in Produced',
                      before[1] = slot[1], before[2] < slot[2]
               PROVE  Ended(before)'
    BY <1>2 DEF EndedInOrder, AllBeforeEnded
  <1>3. slot \in Produced /\ slot[2] \in Nat /\ slot[2] <= Len(log[slot[1]])
        /\ Len(log[slot[1]]) \in Nat
    <2>1. slot \in Produced
      BY DEF Inv, TypeOK
    <2>2. slot[1] \in Partition /\ slot[2] \in 1..Len(log[slot[1]])
      BY <2>1, TypeFacts DEF Inv
    <2>3. Len(log[slot[1]]) \in Nat
      BY <2>2, TypeFacts DEF Inv
    <2> QED
      BY <2>1, <2>2, <2>3
  <1>4. before[2] \in Nat
    BY DEF Produced, Slot
  <1>5. before \in Produced
    BY <1>1, <1>3, <1>4
  <1> QED
    BY <1>1, <1>2, <1>5 DEF EndedInOrder, AllBeforeEnded, Ended

\* A step that ends no message but the one at hand.
LEMMA LoopInOrder ==
    ASSUME Inv, EndedInOrder, log' = log,
           done \subseteq done', failed \subseteq failed', skipped \subseteq skipped',
           \A slot \in done' \cup failed' : \/ slot \in done \cup failed
                                            \/ At("handle") /\ slot = consumer.slot
    PROVE  EndedInOrder'
  <1>1. \A slot \in Produced : Ended(slot) => Ended(slot)'
    BY SameLog DEF Ended
  <1> SUFFICES ASSUME NEW slot \in done' \cup failed', NEW before \in Produced,
                      before[1] = slot[1], before[2] < slot[2]
               PROVE  Ended(before)
    BY <1>1, SameLog DEF EndedInOrder, AllBeforeEnded
  <1>2. AllBeforeEnded(slot)
    BY AtHandIsNext DEF EndedInOrder
  <1> QED
    BY <1>2 DEF AllBeforeEnded

LEMMA StepInOrder == Inv /\ EndedInOrder /\ [Next]_vars => EndedInOrder'
  <1> SUFFICES ASSUME Inv, EndedInOrder, [Next]_vars PROVE EndedInOrder'
    OBVIOUS
  <1>1. CASE \E m \in Message, p \in Partition : Produce(m, p)
    BY <1>1, ProduceInOrder
  <1>2. CASE (\E p \in Partition : StoreCommit(p) \/ Recv(p)) \/ Assign \/ Commit
    BY <1>2, LoopInOrder DEF StoreCommit, Recv, Assign, Commit, outcomes, kafka
  <1>3. CASE HandlerSucceeds \/ HandlerFails
    BY <1>3, LoopInOrder DEF HandlerSucceeds, HandlerFails, kafka
  <1>4. CASE Stop \/ UNCHANGED vars
    BY <1>4, LoopInOrder DEF Stop, vars, outcomes, kafka
  <1> QED
    BY <1>1, <1>2, <1>3, <1>4 DEF Next, Loop

\* Of each partition the handlers run in the order of its log: neither a start
\* at the committed offset nor a commit that was lost lets one be run before an
\* earlier one ended.
THEOREM InOrder == Spec => []HandledInOrder
  <1>1. Init => EndedInOrder
    BY DEF Init, EndedInOrder
  <1>2. Inv /\ EndedInOrder => HandledInOrder
    <2> SUFFICES ASSUME Inv, EndedInOrder, NEW slot \in Produced,
                        slot \in done \cup failed \/ Handling(slot)
                 PROVE  AllBeforeEnded(slot)
      BY DEF HandledInOrder, AllBeforeEnded, Ended, Handling
    <2>1. CASE slot \in done \cup failed
      BY <2>1 DEF EndedInOrder
    <2>2. CASE Handling(slot)
      BY <2>2, AtHandIsNext DEF Handling
    <2> QED
      BY <2>1, <2>2
  <1> QED
    BY <1>1, <1>2, InitInv, StepInv, StepInOrder, PTL DEF Spec
=============================================================================
