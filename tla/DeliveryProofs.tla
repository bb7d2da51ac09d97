--------------------------- MODULE DeliveryProofs ---------------------------
(* Proofs about Delivery, for any accounts, partitions and bounds: what is *)
(* proved of the relay and of the consumer holds of them in the            *)
(* composition, and a few facts tie their states and the users together.   *)
EXTENDS Delivery, SequenceTheorems, FiniteSetTheorems, TLAPS

\* The parts, with what is proved about them.
OutboxFacts == INSTANCE OutboxRelayProofs WITH Row <- Account, log <- sent
TopicFacts ==
    INSTANCE KafkaConsumerProofs WITH Message <- Account, Invalid <- {}, committed <- offset

\* What the relay sent and what the topic holds are the same messages.
SentIsProduced ==
    \A a \in Account : Cardinality(TopicFacts!CopiesOf(a)) = OutboxFacts!Copies(a)

\* A user is as often updated as its message took effect.
UsersFollowEffects ==
    users = [a \in Account |->
        [status |-> IF effects[a] = 0 THEN "pending_email_verification" ELSE "email_verified",
         email_verified_at |-> effects[a]]]

Inv ==
    /\ OutboxFacts!Inv /\ OutboxFacts!CopyInv
    /\ TopicFacts!EffectInv /\ TopicFacts!DoneTookEffect
    /\ SentIsProduced
    /\ UsersFollowEffects

-----------------------------------------------------------------------------
(* The parts                                                               *)

LEMMA BoundsAreNat == MaxCopies \in Nat /\ MaxLen \in Nat
  <1>1. Cardinality(Account) \in Nat
    BY FS_CardinalityType, DeliveryAssumption
  <1>2. MaxCopies \in Nat
    BY DeliveryAssumption DEF MaxCopies
  <1>3. \A m, n \in Nat : m * n \in Nat
    OBVIOUS
  <1> QED
    BY <1>1, <1>2, <1>3 DEF MaxLen

\* The assumptions of the parts.
LEMMA RelayAssumptions == BatchSize \in Nat \ {0} /\ MaxFaults \in Nat
  BY DeliveryAssumption

LEMMA TopicAssumptions ==
    /\ {} \subseteq Account /\ TopicFacts!IsFiniteSet(Partition)
    /\ MaxLen \in Nat /\ MaxCopies \in Nat /\ MaxAssigns \in Nat
    /\ NULL \notin Nat
  <1>1. TopicFacts!IsFiniteSet(Partition)
    BY DeliveryAssumption DEF IsFiniteSet, TopicFacts!IsFiniteSet
  <1> QED
    BY <1>1, BoundsAreNat, DeliveryAssumption

LEMMA OutboxInit == Outbox!Init => OutboxFacts!Init
  BY DEF Outbox!Init, OutboxFacts!Init, Outbox!Polling, OutboxFacts!Polling

LEMMA OutboxNext == Outbox!Next => OutboxFacts!Next
  <1>1. Outbox!Handlers => OutboxFacts!Handlers
    BY DEF Outbox!Handlers, Outbox!Begin, Outbox!Commit, Outbox!Rollback, Outbox!kafka,
           OutboxFacts!Handlers, OutboxFacts!Begin, OutboxFacts!Commit, OutboxFacts!Rollback,
           OutboxFacts!kafka
  <1>2. Outbox!Poll => OutboxFacts!Poll
    BY DEF Outbox!Poll, Outbox!Batches, Outbox!Unpublished, Outbox!Polling, Outbox!At,
           Outbox!kafka, Outbox!rows,
           OutboxFacts!Poll, OutboxFacts!Batches, OutboxFacts!Unpublished, OutboxFacts!Polling,
           OutboxFacts!At, OutboxFacts!kafka, OutboxFacts!rows
  <1>3. Outbox!Publish => OutboxFacts!Publish
    BY DEF Outbox!Publish, Outbox!At, Outbox!Current, Outbox!rows,
           OutboxFacts!Publish, OutboxFacts!At, OutboxFacts!Current, OutboxFacts!rows
  <1>4. /\ Outbox!Retry => OutboxFacts!Retry
        /\ Outbox!PublishFails => OutboxFacts!PublishFails
    <2>1. Outbox!NoAck => OutboxFacts!NoAck
      BY DEF Outbox!NoAck, Outbox!At, Outbox!Fault, Outbox!Unacknowledged, Outbox!Current,
             Outbox!rows, Outbox!kafka,
             OutboxFacts!NoAck, OutboxFacts!At, OutboxFacts!Fault,
             OutboxFacts!Unacknowledged, OutboxFacts!Current, OutboxFacts!rows,
             OutboxFacts!kafka
    <2> QED
      BY <2>1 DEF Outbox!Retry, Outbox!PublishFails, Outbox!Polling,
                  OutboxFacts!Retry, OutboxFacts!PublishFails, OutboxFacts!Polling
  <1>5. Outbox!Mark => OutboxFacts!Mark
    BY DEF Outbox!Mark, Outbox!At, Outbox!MarkCurrent, Outbox!Advance, Outbox!Current,
           Outbox!Polling, Outbox!kafka,
           OutboxFacts!Mark, OutboxFacts!At, OutboxFacts!MarkCurrent, OutboxFacts!Advance,
           OutboxFacts!Current, OutboxFacts!Polling, OutboxFacts!kafka
  <1>6. Outbox!MarkFails => OutboxFacts!MarkFails
    BY DEF Outbox!MarkFails, Outbox!At, Outbox!Fault, Outbox!MarkCurrent, Outbox!Current,
           Outbox!Polling, Outbox!rows, Outbox!kafka,
           OutboxFacts!MarkFails, OutboxFacts!At, OutboxFacts!Fault, OutboxFacts!MarkCurrent,
           OutboxFacts!Current, OutboxFacts!Polling, OutboxFacts!rows, OutboxFacts!kafka
  <1>7. ASSUME NEW r \in Account, Outbox!LateStore(r) PROVE OutboxFacts!LateStore(r)
    BY <1>7 DEF Outbox!LateStore, Outbox!rows, OutboxFacts!LateStore, OutboxFacts!rows
  <1> QED
    BY <1>1, <1>2, <1>3, <1>4, <1>5, <1>6, <1>7
       DEF Outbox!Next, Outbox!Relay, OutboxFacts!Next, OutboxFacts!Relay

LEMMA TopicInit == Topic!Init => TopicFacts!Init
  BY DEF Topic!Init, TopicFacts!Init, Topic!Waiting, TopicFacts!Waiting

\* The definitions that the properties of Delivery name.
LEMMA SameTopic ==
    /\ \A slot : Topic!MessageAt(slot) = TopicFacts!MessageAt(slot)
    /\ \A slot : Topic!Covered(slot) <=> TopicFacts!Covered(slot)
    /\ Topic!Produced = TopicFacts!Produced
    /\ \A a : Topic!CopiesOf(a) = TopicFacts!CopiesOf(a)
  <1>1. \A slot : Topic!MessageAt(slot) = TopicFacts!MessageAt(slot)
    BY DEF Topic!MessageAt, TopicFacts!MessageAt
  <1>2. \A slot : Topic!Covered(slot) <=> TopicFacts!Covered(slot)
    BY DEF Topic!Covered, TopicFacts!Covered
  <1>3. Topic!Produced = TopicFacts!Produced
    BY DEF Topic!Produced, Topic!Slot, TopicFacts!Produced, TopicFacts!Slot
  <1>4. \A a : Topic!CopiesOf(a) = TopicFacts!CopiesOf(a)
    BY <1>1, <1>3 DEF Topic!CopiesOf, TopicFacts!CopiesOf
  <1> QED
    BY <1>1, <1>2, <1>3, <1>4

LEMMA SameCardinality ==
    \A S : /\ Topic!Cardinality(S) = Cardinality(S)
           /\ TopicFacts!Cardinality(S) = Cardinality(S)
           /\ OutboxFacts!Cardinality(S) = Cardinality(S)
  BY DEF Topic!Cardinality, TopicFacts!Cardinality, OutboxFacts!Cardinality, Cardinality

LEMMA TopicProduce ==
    ASSUME NEW a \in Account, NEW p \in Partition, Topic!Produce(a, p)
    PROVE  TopicFacts!Produce(a, p)
  <1>1. Topic!CopiesOf(a) = TopicFacts!CopiesOf(a)
    BY SameTopic
  <1>2. Len(log[p]) < MaxLen /\ Topic!Cardinality(Topic!CopiesOf(a)) < MaxCopies
        /\ log' = [log EXCEPT ![p] = Append(@, a)]
    BY DEF Topic!Produce
  <1>3. UNCHANGED <<offset, inflight, position, consumer, TopicFacts!outcomes, skipped, assigns>>
    BY DEF Topic!Produce, Topic!outcomes, TopicFacts!outcomes
  <1> QED
    BY <1>1, <1>2, <1>3, SameCardinality DEF TopicFacts!Produce

LEMMA TopicConsumer ==
    ASSUME (\E p \in Partition : Topic!StoreCommit(p)) \/ Topic!Assign \/ Topic!Loop \/ Topic!Stop
    PROVE  TopicFacts!ConsumerNext
  <1>1. ASSUME NEW p \in Partition, Topic!StoreCommit(p) PROVE TopicFacts!StoreCommit(p)
    BY <1>1 DEF Topic!StoreCommit, Topic!outcomes, TopicFacts!StoreCommit, TopicFacts!outcomes
  <1>2. Topic!Assign => TopicFacts!Assign
    BY DEF Topic!Assign, Topic!At, Topic!StartOf, Topic!Produced, Topic!Slot, Topic!Waiting,
           Topic!outcomes,
           TopicFacts!Assign, TopicFacts!At, TopicFacts!StartOf, TopicFacts!Produced,
           TopicFacts!Slot, TopicFacts!Waiting, TopicFacts!outcomes
  <1>3. ASSUME NEW p \in Partition, Topic!Recv(p) PROVE TopicFacts!Recv(p)
    BY <1>3 DEF Topic!Recv, Topic!At, Topic!NextSlot, Topic!Produced, Topic!Slot,
           Topic!MessageAt, Topic!Advance, Topic!outcomes, Topic!kafka,
           TopicFacts!Recv, TopicFacts!At, TopicFacts!NextSlot, TopicFacts!Produced,
           TopicFacts!Slot, TopicFacts!MessageAt, TopicFacts!Advance, TopicFacts!outcomes,
           TopicFacts!kafka
  <1>4. Topic!HandlerSucceeds => TopicFacts!HandlerSucceeds
    BY DEF Topic!HandlerSucceeds, Topic!At, Topic!Effect, Topic!MessageAt, Topic!kafka,
           TopicFacts!HandlerSucceeds, TopicFacts!At, TopicFacts!Effect, TopicFacts!MessageAt,
           TopicFacts!kafka
  <1>5. Topic!HandlerFails => TopicFacts!HandlerFails
    BY DEF Topic!HandlerFails, Topic!At, Topic!Effect, Topic!MessageAt, Topic!Waiting,
           Topic!kafka,
           TopicFacts!HandlerFails, TopicFacts!At, TopicFacts!Effect, TopicFacts!MessageAt,
           TopicFacts!Waiting, TopicFacts!kafka
  <1>6. Topic!Commit => TopicFacts!Commit
    BY DEF Topic!Commit, Topic!At, Topic!Waiting, Topic!outcomes,
           TopicFacts!Commit, TopicFacts!At, TopicFacts!Waiting, TopicFacts!outcomes
  <1>7. Topic!Stop => TopicFacts!Stop
    BY DEF Topic!Stop, Topic!At, Topic!Effect, Topic!MessageAt, Topic!Waiting, Topic!kafka,
           TopicFacts!Stop, TopicFacts!At, TopicFacts!Effect, TopicFacts!MessageAt,
           TopicFacts!Waiting, TopicFacts!kafka
  <1> QED
    BY <1>1, <1>2, <1>3, <1>4, <1>5, <1>6, <1>7
       DEF Topic!Loop, TopicFacts!ConsumerNext, TopicFacts!Loop

LEMMA ConsumerIsNext == TopicFacts!ConsumerNext => TopicFacts!Next
  BY DEF TopicFacts!ConsumerNext, TopicFacts!Next

LEMMA OutboxRests == UNCHANGED outbox => UNCHANGED OutboxFacts!vars
  BY DEF outbox, OutboxFacts!vars, OutboxFacts!rows, OutboxFacts!kafka

LEMMA TopicRests == UNCHANGED topic => UNCHANGED TopicFacts!vars
  BY DEF topic, TopicFacts!vars, TopicFacts!kafka, TopicFacts!outcomes

\* What the relay sends is what is produced.
LEMMA RelayProduces ==
    ASSUME OutboxFacts!Inv, RelayStep
    PROVE  \/ UNCHANGED <<sent, topic>>
           \/ \E a \in Account, p \in Partition :
                 sent' = Append(sent, a) /\ TopicFacts!Produce(a, p)
  <1>1. sent \in Seq(Account)
    BY DEF OutboxFacts!Inv, OutboxFacts!TypeOK
  <1>2. sent' = sent \/ \E a \in Account : sent' = Append(sent, a)
    BY OutboxNext, OutboxFacts!StoresOne, RelayAssumptions DEF RelayStep, OutboxFacts!Inv
  <1>3. ASSUME NEW a \in Account, sent' = Append(sent, a) PROVE sent'[Len(sent')] = a
    BY <1>1, <1>3, AppendProperties
  <1>4. CASE sent' = sent
    BY <1>4 DEF RelayStep
  <1>5. CASE sent' # sent
    <2>1. PICK a \in Account : sent' = Append(sent, a)
      BY <1>2, <1>5
    <2>2. PICK p \in Partition : Topic!Produce(sent'[Len(sent')], p)
      BY <1>5 DEF RelayStep
    <2>3. Topic!Produce(a, p)
      BY <1>3, <2>1, <2>2
    <2> QED
      BY <2>1, <2>3, TopicProduce
  <1> QED
    BY <1>4, <1>5

\* Each step of the composition is one of each part, or leaves the part alone.
LEMMA StepOfParts ==
    ASSUME OutboxFacts!Inv, [Next]_vars
    PROVE  [OutboxFacts!Next]_(OutboxFacts!vars) /\ [TopicFacts!Next]_(TopicFacts!vars)
  <1>1. CASE RelayStep
    <2>1. OutboxFacts!Next
      BY <1>1, OutboxNext DEF RelayStep
    <2>2. [TopicFacts!Next]_(TopicFacts!vars)
      BY <1>1, RelayProduces, TopicRests DEF TopicFacts!Next
    <2> QED
      BY <2>1, <2>2
  <1>2. CASE ConsumerStep
    BY <1>2, TopicConsumer, ConsumerIsNext, OutboxRests DEF ConsumerStep
  <1>3. CASE UNCHANGED vars
    BY <1>3, OutboxRests, TopicRests DEF vars, outbox, topic
  <1> QED
    BY <1>1, <1>2, <1>3 DEF Next
-----------------------------------------------------------------------------
(* The invariant                                                           *)

LEMMA InitInv == Init => Inv
  <1> SUFFICES ASSUME Init PROVE Inv
    OBVIOUS
  <1>1. OutboxFacts!Init /\ TopicFacts!Init
    BY OutboxInit, TopicInit DEF Init
  <1>2. OutboxFacts!Inv /\ OutboxFacts!CopyInv
    BY <1>1, OutboxFacts!InitInv, OutboxFacts!InitCopyInv, RelayAssumptions
  <1>3. TopicFacts!EffectInv
    BY <1>1, TopicFacts!InitEffectInv, TopicAssumptions
  <1>4. TopicFacts!DoneTookEffect
    BY <1>1 DEF TopicFacts!Init, TopicFacts!DoneTookEffect
  <1>5. SentIsProduced
    <2>1. \A p \in Partition : Len(log[p]) = 0
      BY <1>1 DEF TopicFacts!Init
    <2>2. \A slot \in TopicFacts!Slot : slot[1] \in Partition /\ slot[2] \in 1..MaxLen
      BY DEF TopicFacts!Slot
    <2>3. TopicFacts!Produced = {}
      BY <2>1, <2>2, BoundsAreNat DEF TopicFacts!Produced
    <2>4. \A a : TopicFacts!CopiesOf(a) = {}
      BY <2>3 DEF TopicFacts!CopiesOf
    <2>5. \A a : {i \in DOMAIN sent : sent[i] = a} = {}
      BY <1>1 DEF OutboxFacts!Init
    <2>6. \A a : OutboxFacts!Copies(a) = Cardinality({})
      BY <2>5, SameCardinality DEF OutboxFacts!Copies
    <2> QED
      BY <2>4, <2>6 DEF SentIsProduced
  <1>6. UsersFollowEffects
    BY <1>1 DEF Init, Unverified, TopicFacts!Init, UsersFollowEffects
  <1> QED
    BY <1>2, <1>3, <1>4, <1>5, <1>6 DEF Inv

LEMMA PartsInv ==
    ASSUME Inv, [Next]_vars
    PROVE  /\ OutboxFacts!Inv' /\ OutboxFacts!CopyInv'
           /\ TopicFacts!EffectInv' /\ TopicFacts!DoneTookEffect'
  <1>1. [OutboxFacts!Next]_(OutboxFacts!vars) /\ [TopicFacts!Next]_(TopicFacts!vars)
    BY StepOfParts DEF Inv
  <1>2. OutboxFacts!Inv' /\ OutboxFacts!CopyInv'
    BY <1>1, OutboxFacts!NextInv, OutboxFacts!NextCopyInv, RelayAssumptions DEF Inv
  <1>3. TopicFacts!EffectInv'
    BY <1>1, TopicFacts!StepEffectInv, TopicAssumptions DEF Inv
  <1>4. TopicFacts!DoneTookEffect'
    BY <1>1, TopicFacts!StepDone, TopicAssumptions DEF Inv, TopicFacts!EffectInv
  <1> QED
    BY <1>2, <1>3, <1>4

\* What a step of the consumer does, by the facts of its part.
LEMMA ConsumerTakes ==
    ASSUME Inv, ConsumerStep
    PROVE  /\ UNCHANGED log
           /\ failed \subseteq failed' /\ skipped \subseteq skipped'
           /\ \/ UNCHANGED <<effects, users>>
              \/ \E slot \in TopicFacts!Produced : \E a \in Account :
                    /\ a = TopicFacts!MessageAt(slot)
                    /\ effects'[a] = effects[a] + 1
                    /\ \A b \in Account : b # a => effects'[b] = effects[b]
                    /\ Verify(a)
  <1>1. TopicFacts!ConsumerNext
    BY TopicConsumer DEF ConsumerStep
  <1>2. /\ UNCHANGED log
        /\ failed \subseteq failed' /\ skipped \subseteq skipped'
        /\ \/ UNCHANGED effects
           \/ \E slot \in TopicFacts!Produced : \E a \in Account :
                 /\ a = TopicFacts!MessageAt(slot)
                 /\ effects'[a] = effects[a] + 1
                 /\ \A b \in Account : b # a => effects'[b] = effects[b]
    BY <1>1, TopicFacts!ConsumerStepTakes, TopicAssumptions DEF Inv, TopicFacts!EffectInv
  <1>3. CASE UNCHANGED effects
    BY <1>2, <1>3 DEF ConsumerStep
  <1>4. ASSUME NEW slot \in TopicFacts!Produced, NEW a \in Account,
               a = TopicFacts!MessageAt(slot), effects'[a] = effects[a] + 1,
               \A b \in Account : b # a => effects'[b] = effects[b]
        PROVE  Verify(a)
    <2>1. effects[a] \in Nat
      BY DEF Inv, TopicFacts!EffectInv, TopicFacts!Inv, TopicFacts!TypeOK
    <2>2. effects' # effects
      BY <1>4, <2>1
    <2>3. PICK b \in Account : effects'[b] # effects[b] /\ Verify(b)
      BY <2>2 DEF ConsumerStep
    <2> QED
      BY <1>4, <2>3
  <1> QED
    BY <1>2, <1>3, <1>4

LEMMA StepSentIsProduced ==
    ASSUME Inv, [Next]_vars
    PROVE  SentIsProduced'
  <1>1. CASE UNCHANGED <<sent, log>>
    <2>1. \A a : TopicFacts!CopiesOf(a)' = TopicFacts!CopiesOf(a)
      BY <1>1 DEF TopicFacts!CopiesOf, TopicFacts!Produced, TopicFacts!MessageAt
    <2>2. \A a : OutboxFacts!Copies(a)' = OutboxFacts!Copies(a)
      BY <1>1 DEF OutboxFacts!Copies
    <2> QED
      BY <2>1, <2>2 DEF Inv, SentIsProduced
  <1>2. ASSUME NEW x \in Account, NEW p \in Partition,
               sent' = Append(sent, x), TopicFacts!Produce(x, p), NEW a \in Account
        PROVE  Cardinality(TopicFacts!CopiesOf(a)') = OutboxFacts!Copies(a)'
    <2>1. OutboxFacts!Copies(a)' = OutboxFacts!Copies(a) + (IF a = x THEN 1 ELSE 0)
      BY <1>2, OutboxFacts!AppendCounts, RelayAssumptions DEF Inv, OutboxFacts!Inv
    <2>2. TopicFacts!Cardinality(TopicFacts!CopiesOf(a)')
             = TopicFacts!Cardinality(TopicFacts!CopiesOf(a)) + (IF a = x THEN 1 ELSE 0)
      BY <1>2, TopicFacts!ProduceCopies, TopicAssumptions
         DEF Inv, TopicFacts!EffectInv, TopicFacts!Inv
    <2>3. Cardinality(TopicFacts!CopiesOf(a)')
             = Cardinality(TopicFacts!CopiesOf(a)) + (IF a = x THEN 1 ELSE 0)
      BY <2>2, SameCardinality
    <2> QED
      BY <2>1, <2>3 DEF Inv, SentIsProduced
  <1>3. CASE RelayStep
    <2>1. CASE UNCHANGED <<sent, topic>>
      BY <1>1, <2>1 DEF topic
    <2>2. CASE \E x \in Account, p \in Partition :
                  sent' = Append(sent, x) /\ TopicFacts!Produce(x, p)
      BY <1>2, <2>2 DEF SentIsProduced
    <2> QED
      BY <1>3, <2>1, <2>2, RelayProduces DEF Inv
  <1>4. CASE ConsumerStep
    BY <1>1, <1>4, ConsumerTakes DEF ConsumerStep, outbox
  <1>5. CASE UNCHANGED vars
    BY <1>1, <1>5 DEF vars, outbox, topic
  <1> QED
    BY <1>3, <1>4, <1>5 DEF Next

LEMMA StepUsers ==
    ASSUME Inv, [Next]_vars
    PROVE  UsersFollowEffects'
  <1>1. CASE UNCHANGED <<effects, users>>
    BY <1>1 DEF Inv, UsersFollowEffects
  <1>2. ASSUME NEW a \in Account, effects'[a] = effects[a] + 1,
               \A b \in Account : b # a => effects'[b] = effects[b],
               Verify(a)
        PROVE  UsersFollowEffects'
    <2>1. effects[a] \in Nat
      BY DEF Inv, TopicFacts!EffectInv, TopicFacts!Inv, TopicFacts!TypeOK
    <2>2. effects'[a] # 0 /\ users[a].email_verified_at = effects[a]
      BY <1>2, <2>1 DEF Inv, UsersFollowEffects
    <2> QED
      BY <1>2, <2>2 DEF Verify, Inv, UsersFollowEffects
  <1>3. CASE RelayStep
    <2>1. CASE UNCHANGED topic
      BY <1>1, <1>3, <2>1 DEF RelayStep, topic
    <2>2. ASSUME NEW x \in Account, NEW p \in Partition, TopicFacts!Produce(x, p)
          PROVE  UNCHANGED effects
      BY <2>2 DEF TopicFacts!Produce, TopicFacts!outcomes
    <2> QED
      BY <1>1, <1>3, <2>1, <2>2, RelayProduces DEF Inv, RelayStep
  <1>4. CASE ConsumerStep
    BY <1>1, <1>2, <1>4, ConsumerTakes
  <1>5. CASE UNCHANGED vars
    BY <1>1, <1>5 DEF vars, topic
  <1> QED
    BY <1>3, <1>4, <1>5 DEF Next

LEMMA StepInv == Inv /\ [Next]_vars => Inv'
  BY PartsInv, StepSentIsProduced, StepUsers DEF Inv

LEMMA Invariance == Spec => []Inv
  BY InitInv, StepInv, PTL DEF Spec
-----------------------------------------------------------------------------
(* What follows for the users                                              *)

LEMMA UserTypes ==
    ASSUME Inv
    PROVE  /\ effects \in [Account -> Nat] /\ assigns \in Nat
           /\ \A a \in Account : faults[a] \in Nat
           /\ users \in [Account -> [status : {"pending_email_verification", "email_verified"},
                                     email_verified_at : Nat]]
           /\ \A a \in Account : /\ users[a].email_verified_at = effects[a]
                                 /\ a \in Verified <=> effects[a] > 0
  <1>1. effects \in [Account -> Nat] /\ assigns \in Nat
    BY DEF Inv, TopicFacts!EffectInv, TopicFacts!Inv, TopicFacts!TypeOK
  <1>2. \A a \in Account : faults[a] \in Nat
    BY DEF Inv, OutboxFacts!Inv, OutboxFacts!TypeOK
  <1>3. users \in [Account -> [status : {"pending_email_verification", "email_verified"},
                               email_verified_at : Nat]]
    BY <1>1 DEF Inv, UsersFollowEffects
  <1>4. ASSUME NEW a \in Account
        PROVE  users[a].email_verified_at = effects[a] /\ (a \in Verified <=> effects[a] > 0)
    <2>1. users[a] = [status |-> IF effects[a] = 0 THEN "pending_email_verification"
                                 ELSE "email_verified",
                      email_verified_at |-> effects[a]]
      BY DEF Inv, UsersFollowEffects
    <2> QED
      BY <1>1, <2>1 DEF Verified
  <1> QED
    BY <1>1, <1>2, <1>3, <1>4

\* The states of relay, topic, consumer and users stay of their types.
THEOREM TypeCorrect == Spec => []TypeOK
  <1>1. Inv => TypeOK
    <2> SUFFICES ASSUME Inv PROVE TypeOK
      OBVIOUS
    <2>1. Outbox!TypeOK
      BY DEF Inv, OutboxFacts!Inv, OutboxFacts!TypeOK, OutboxFacts!RowStatus,
             OutboxFacts!Polling, Outbox!TypeOK, Outbox!RowStatus, Outbox!Polling
    <2>2. Topic!TypeOK
      BY SameTopic DEF Inv, TopicFacts!EffectInv, TopicFacts!Inv, TopicFacts!TypeOK,
             TopicFacts!Waiting, Topic!TypeOK, Topic!Waiting
    <2> QED
      BY <2>1, <2>2, UserTypes DEF TypeOK
  <1> QED
    BY <1>1, Invariance, PTL

LEMMA ProductGrows ==
    ASSUME NEW k \in Nat, NEW m \in Nat, NEW n \in Nat, m <= n
    PROVE  m * k <= n * k
  <1>1. n * k = m * k + (n - m) * k /\ (n - m) * k \in Nat /\ m * k \in Nat
    <2>1. n - m \in Nat
      OBVIOUS
    <2> QED
      BY <2>1
  <1> QED
    BY <1>1

\* A user's email_verified_at is set once for each start of the consumer and each
\* copy of its message, and Kafka stores one copy and one more for each fault of the
\* row, retries inside a send included: the bounds of the two parts, multiplied.
THEOREM UpdatesBounded == Spec => []UpdatesAccounted
  <1>1. Inv => UpdatesAccounted
    <2> SUFFICES ASSUME Inv, NEW a \in Account
                 PROVE  users[a].email_verified_at <= (1 + faults[a]) * assigns
      BY DEF UpdatesAccounted
    <2> PICK c : c = OutboxFacts!Copies(a)
      OBVIOUS
    <2>1. /\ effects[a] \in Nat /\ assigns \in Nat /\ faults[a] \in Nat
          /\ users[a].email_verified_at = effects[a]
      BY UserTypes
    <2>2. effects[a] <= c * assigns
      <3>1. TopicFacts!EffectsAccounted
        BY TopicFacts!EffectsWithin, TopicAssumptions DEF Inv
      <3>2. TopicFacts!Cardinality(TopicFacts!CopiesOf(a)) = c
        BY SameCardinality DEF Inv, SentIsProduced
      <3> QED
        BY <3>1, <3>2 DEF TopicFacts!EffectsAccounted
    <2>3. c \in Nat /\ c <= 1 + faults[a]
      <3>1. c \in Nat /\ late[a] \in Nat
        BY OutboxFacts!CountsAreNat, RelayAssumptions DEF Inv, OutboxFacts!Inv
      <3>2. c + late[a] <= 1 + faults[a]
        BY DEF Inv, OutboxFacts!CopyInv, OutboxFacts!Budget
      <3> QED
        BY <2>1, <3>1, <3>2
    <2>4. c * assigns <= (1 + faults[a]) * assigns
      BY <2>1, <2>3, ProductGrows
    <2>5. c * assigns \in Nat /\ (1 + faults[a]) * assigns \in Nat
      BY <2>1, <2>3
    <2> QED
      BY <2>1, <2>2, <2>4, <2>5
  <1> QED
    BY <1>1, Invariance, PTL

\* A message that Kafka has stored was produced, and the other way round.
LEMMA StoredIsProduced ==
    ASSUME Inv, NEW a \in Account
    PROVE  OutboxFacts!Stored(a) <=> \E slot \in TopicFacts!Produced : TopicFacts!MessageAt(slot) = a
  <1> DEFINE Places == {i \in DOMAIN sent : sent[i] = a}
  <1>1. IsFiniteSet(Places)
    <2>1. sent \in Seq(Account)
      BY DEF Inv, OutboxFacts!Inv, OutboxFacts!TypeOK
    <2>2. DOMAIN sent = 1..Len(sent) /\ Len(sent) \in Nat
      BY <2>1, LenProperties
    <2>3. IsFiniteSet(DOMAIN sent)
      BY <2>2, FS_Interval
    <2> QED
      BY <2>3, FS_Subset
  <1>2. IsFiniteSet(TopicFacts!CopiesOf(a))
    <2>1. TopicFacts!IsFiniteSet(TopicFacts!CopiesOf(a))
      BY TopicFacts!CopiesFinite, TopicAssumptions DEF Inv, TopicFacts!EffectInv, TopicFacts!Inv
    <2> QED
      BY <2>1 DEF IsFiniteSet, TopicFacts!IsFiniteSet
  <1>3. Cardinality(TopicFacts!CopiesOf(a)) = Cardinality(Places)
    BY SameCardinality DEF Inv, SentIsProduced, OutboxFacts!Copies
  <1>4. TopicFacts!CopiesOf(a) = {} <=> Places = {}
    BY <1>1, <1>2, <1>3, FS_EmptySet
  <1>5. OutboxFacts!Stored(a) <=> Places # {}
    BY DEF OutboxFacts!Stored
  <1> QED
    BY <1>4, <1>5 DEF TopicFacts!CopiesOf

\* What was produced was committed.
LEMMA ProducedIsAnnounced ==
    ASSUME Inv, NEW slot \in TopicFacts!Produced
    PROVE  TopicFacts!MessageAt(slot) \in Announced
  <1>1. TopicFacts!MessageAt(slot) \in Account
    BY TopicFacts!TypeFacts, TopicAssumptions DEF Inv, TopicFacts!EffectInv, TopicFacts!Inv
  <1>2. OutboxFacts!Stored(TopicFacts!MessageAt(slot))
    BY <1>1, StoredIsProduced
  <1> QED
    BY <1>1, <1>2 DEF Inv, OutboxFacts!Inv, OutboxFacts!MarkedIsStored, Announced

\* Once its row is marked and the committed offsets are past its copies, a message
\* has verified its user, unless a handler failed or a start skipped a copy: the
\* two halves of at-least-once leave no gap where they meet.
THEOREM NothingForgotten == Spec => []NothingLeftBehind
  <1>1. Inv => NothingLeftBehind
    <2> SUFFICES ASSUME Inv, NEW a \in Account, status[a] = "published",
                        \A slot \in Topic!CopiesOf(a) : Topic!Covered(slot)
                 PROVE  a \in Verified \cup Lost
      BY DEF NothingLeftBehind
    <2>1. OutboxFacts!Stored(a)
      BY DEF Inv, OutboxFacts!Inv, OutboxFacts!MarkedIsStored
    <2>2. PICK slot \in TopicFacts!Produced : TopicFacts!MessageAt(slot) = a
      BY <2>1, StoredIsProduced
    <2>3. TopicFacts!Covered(slot)
      BY <2>2, SameTopic DEF TopicFacts!CopiesOf
    <2>4. slot \in done \cup failed \cup skipped
      BY <2>3 DEF Inv, TopicFacts!EffectInv, TopicFacts!Inv, TopicFacts!LossAccounted
    <2>5. CASE slot \in done
      <3>1. effects[a] > 0
        BY <2>2, <2>5 DEF Inv, TopicFacts!DoneTookEffect
      <3> QED
        BY <3>1, UserTypes
    <2>6. CASE slot \in failed \cup skipped
      BY <2>2, <2>6, SameTopic DEF Lost
    <2> QED
      BY <2>4, <2>5, <2>6
  <1> QED
    BY <1>1, Invariance, PTL

-----------------------------------------------------------------------------
(* The refinement                                                          *)

LEMMA AbstractInit == Init => Abstract!Init
  <1> SUFFICES ASSUME Init PROVE Abstract!Init
    OBVIOUS
  <1>1. OutboxFacts!Init /\ TopicFacts!Init
    BY OutboxInit, TopicInit DEF Init
  <1>2. Announced = {} /\ Lost = {}
    BY <1>1 DEF OutboxFacts!Init, TopicFacts!Init, Announced, Lost
  <1>3. Verified = {}
    BY DEF Init, Verified, Unverified
  <1> QED
    BY <1>2, <1>3 DEF Abstract!Init

\* A copy keeps its message, and so its place in Lost.
LEMMA LostGrows ==
    ASSUME Inv, failed \subseteq failed', skipped \subseteq skipped',
           \A slot \in TopicFacts!Produced :
               TopicFacts!MessageAt(slot)' = TopicFacts!MessageAt(slot)
    PROVE  Lost \subseteq Lost'
  <1>1. failed \cup skipped \subseteq TopicFacts!Produced
    BY DEF Inv, TopicFacts!EffectInv, TopicFacts!Inv, TopicFacts!TypeOK
  <1>2. Lost = {a \in Account : \E slot \in failed \cup skipped : TopicFacts!MessageAt(slot) = a}
    BY SameTopic DEF Lost
  <1>3. Lost' = {a \in Account : \E slot \in failed' \cup skipped' :
                                    TopicFacts!MessageAt(slot)' = a}
    BY DEF Lost, Topic!MessageAt, TopicFacts!MessageAt
  <1> QED
    BY <1>1, <1>2, <1>3

LEMMA RelayAnnounces ==
    ASSUME Inv, RelayStep
    PROVE  [Abstract!Next]_(Abstract!vars)
  <1>1. UNCHANGED Verified
    BY DEF RelayStep, Verified
  <1>2. UNCHANGED Lost
    <2>1. CASE UNCHANGED topic
      BY <2>1 DEF topic, Lost, Topic!MessageAt
    <2>2. ASSUME NEW x \in Account, NEW p \in Partition, TopicFacts!Produce(x, p)
          PROVE  UNCHANGED Lost
      <3>1. UNCHANGED <<failed, skipped>>
        BY <2>2 DEF TopicFacts!Produce, TopicFacts!outcomes
      <3>2. \A slot \in TopicFacts!Produced :
               TopicFacts!MessageAt(slot)' = TopicFacts!MessageAt(slot)
        BY <2>2, TopicFacts!ProduceAppends, TopicAssumptions
           DEF Inv, TopicFacts!EffectInv, TopicFacts!Inv
      <3>3. failed \cup skipped \subseteq TopicFacts!Produced
        BY DEF Inv, TopicFacts!EffectInv, TopicFacts!Inv, TopicFacts!TypeOK
      <3>4. \A slot \in failed \cup skipped : Topic!MessageAt(slot)' = Topic!MessageAt(slot)
        BY <3>2, <3>3 DEF Topic!MessageAt, TopicFacts!MessageAt
      <3> QED
        BY <3>1, <3>4 DEF Lost
    <2> QED
      BY <2>1, <2>2, RelayProduces DEF Inv
  <1>3. /\ \A r \in Account : OutboxFacts!Committed(r) => OutboxFacts!Committed(r)'
        /\ \E x : \A r \in Account : OutboxFacts!Committed(r)' => OutboxFacts!Committed(r) \/ r = x
    BY OutboxNext, OutboxFacts!CommitsOne, RelayAssumptions DEF RelayStep, Inv
  <1>4. /\ \A r \in Account : OutboxFacts!Committed(r) <=> r \in Announced
        /\ \A r \in Account : OutboxFacts!Committed(r)' <=> r \in Announced'
        /\ Announced \subseteq Account /\ Announced' \subseteq Account
    BY DEF OutboxFacts!Committed, Announced
  <1>5. Announced' = Announced \/ \E x \in Account : Announced' = Announced \cup {x}
    BY <1>3, <1>4
  <1> QED
    BY <1>1, <1>2, <1>5 DEF Abstract!Next, Abstract!Announce, Abstract!vars

LEMMA ConsumerDelivers ==
    ASSUME Inv, Inv', ConsumerStep
    PROVE  Abstract!Next
  <1>1. /\ UNCHANGED log /\ failed \subseteq failed' /\ skipped \subseteq skipped'
    BY ConsumerTakes
  <1>2. Announced' = Announced
    BY DEF ConsumerStep, outbox, Announced
  <1>3. Lost \subseteq Lost'
    BY <1>1, LostGrows DEF TopicFacts!MessageAt
  <1>4. Lost' \subseteq Announced
    <2>1. failed' \cup skipped' \subseteq TopicFacts!Produced'
      BY DEF Inv, TopicFacts!EffectInv, TopicFacts!Inv, TopicFacts!TypeOK
    <2>2. TopicFacts!Produced' = TopicFacts!Produced
          /\ \A slot : TopicFacts!MessageAt(slot)' = TopicFacts!MessageAt(slot)
      BY <1>1 DEF TopicFacts!Produced, TopicFacts!MessageAt
    <2>3. Lost' = {a \in Account : \E slot \in failed' \cup skipped' :
                                      TopicFacts!MessageAt(slot) = a}
      BY <1>1 DEF Lost, Topic!MessageAt, TopicFacts!MessageAt
    <2> QED
      BY <2>1, <2>2, <2>3, ProducedIsAnnounced
  <1>5. Verified \subseteq Verified' /\ Verified' \ Verified \subseteq Announced
    <2>1. CASE UNCHANGED users
      BY <2>1 DEF Verified
    <2>2. ASSUME NEW slot \in TopicFacts!Produced, NEW a \in Account,
                 a = TopicFacts!MessageAt(slot), Verify(a)
          PROVE  Verified \subseteq Verified' /\ Verified' \ Verified \subseteq Announced
      <3>1. a \in Announced
        BY <2>2, ProducedIsAnnounced
      <3>2. Verified' = Verified \cup {a}
        BY <2>2, UserTypes DEF Verify, Verified
      <3> QED
        BY <3>1, <3>2
    <2> QED
      BY <2>1, <2>2, ConsumerTakes
  <1>6. /\ Verified' = Verified \cup (Verified' \ Verified)
        /\ Lost' = Lost \cup (Lost' \ Lost)
        /\ Verified' \ Verified \in SUBSET Announced /\ Lost' \ Lost \in SUBSET Announced
    BY <1>3, <1>4, <1>5
  <1> QED
    BY <1>2, <1>6 DEF Abstract!Next, Abstract!Deliver

LEMMA StepRefines ==
    ASSUME Inv, Inv', [Next]_vars
    PROVE  [Abstract!Next]_(Abstract!vars)
  <1>1. CASE UNCHANGED vars
    BY <1>1 DEF vars, outbox, topic, Announced, Verified, Lost, Topic!MessageAt, Abstract!vars
  <1> QED
    BY <1>1, RelayAnnounces, ConsumerDelivers DEF Next

\* Relay, topic, consumer and users implement VerifiedUsers: through every
\* failure, restart, duplicate and late copy a user is verified only after
\* confirmo-auth committed its verification, and for good.
THEOREM Implements == Spec => UsersSpec
  <1>1. Inv /\ Inv' /\ [Next]_vars => [Abstract!Next]_(Abstract!vars)
    BY StepRefines
  <1> QED
    BY AbstractInit, <1>1, Invariance, PTL DEF Spec, UsersSpec, Abstract!Spec
=============================================================================
