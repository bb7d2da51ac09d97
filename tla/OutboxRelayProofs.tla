------------------------- MODULE OutboxRelayProofs -------------------------
(* Proofs about OutboxRelay, for any set of rows, batch size and bound on  *)
(* the faults.                                                             *)
EXTENDS OutboxRefinement, SequenceTheorems, FiniteSetTheorems, TLAPS

Committed(r) == status[r] \in {"pending", "published"}

\* No row is dated later than now, and a transaction ends after it began.
DatesInOrder ==
    \A r \in Row : /\ status[r] # "none" => created[r] <= now
                   /\ Committed(r) => created[r] <= committed[r] /\ committed[r] < now

\* The batch holds committed rows, and the one to be marked is stored.
BatchIsCommitted ==
    /\ \A i \in DOMAIN relay.batch : Committed(relay.batch[i])
    /\ At("mark") => Stored(Current)

\* Whatever a row of the batch has to come after is published or ahead of it in
\* the batch: the batch is a prefix of the pending rows in the order of
\* created_at, and that order respects Before.
BatchOrder ==
    \A q \in Row : \A i \in DOMAIN relay.batch : Before(q, relay.batch[i]) =>
        status[q] = "published" \/ \E j \in 1..(i - 1) : relay.batch[j] = q

\* A copy that may still be stored late comes after what it has to come after.
LateOrder == \A q, r \in Row : Before(q, r) /\ late[r] > 0 => Stored(q)

\* The steps outside the handlers: who comes before whom stays as it is.
SameOrder ==
    /\ \A r \in Row : Committed(r)' <=> Committed(r)
    /\ \A q, r \in Row : Before(q, r)' <=> Before(q, r)
    /\ \A r \in Row : status[r] = "published" => status'[r] = "published"

Inv ==
    /\ TypeOK
    /\ DatesInOrder
    /\ BatchIsCommitted
    /\ MarkedIsStored
    /\ BatchOrder
    /\ LateOrder
    /\ CausalOrder

-----------------------------------------------------------------------------
(* The relay's batch                                                       *)

LEMMA InitInv == Init => Inv
  <1> SUFFICES ASSUME Init PROVE Inv
    OBVIOUS
  <1>1. TypeOK
    BY DEF Init, TypeOK, RowStatus
  <1>2. DatesInOrder /\ BatchIsCommitted /\ MarkedIsStored
    BY DEF Init, DatesInOrder, Committed, BatchIsCommitted, At, Polling, MarkedIsStored, Stored
  <1>3. BatchOrder /\ LateOrder /\ CausalOrder
    BY DEF Init, BatchOrder, LateOrder, CausalOrder, Before, Polling
  <1> QED
    BY <1>1, <1>2, <1>3 DEF Inv

\* A batch is a sequence of at most BatchSize pending rows.
LEMMA BatchIsSeq ==
    ASSUME NEW b \in Batches
    PROVE  /\ b \in Seq(Unpublished) /\ b \in Seq(Row) /\ Len(b) \in 0..BatchSize
           /\ DOMAIN b = 1..Len(b)
  <1>1. PICK n \in 0..BatchSize : b \in [1..n -> Unpublished]
    BY DEF Batches
  <1>2. n \in Nat /\ b \in Seq(Unpublished)
    BY <1>1, BatchAssumption, SeqDef
  <1>3. Len(b) = n
    BY <1>1, <1>2, LenProperties
  <1>4. Unpublished \subseteq Row
    BY DEF Unpublished
  <1>5. b \in Seq(Row)
    BY <1>1, <1>2, <1>4, SeqDef
  <1> QED
    BY <1>1, <1>2, <1>3, <1>5

\* While the relay is at a row, Current is the first of its batch.
LEMMA CurrentIsRow ==
    ASSUME TypeOK, ~At("poll")
    PROVE  /\ relay.batch \in Seq(Row) /\ relay.batch # <<>> /\ Len(relay.batch) \in 1..BatchSize
           /\ DOMAIN relay.batch = 1..Len(relay.batch)
           /\ 1 \in DOMAIN relay.batch
           /\ Current = relay.batch[1] /\ Current \in Row
           /\ relay.pc \in {"publish", "mark"}
  <1>1. /\ relay \in [pc : {"publish", "mark"}, batch : Seq(Row)]
        /\ Len(relay.batch) \in 1..BatchSize
    BY DEF TypeOK, At, Polling
  <1>2. relay.batch \in Seq(Row) /\ relay.pc \in {"publish", "mark"}
    BY <1>1
  <1>3. Len(relay.batch) \in Nat /\ Len(relay.batch) >= 1
    BY <1>1, BatchAssumption
  <1>4. DOMAIN relay.batch = 1..Len(relay.batch) /\ relay.batch # <<>>
    BY <1>2, <1>3
  <1>5. 1 \in DOMAIN relay.batch /\ relay.batch[1] \in Row
    BY <1>2, <1>3, <1>4
  <1> QED
    BY <1>1, <1>2, <1>4, <1>5 DEF Current

\* Advance drops the first row, and polls when that was the last.
LEMMA AdvanceIsTail ==
    ASSUME TypeOK, ~At("poll")
    PROVE  \/ Advance = Polling
           \/ /\ Advance \in [pc : {"publish"}, batch : Seq(Row)]
              /\ Len(Advance.batch) \in 1..BatchSize
              /\ DOMAIN Advance.batch = 1..(Len(relay.batch) - 1)
              /\ \A i \in DOMAIN Advance.batch : Advance.batch[i] = relay.batch[i + 1]
  <1> PICK t : t = Tail(relay.batch)
    OBVIOUS
  <1>1. relay.batch \in Seq(Row) /\ relay.batch # <<>> /\ Len(relay.batch) \in 1..BatchSize
    BY CurrentIsRow
  <1>2. /\ t \in Seq(Row) /\ Len(t) = Len(relay.batch) - 1
        /\ \A i \in 1..Len(t) : t[i] = relay.batch[i + 1]
    BY <1>1, HeadTailProperties
  <1>3. CASE t = <<>>
    BY <1>3 DEF Advance
  <1>4. CASE t # <<>>
    <2>1. Len(t) \in Nat /\ Len(t) # 0 /\ DOMAIN t = 1..Len(t)
      BY <1>2, <1>4, EmptySeq, LenProperties
    <2>2. Len(t) \in 1..BatchSize
      <3>1. PICK m \in Nat, n \in Nat : m = Len(relay.batch) /\ n = Len(t)
        BY <1>1, <2>1, LenProperties
      <3>2. m \in 1..BatchSize /\ n = m - 1 /\ n # 0
        BY <1>1, <1>2, <2>1, <3>1
      <3>3. n \in 1..BatchSize
        BY <3>2, BatchAssumption
      <3> QED
        BY <3>1, <3>3
    <2>3. Advance = [pc |-> "publish", batch |-> t]
      BY <1>4 DEF Advance
    <2>4. Advance \in [pc : {"publish"}, batch : Seq(Row)]
      BY <1>2, <2>3
    <2> QED
      BY <1>2, <2>1, <2>2, <2>3, <2>4
  <1> QED
    BY <1>3, <1>4

-----------------------------------------------------------------------------
(* Types                                                                   *)

LEMMA PollingOrBatch ==
    ASSUME TypeOK, NEW b \in Batches
    PROVE  LET next == IF b = <<>> THEN Polling ELSE [pc |-> "publish", batch |-> b] IN
           \/ next = Polling
           \/ /\ next \in [pc : {"publish"}, batch : Seq(Row)]
              /\ Len(next.batch) \in 1..BatchSize
  <1>1. /\ b \in Seq(Row) /\ Len(b) \in 0..BatchSize /\ DOMAIN b = 1..Len(b)
    BY BatchIsSeq
  <1>2. CASE b = <<>>
    BY <1>2
  <1>3. CASE b # <<>>
    <2>1. PICK n \in Nat : n = Len(b)
      BY <1>1, LenProperties
    <2>2. n # 0 /\ n \in 0..BatchSize
      BY <1>1, <1>3, <2>1, EmptySeq
    <2>3. n \in 1..BatchSize
      BY <2>2, BatchAssumption
    <2>4. [pc |-> "publish", batch |-> b] \in [pc : {"publish"}, batch : Seq(Row)]
      BY <1>1
    <2> QED
      BY <1>3, <2>1, <2>3, <2>4
  <1> QED
    BY <1>2, <1>3

LEMMA CountedOnce ==
    ASSUME NEW f \in [Row -> Nat], NEW r \in Row
    PROVE  [f EXCEPT ![r] = @ + 1] \in [Row -> Nat]
  OBVIOUS

LEMMA UnacknowledgedType ==
    ASSUME TypeOK, ~At("poll"), Unacknowledged
    PROVE  log' \in Seq(Row) /\ late' \in [Row -> Nat]
  <1>1. Current \in Row
    BY CurrentIsRow
  <1>2. CASE UNCHANGED kafka
    BY <1>2 DEF kafka, TypeOK
  <1>3. CASE log' = Append(log, Current) /\ UNCHANGED late
    BY <1>1, <1>3, AppendProperties DEF TypeOK
  <1>4. CASE late' = [late EXCEPT ![Current] = @ + 1] /\ UNCHANGED log
    BY <1>1, <1>4, CountedOnce DEF TypeOK
  <1> QED
    BY <1>2, <1>3, <1>4 DEF Unacknowledged

LEMMA FaultType ==
    ASSUME TypeOK, ~At("poll"), Fault
    PROVE  faults' \in [Row -> Nat]
  <1>1. faults' = [faults EXCEPT ![Current] = @ + 1] /\ faults \in [Row -> Nat]
    BY DEF Fault, TypeOK
  <1> QED
    BY <1>1, CurrentIsRow, CountedOnce

LEMMA MarkCurrentType ==
    ASSUME TypeOK, MarkCurrent
    PROVE  status' \in [Row -> RowStatus] /\ UNCHANGED <<created, committed, now>>
  BY DEF MarkCurrent, TypeOK, RowStatus

LEMMA NextTypeOK == TypeOK /\ [Next]_vars => TypeOK'
  <1> SUFFICES ASSUME TypeOK, [Next]_vars PROVE TypeOK'
    OBVIOUS
  <1>1. CASE Handlers
    <2>1. status' \in [Row -> RowStatus]
      BY <1>1 DEF Handlers, Begin, Commit, Rollback, TypeOK, RowStatus
    <2>2. created' \in [Row -> Nat] /\ committed' \in [Row -> Nat] /\ now' \in Nat
      BY <1>1 DEF Handlers, Begin, Commit, Rollback, TypeOK
    <2> QED
      BY <1>1, <2>1, <2>2 DEF Handlers, Begin, Commit, Rollback, TypeOK, kafka
  <1>2. CASE Poll
    <2>1. \/ relay' = Polling
          \/ /\ relay' \in [pc : {"publish"}, batch : Seq(Row)]
             /\ Len(relay'.batch) \in 1..BatchSize
      BY <1>2, PollingOrBatch DEF Poll
    <2> QED
      BY <1>2, <2>1 DEF Poll, TypeOK, rows, kafka
  <1>3. CASE Publish
    <2>1. ~At("poll")
      BY <1>3 DEF Publish, At
    <2>2. Current \in Row /\ relay \in [pc : {"publish", "mark"}, batch : Seq(Row)]
          /\ Len(relay.batch) \in 1..BatchSize
      BY <2>1, CurrentIsRow DEF TypeOK, At, Polling
    <2>3. log' \in Seq(Row)
      BY <1>3, <2>2 DEF Publish, TypeOK
    <2>4. relay' \in [pc : {"publish", "mark"}, batch : Seq(Row)] /\ relay'.batch = relay.batch
      BY <1>3, <2>2 DEF Publish
    <2> QED
      BY <1>3, <2>2, <2>3, <2>4 DEF Publish, TypeOK, rows
  <1>4. CASE Retry \/ PublishFails
    <2>1. NoAck /\ ~At("poll")
      BY <1>4 DEF Retry, PublishFails, NoAck, At
    <2>2. log' \in Seq(Row) /\ late' \in [Row -> Nat] /\ faults' \in [Row -> Nat]
      BY <2>1, UnacknowledgedType, FaultType DEF NoAck
    <2> QED
      BY <1>4, <2>1, <2>2 DEF Retry, PublishFails, NoAck, TypeOK, rows
  <1>5. CASE Mark
    <2>1. ~At("poll")
      BY <1>5 DEF Mark, At
    <2> QED
      BY <1>5, <2>1, AdvanceIsTail, MarkCurrentType DEF Mark, TypeOK, kafka
  <1>6. CASE MarkFails
    <2>1. ~At("poll")
      BY <1>6 DEF MarkFails, At
    <2> QED
      BY <1>6, <2>1, MarkCurrentType, FaultType DEF MarkFails, TypeOK, kafka, rows
  <1>7. ASSUME NEW r \in Row, LateStore(r) PROVE TypeOK'
    <2>1. log' \in Seq(Row) /\ late' \in [Row -> Nat]
      BY <1>7 DEF LateStore, TypeOK
    <2> QED
      BY <1>7, <2>1 DEF LateStore, TypeOK, rows
  <1>8. CASE UNCHANGED vars
    BY <1>8 DEF vars, rows, kafka, TypeOK
  <1> QED
    BY <1>1, <1>2, <1>3, <1>4, <1>5, <1>6, <1>7, <1>8 DEF Next, Relay

\* The columns of the outbox and the relay's batch keep their types: between
\* polls there always is a row to publish or to mark, of a batch within LIMIT.
THEOREM TypeCorrect == Spec => []TypeOK
  <1>1. Init => TypeOK
    BY InitInv DEF Inv
  <1> QED
    BY <1>1, NextTypeOK, PTL DEF Spec

-----------------------------------------------------------------------------
(* The order of the outbox                                                 *)

\* Steps of handlers put no row before one that is committed already.
LEMMA HandlersOrder ==
    ASSUME Inv, Handlers
    PROVE  /\ DatesInOrder'
           /\ \A r \in Row : Committed(r) => Committed(r)'
           /\ \A r \in Row : status'[r] = "published" <=> status[r] = "published"
           /\ \A q, r \in Row : Committed(r) /\ Before(q, r)' => Before(q, r)
  <1> PICK x \in Row : Begin(x) \/ Commit(x) \/ Rollback(x)
    BY DEF Handlers
  <1>1. TypeOK /\ DatesInOrder
    BY DEF Inv
  <1>2. CASE Begin(x)
    BY <1>1, <1>2 DEF Begin, TypeOK, DatesInOrder, Committed, Before
  <1>3. CASE Commit(x)
    <2>1. /\ status[x] = "open" /\ status'[x] = "pending" /\ committed'[x] = now
          /\ \A r \in Row : r # x => status'[r] = status[r] /\ committed'[r] = committed[r]
          /\ created' = created /\ now' = now + 1 /\ now \in Nat
          /\ created \in [Row -> Nat] /\ committed \in [Row -> Nat]
      BY <1>3 DEF Commit, Inv, TypeOK
    <2>2. \A r \in Row : created[r] \in Nat /\ committed[r] \in Nat
      BY <2>1
    <2>3. DatesInOrder'
      BY <1>1, <2>1, <2>2 DEF DatesInOrder, Committed
    <2>4. \A r \in Row : Committed(r) => Committed(r)'
      BY <2>1 DEF Committed
    <2>5. \A r \in Row : status'[r] = "published" <=> status[r] = "published"
      BY <2>1
    <2>6. ASSUME NEW q \in Row, NEW r \in Row, Committed(r), Before(q, r)'
          PROVE  Before(q, r)
      <3>1. created[r] <= now
        BY <1>1, <2>6 DEF DatesInOrder, Committed
      <3>2. q # x
        BY <2>1, <2>2, <2>6, <3>1 DEF Before
      <3> QED
        BY <2>1, <2>6, <3>2 DEF Before, Committed
    <2> QED
      BY <2>3, <2>4, <2>5, <2>6
  <1>4. CASE Rollback(x)
    BY <1>1, <1>4 DEF Rollback, TypeOK, DatesInOrder, Committed, Before
  <1> QED
    BY <1>2, <1>3, <1>4

LEMMA HandlersInv ==
    ASSUME Inv, TypeOK', Handlers
    PROVE  Inv'
  <1>1. relay' = relay /\ log' = log /\ late' = late
    BY DEF Handlers, Begin, Commit, Rollback, kafka
  <1>2. \A r \in Row : Stored(r)' <=> Stored(r)
    BY <1>1 DEF Stored
  <1>3. MarkedIsStored'
    BY <1>1, <1>2, HandlersOrder DEF Inv, MarkedIsStored, Committed
  <1>4. \A i \in DOMAIN relay.batch : relay.batch[i] \in Row /\ Committed(relay.batch[i])
    BY CurrentIsRow DEF Inv, BatchIsCommitted, Polling, TypeOK, At
  <1>5. BatchIsCommitted'
    <2>1. At("mark") => Current \in Row
      BY CurrentIsRow DEF Inv, At
    <2>2. \A i \in DOMAIN relay'.batch : Committed(relay.batch[i])'
      BY <1>1, <1>4, HandlersOrder DEF Committed
    <2> QED
      BY <1>1, <1>2, <2>1, <2>2 DEF Inv, BatchIsCommitted, At, Current, Committed, Stored
  <1>6. BatchOrder'
    <2> SUFFICES ASSUME NEW q \in Row, NEW i \in DOMAIN relay.batch, NEW r \in Row,
                        r = relay.batch[i], Before(q, r)'
                 PROVE  status'[q] = "published" \/ \E j \in 1..(i - 1) : relay.batch[j] = q
      BY <1>1, <1>4 DEF BatchOrder, Before
    <2>1. Before(q, r)
      BY <1>4, HandlersOrder
    <2> QED
      BY <2>1, HandlersOrder DEF Inv, BatchOrder
  <1>7. LateOrder'
    BY <1>1, <1>2, HandlersOrder DEF Inv, LateOrder, MarkedIsStored, Committed
  <1>8. CausalOrder'
    <2> SUFFICES ASSUME NEW q \in Row, NEW r \in Row, Before(q, r)',
                        NEW j \in DOMAIN log, log[j] = r
                 PROVE  \E i \in 1..(j - 1) : log[i] = q
      BY <1>1 DEF CausalOrder
    <2>1. Committed(r)
      BY DEF Inv, MarkedIsStored, Stored, Committed
    <2> QED
      BY <2>1, HandlersOrder DEF Inv, CausalOrder
  <1> QED
    BY HandlersOrder, <1>3, <1>5, <1>6, <1>7, <1>8 DEF Inv

LEMMA SameRows == ASSUME UNCHANGED rows PROVE SameOrder
  BY DEF rows, SameOrder, Committed, Before

LEMMA MarkSameOrder ==
    ASSUME Inv, MarkCurrent, ~At("poll")
    PROVE  SameOrder /\ status'[Current] = "published"
           /\ \A r \in Row : status'[r] = "published" => status[r] = "published" \/ r = Current
  <1>1. Current \in Row /\ Committed(Current)
    BY CurrentIsRow DEF Inv, BatchIsCommitted
  <1> QED
    BY <1>1 DEF MarkCurrent, Inv, TypeOK, SameOrder, Committed, Before

\* The dates, and the order of the log, under a step that stores nothing.
LEMMA NothingStored ==
    ASSUME Inv, SameOrder, UNCHANGED <<created, committed, now, log>>,
           \A r \in Row : late'[r] > 0 => late[r] > 0
    PROVE  /\ LateOrder' /\ CausalOrder'
           /\ (\A r \in Row : status'[r] = "published" => Stored(r)) => MarkedIsStored'
           /\ \A r \in Row : Stored(r)' <=> Stored(r)
  <1>1. \A r \in Row : Stored(r)' <=> Stored(r)
    BY DEF Stored
  <1>2. LateOrder'
    BY <1>1 DEF Inv, LateOrder, SameOrder
  <1>3. CausalOrder'
    BY DEF Inv, CausalOrder, SameOrder
  <1>4. (\A r \in Row : status'[r] = "published" => Stored(r)) => MarkedIsStored'
    BY <1>1 DEF Inv, MarkedIsStored, SameOrder, Committed
  <1> QED
    BY <1>1, <1>2, <1>3, <1>4

\* One more message keeps the order if everything it has to come after is there.
LEMMA OneStored ==
    ASSUME Inv, UNCHANGED rows, NEW x \in Row, Committed(x), log' = Append(log, x),
           \A r \in Row : late'[r] > 0 => late[r] > 0,
           \A q \in Row : Before(q, x) => Stored(q)
    PROVE  /\ LateOrder' /\ CausalOrder' /\ MarkedIsStored'
           /\ \A r \in Row : Stored(r)' <=> Stored(r) \/ r = x
  <1>1. /\ log \in Seq(Row) /\ Len(log) \in Nat /\ DOMAIN log = 1..Len(log)
        /\ DOMAIN log' = 1..(Len(log) + 1)
        /\ \A i \in 1..Len(log) : log'[i] = log[i]
        /\ log'[Len(log) + 1] = x
    BY AppendProperties DEF Inv, TypeOK
  <1>2. \A r \in Row : Stored(r)' <=> Stored(r) \/ r = x
    BY <1>1 DEF Stored
  <1>3. SameOrder
    BY SameRows
  <1>4. LateOrder'
    BY <1>2, <1>3 DEF Inv, LateOrder, SameOrder
  <1>5. MarkedIsStored'
    BY <1>2 DEF rows, Inv, MarkedIsStored, Committed
  <1>6. CausalOrder'
    <2> SUFFICES ASSUME NEW q \in Row, NEW r \in Row, Before(q, r),
                        NEW j \in DOMAIN log', log'[j] = r
                 PROVE  \E i \in 1..(j - 1) : log'[i] = q
      BY <1>3 DEF CausalOrder, SameOrder
    <2>1. CASE j \in 1..Len(log)
      <3>1. PICK i \in 1..(j - 1) : log[i] = q
        BY <1>1, <2>1 DEF Inv, CausalOrder
      <3> QED
        BY <1>1, <2>1, <3>1
    <2>2. CASE j = Len(log) + 1
      <3>1. PICK i \in DOMAIN log : log[i] = q
        BY <1>1, <2>2 DEF Stored
      <3> QED
        BY <1>1, <2>2, <3>1
    <2> QED
      BY <1>1, <2>1, <2>2
  <1> QED
    BY <1>2, <1>4, <1>5, <1>6

\* What Current has to come after is stored by the time the relay is at it.
LEMMA CurrentIsNext ==
    ASSUME Inv, ~At("poll")
    PROVE  /\ Current \in Row /\ Committed(Current)
           /\ \A q \in Row : Before(q, Current) => Stored(q)
  <1>1. /\ Current = relay.batch[1] /\ 1 \in DOMAIN relay.batch /\ Current \in Row
    BY CurrentIsRow DEF Inv
  <1>2. \A q \in Row : Before(q, Current) => status[q] = "published"
    BY <1>1 DEF Inv, BatchOrder
  <1> QED
    BY <1>1, <1>2 DEF Inv, BatchIsCommitted, MarkedIsStored

-----------------------------------------------------------------------------
(* The steps of the relay                                                  *)

LEMMA DatesStable ==
    ASSUME Inv, SameOrder, UNCHANGED <<created, committed, now>>,
           \A r \in Row : status[r] = "none" => status'[r] = "none"
    PROVE  DatesInOrder'
  BY DEF Inv, DatesInOrder, SameOrder

\* A poll takes the oldest pending rows, and no row is older than one it has to
\* come after.
LEMMA PollInv ==
    ASSUME Inv, TypeOK', Poll
    PROVE  Inv'
  <1>1. SameOrder /\ UNCHANGED rows /\ UNCHANGED kafka
    BY SameRows DEF Poll
  <1>2. DatesInOrder' /\ LateOrder' /\ CausalOrder' /\ MarkedIsStored'
    BY <1>1, DatesStable, NothingStored DEF rows, kafka, Inv, MarkedIsStored
  <1>3. PICK b \in Batches :
           relay' = IF b = <<>> THEN Polling ELSE [pc |-> "publish", batch |-> b]
    BY DEF Poll
  <1>4. relay'.batch = b /\ relay'.pc # "mark"
    BY <1>3 DEF Polling
  <1>5. b \in Seq(Row) /\ DOMAIN b = 1..Len(b) /\ Len(b) \in Nat
    BY BatchIsSeq, LenProperties
  <1>6. \A i \in DOMAIN b : b[i] \in Row /\ status[b[i]] = "pending"
    <2>1. \A i \in 1..Len(b) : b[i] \in Unpublished
      BY BatchIsSeq, ElementOfSeq
    <2> QED
      BY <1>5, <2>1 DEF Unpublished
  <1>7. BatchIsCommitted'
    BY <1>1, <1>4, <1>6 DEF BatchIsCommitted, Committed, At, rows
  <1>8. BatchOrder'
    <2> SUFFICES ASSUME NEW q \in Row, NEW i \in DOMAIN b, Before(q, b[i]),
                        status[q] # "published"
                 PROVE  \E j \in 1..(i - 1) : b[j] = q
      BY <1>1, <1>4 DEF BatchOrder, SameOrder, rows, Before
    <2>1. q \in Unpublished
      BY DEF Before, Unpublished
    <2>2. created[q] < created[b[i]]
      <3>1. created[q] <= committed[q] /\ committed[q] < created[b[i]]
        BY DEF Before, Inv, DatesInOrder, Committed
      <3>2. created[q] \in Nat /\ committed[q] \in Nat /\ created[b[i]] \in Nat
        BY <1>6 DEF Inv, TypeOK
      <3> QED
        BY <3>1, <3>2
    <2>3. PICK j \in DOMAIN b : b[j] = q
      <3>1. ASSUME \A j \in DOMAIN b : b[j] # q PROVE created[b[i]] <= created[q]
        BY <2>1, <3>1 DEF Batches
      <3>2. created[q] \in Nat /\ created[b[i]] \in Nat
        BY <1>6 DEF Inv, TypeOK
      <3> QED
        BY <2>2, <3>1, <3>2
    <2>4. ~(i < j)
      <3>1. i < j => created[b[i]] <= created[q]
        BY <2>3 DEF Batches
      <3>2. created[q] \in Nat /\ created[b[i]] \in Nat
        BY <1>6 DEF Inv, TypeOK
      <3> QED
        BY <2>2, <3>1, <3>2
    <2>5. i # j
      <3>1. created[q] \in Nat
        BY DEF Inv, TypeOK
      <3> QED
        BY <2>2, <2>3, <3>1
    <2> QED
      BY <1>5, <2>3, <2>4, <2>5
  <1> QED
    BY <1>2, <1>7, <1>8 DEF Inv

LEMMA PublishInv ==
    ASSUME Inv, TypeOK', Publish
    PROVE  Inv'
  <1>1. ~At("poll")
    BY DEF Publish, At
  <1>2. SameOrder /\ UNCHANGED <<rows, late>>
    BY SameRows DEF Publish
  <1>3. /\ Current \in Row
        /\ LateOrder' /\ CausalOrder' /\ MarkedIsStored'
        /\ \A r \in Row : Stored(r)' <=> Stored(r) \/ r = Current
    BY <1>1, <1>2, CurrentIsNext, OneStored DEF Publish
  <1>4. DatesInOrder'
    BY <1>2, DatesStable DEF rows
  <1>5. relay'.batch = relay.batch
    BY <1>1, CurrentIsRow DEF Publish, Inv, TypeOK, Polling, At
  <1>6. Current' = Current
    BY <1>5 DEF Current
  <1>7. BatchIsCommitted'
    <2>1. \A i \in DOMAIN relay'.batch : status'[relay'.batch[i]] \in {"pending", "published"}
      BY <1>2, <1>5 DEF Inv, BatchIsCommitted, Committed, rows
    <2>2. PICK c \in Row : c = Current
      BY <1>3
    <2>3. Stored(c)' /\ Current' = c
      BY <1>3, <1>6, <2>2
    <2> QED
      BY <2>1, <2>3 DEF BatchIsCommitted, Committed, Stored
  <1>8. BatchOrder'
    BY <1>2, <1>5 DEF Inv, BatchOrder, Before, rows
  <1> QED
    BY <1>3, <1>4, <1>7, <1>8 DEF Inv

\* Back to the poll, there is no batch to speak of.
LEMMA PollingKnowsNothing ==
    ASSUME relay' = Polling
    PROVE  BatchIsCommitted' /\ BatchOrder'
  <1>1. relay'.batch = <<>> /\ relay'.pc = "poll" /\ DOMAIN <<>> = {}
    BY DEF Polling
  <1> QED
    BY <1>1 DEF BatchIsCommitted, BatchOrder, At

\* Whatever a request leaves in Kafka comes after what it has to come after.
LEMMA NoAckInv ==
    ASSUME Inv, NoAck
    PROVE  DatesInOrder' /\ LateOrder' /\ CausalOrder' /\ MarkedIsStored'
  <1>1. ~At("poll") /\ UNCHANGED rows
    BY DEF NoAck, At
  <1>2. SameOrder
    BY <1>1, SameRows
  <1>3. DatesInOrder'
    BY <1>1, <1>2, DatesStable DEF rows
  <1>4. CASE UNCHANGED kafka
    BY <1>1, <1>2, <1>3, <1>4, NothingStored DEF rows, kafka, Inv, MarkedIsStored
  <1>5. CASE log' = Append(log, Current) /\ UNCHANGED late
    BY <1>1, <1>3, <1>5, CurrentIsNext, OneStored
  <1>6. CASE late' = [late EXCEPT ![Current] = @ + 1] /\ UNCHANGED log
    <2>1. /\ Current \in Row /\ Committed(Current)
          /\ \A q \in Row : Before(q, Current) => Stored(q)
      BY <1>1, CurrentIsNext
    <2>2. \A r \in Row : late'[r] > 0 => late[r] > 0 \/ r = Current
      BY <1>6, <2>1 DEF Inv, TypeOK
    <2>3. \A r \in Row : Stored(r)' <=> Stored(r)
      BY <1>6 DEF Stored
    <2>4. LateOrder'
      <3> SUFFICES ASSUME NEW q \in Row, NEW r \in Row, Before(q, r), late'[r] > 0
                   PROVE  Stored(q)
        BY <1>2, <2>3 DEF LateOrder, SameOrder
      <3> QED
        BY <2>1, <2>2 DEF Inv, LateOrder
    <2>5. CausalOrder'
      BY <1>2, <1>6 DEF Inv, CausalOrder, SameOrder
    <2>6. MarkedIsStored'
      BY <1>1, <2>1, <2>2, <2>3 DEF rows, Inv, MarkedIsStored, Committed
    <2> QED
      BY <1>3, <2>4, <2>5, <2>6
  <1> QED
    BY <1>4, <1>5, <1>6 DEF NoAck, Unacknowledged

LEMMA RetryInv ==
    ASSUME Inv, TypeOK', Retry
    PROVE  Inv'
  <1>1. NoAck /\ ~At("mark") /\ UNCHANGED <<rows, relay>>
    BY DEF Retry, NoAck, At
  <1>2. BatchIsCommitted' /\ BatchOrder'
    BY <1>1 DEF Inv, BatchIsCommitted, BatchOrder, Committed, Before, At, rows
  <1> QED
    BY <1>1, <1>2, NoAckInv DEF Inv

LEMMA PublishFailsInv ==
    ASSUME Inv, TypeOK', PublishFails
    PROVE  Inv'
  BY NoAckInv, PollingKnowsNothing DEF PublishFails, Inv

LEMMA MarkInv ==
    ASSUME Inv, TypeOK', Mark
    PROVE  Inv'
  <1>1. ~At("poll") /\ At("mark")
    BY DEF Mark, At
  <1>2. /\ SameOrder /\ status'[Current] = "published"
        /\ \A r \in Row : status'[r] = "published" => status[r] = "published" \/ r = Current
        /\ UNCHANGED <<created, committed, now, kafka>>
    BY <1>1, MarkSameOrder DEF Mark, MarkCurrent
  <1>3. /\ Current = relay.batch[1] /\ Current \in Row /\ Stored(Current)
        /\ DOMAIN relay.batch = 1..Len(relay.batch) /\ relay.batch \in Seq(Row)
        /\ Len(relay.batch) \in Nat
    BY <1>1, CurrentIsRow, LenProperties DEF Inv, BatchIsCommitted
  <1>4. DatesInOrder'
    <2>1. Committed(Current)
      BY <1>1, CurrentIsNext
    <2>2. \A r \in Row : status[r] = "none" => status'[r] = "none"
      BY <1>3, <2>1 DEF Mark, MarkCurrent, Inv, TypeOK, Committed
    <2> QED
      BY <1>2, <2>2, DatesStable
  <1>5. LateOrder' /\ CausalOrder' /\ MarkedIsStored'
    BY <1>2, <1>3, NothingStored DEF kafka, Inv, MarkedIsStored
  <1>6. CASE relay' = Polling
    BY <1>4, <1>5, <1>6, PollingKnowsNothing DEF Inv
  <1>7. CASE /\ relay'.pc = "publish"
             /\ DOMAIN relay'.batch = 1..(Len(relay.batch) - 1)
             /\ \A i \in DOMAIN relay'.batch : relay'.batch[i] = relay.batch[i + 1]
    <2>1. \A i \in DOMAIN relay'.batch :
             /\ i + 1 \in DOMAIN relay.batch /\ relay.batch[i + 1] \in Row
             /\ relay'.batch[i] = relay.batch[i + 1]
      BY <1>3, <1>7, ElementOfSeq
    <2>2. BatchIsCommitted'
      BY <1>2, <1>7, <2>1 DEF Inv, BatchIsCommitted, SameOrder, Committed, At
    <2>3. BatchOrder'
      <3> SUFFICES ASSUME NEW q \in Row, NEW i \in DOMAIN relay'.batch,
                          Before(q, relay.batch[i + 1]), status'[q] # "published"
                   PROVE  \E j \in 1..(i - 1) : relay'.batch[j] = q
        BY <1>2, <2>1 DEF BatchOrder, SameOrder, Before
      <3>1. status[q] # "published" /\ q # Current
        BY <1>2 DEF SameOrder
      <3>2. PICK j \in 1..i : relay.batch[j] = q
        BY <1>7, <2>1, <3>1 DEF Inv, BatchOrder
      <3>3. j # 1
        BY <1>3, <3>1, <3>2
      <3>4. j - 1 \in 1..(i - 1) /\ j - 1 \in DOMAIN relay'.batch
        BY <1>3, <1>7, <3>2, <3>3
      <3> QED
        BY <1>7, <3>2, <3>4
    <2> QED
      BY <1>4, <1>5, <2>2, <2>3 DEF Inv
  <1> QED
    BY <1>1, <1>6, <1>7, AdvanceIsTail DEF Mark, Inv

LEMMA MarkFailsInv ==
    ASSUME Inv, TypeOK', MarkFails
    PROVE  Inv'
  <1>1. ~At("poll") /\ At("mark") /\ relay' = Polling
    BY DEF MarkFails, At
  <1>2. Current \in Row /\ Stored(Current) /\ Committed(Current)
    BY <1>1, CurrentIsRow, CurrentIsNext DEF Inv, BatchIsCommitted
  <1>3. /\ SameOrder /\ UNCHANGED <<created, committed, now, kafka>>
        /\ \A r \in Row : status'[r] = "published" => status[r] = "published" \/ r = Current
        /\ \A r \in Row : status[r] = "none" => status'[r] = "none"
    <2>1. CASE MarkCurrent
      BY <1>1, <1>2, <2>1, MarkSameOrder DEF MarkFails, MarkCurrent, Inv, TypeOK, Committed
    <2>2. CASE UNCHANGED rows
      BY <2>2, SameRows DEF MarkFails, rows
    <2> QED
      BY <2>1, <2>2 DEF MarkFails
  <1>4. LateOrder' /\ CausalOrder' /\ MarkedIsStored'
    BY <1>2, <1>3, NothingStored DEF kafka, Inv, MarkedIsStored
  <1> QED
    BY <1>1, <1>3, <1>4, DatesStable, PollingKnowsNothing DEF Inv

LEMMA LateStoreInv ==
    ASSUME Inv, TypeOK', NEW r \in Row, LateStore(r)
    PROVE  Inv'
  <1>1. SameOrder /\ UNCHANGED rows /\ UNCHANGED relay
    BY SameRows DEF LateStore
  <1>2. Committed(r) /\ \A q \in Row : Before(q, r) => Stored(q)
    BY DEF LateStore, Inv, LateOrder, MarkedIsStored, Committed
  <1>3. \A q \in Row : late'[q] > 0 => late[q] > 0
    BY DEF LateStore, Inv, TypeOK
  <1>4. /\ LateOrder' /\ CausalOrder' /\ MarkedIsStored'
        /\ \A q \in Row : Stored(q)' <=> Stored(q) \/ q = r
    BY <1>1, <1>2, <1>3, OneStored DEF LateStore
  <1>5. DatesInOrder'
    BY <1>1, DatesStable DEF rows
  <1>6. BatchOrder'
    BY <1>1 DEF Inv, BatchOrder, Before, rows
  <1>7. BatchIsCommitted'
    <2>1. At("mark") => \E c \in Row : c = Current /\ Stored(c)'
      BY <1>4, CurrentIsRow DEF Inv, BatchIsCommitted, At
    <2> QED
      BY <1>1, <2>1 DEF Inv, BatchIsCommitted, Committed, At, Current, rows, Stored
  <1> QED
    BY <1>4, <1>5, <1>6, <1>7 DEF Inv

LEMMA NextInv == Inv /\ [Next]_vars => Inv'
  <1> SUFFICES ASSUME Inv, [Next]_vars PROVE Inv'
    OBVIOUS
  <1>1. TypeOK'
    BY NextTypeOK DEF Inv
  <1>2. CASE UNCHANGED vars
    <2>1. SameOrder /\ UNCHANGED <<rows, kafka, relay>>
      BY <1>2, SameRows DEF vars
    <2>2. BatchIsCommitted' /\ BatchOrder'
      BY <2>1 DEF Inv, BatchIsCommitted, BatchOrder, Committed, At, Current, Stored, Before,
                  rows, kafka
    <2> QED
      BY <1>1, <2>1, <2>2, DatesStable, NothingStored DEF rows, kafka, Inv, MarkedIsStored
  <1> QED
    BY <1>1, <1>2, HandlersInv, PollInv, PublishInv, RetryInv, PublishFailsInv, MarkInv,
       MarkFailsInv, LateStoreInv DEF Next, Relay

LEMMA Invariance == Spec => []Inv
  BY InitInv, NextInv, PTL DEF Spec

\* A row is marked published only once Kafka has stored its message, and only
\* messages of committed transactions are ever stored: the at-least-once half of
\* the outbox, through every failed send, lost acknowledgement and restart.
THEOREM MarkedAfterStored == Spec => []MarkedIsStored
  <1>1. Inv => MarkedIsStored
    BY DEF Inv
  <1> QED
    BY <1>1, Invariance, PTL

\* A message never overtakes one whose transaction had committed before its own
\* began, although rows are dated by the start of their transactions and batches
\* are cut off at BATCH_SIZE.
THEOREM NoOvertaking == Spec => []CausalOrder
  <1>1. Inv => CausalOrder
    BY DEF Inv
  <1> QED
    BY <1>1, Invariance, PTL
-----------------------------------------------------------------------------
(* The copies of a message                                                 *)

CopiesIn(s, r) == Cardinality({i \in DOMAIN s : s[i] = r})

\* The batch holds each of its rows once, and all of them are still unpublished.
BatchIsPending ==
    /\ \A i \in DOMAIN relay.batch : status[relay.batch[i]] = "pending"
    /\ \A i, j \in DOMAIN relay.batch : relay.batch[i] = relay.batch[j] => i = j

\* The relay waits for r to be marked: its message is acknowledged.
Marking(r) == At("mark") /\ Current = r

\* The copies of a message that was never acknowledged come from its faults only.
Budget(r) ==
    /\ Copies(r) + late[r] <= 1 + faults[r]
    /\ status[r] = "published" \/ Marking(r) \/ Copies(r) + late[r] <= faults[r]

CopyInv == TypeOK /\ BatchIsPending /\ \A r \in Row : Budget(r)

LEMMA CopiesType ==
    ASSUME NEW s \in Seq(Row), NEW r
    PROVE  CopiesIn(s, r) \in Nat /\ IsFiniteSet({i \in DOMAIN s : s[i] = r})
  <1>1. DOMAIN s = 1..Len(s) /\ Len(s) \in Nat
    BY LenProperties
  <1>2. IsFiniteSet(DOMAIN s)
    BY <1>1, FS_Interval
  <1>3. IsFiniteSet({i \in DOMAIN s : s[i] = r})
    BY <1>2, FS_Subset
  <1> QED
    BY <1>3, FS_CardinalityType DEF CopiesIn

LEMMA CopiesAppend ==
    ASSUME NEW s \in Seq(Row), NEW x \in Row, NEW r \in Row
    PROVE  CopiesIn(Append(s, x), r) = CopiesIn(s, r) + (IF r = x THEN 1 ELSE 0)
  <1> DEFINE n == Len(s)
             Places == {i \in DOMAIN s : s[i] = r}
             After == {i \in DOMAIN Append(s, x) : Append(s, x)[i] = r}
  <1>1. n \in Nat /\ DOMAIN s = 1..n
    BY LenProperties
  <1>2. /\ DOMAIN Append(s, x) = 1..(n + 1)
        /\ \A i \in 1..n : Append(s, x)[i] = s[i]
        /\ Append(s, x)[n + 1] = x
    BY AppendProperties
  <1>3. IsFiniteSet(Places) /\ CopiesIn(s, r) = Cardinality(Places) /\ CopiesIn(s, r) \in Nat
    BY CopiesType DEF CopiesIn
  <1>4. CASE r = x
    <2>1. After = Places \cup {n + 1}
      BY <1>1, <1>2, <1>4
    <2>2. n + 1 \notin Places
      BY <1>1
    <2>3. Cardinality(Places \cup {n + 1}) = Cardinality(Places) + 1
      BY <1>3, <2>2, FS_AddElement
    <2> QED
      BY <1>4, <2>1, <2>3 DEF CopiesIn
  <1>5. CASE r # x
    <2>1. After = Places
      BY <1>1, <1>2, <1>5
    <2>2. CopiesIn(Append(s, x), r) = CopiesIn(s, r)
      BY <2>1 DEF CopiesIn
    <2> QED
      BY <1>3, <1>5, <2>2
  <1> QED
    BY <1>4, <1>5

\* The counts of a row, for the arithmetic below.
LEMMA CountsAreNat ==
    ASSUME TypeOK, NEW r \in Row
    PROVE  /\ Copies(r) = CopiesIn(log, r) /\ Copies(r)' = CopiesIn(log', r)
           /\ Copies(r) \in Nat /\ late[r] \in Nat /\ faults[r] \in Nat
  <1>1. Copies(r) = CopiesIn(log, r) /\ Copies(r)' = CopiesIn(log', r)
    BY DEF Copies, CopiesIn
  <1>2. CopiesIn(log, r) \in Nat
    BY CopiesType DEF TypeOK
  <1> QED
    BY <1>1, <1>2 DEF TypeOK

\* A step that leaves the counts of a row alone.
LEMMA SameBudget ==
    ASSUME TypeOK, NEW r \in Row, Budget(r),
           UNCHANGED log, late'[r] = late[r], faults'[r] = faults[r],
           status[r] = "published" \/ Marking(r) =>
               status'[r] = "published" \/ Marking(r)'
    PROVE  Budget(r)'
  <1>1. Copies(r)' = Copies(r)
    BY CountsAreNat
  <1> QED
    BY <1>1 DEF Budget

\* One more stored, and one less to be stored late.
LEMMA AppendCounts ==
    ASSUME TypeOK, NEW x \in Row, log' = Append(log, x), NEW r \in Row
    PROVE  Copies(r)' = Copies(r) + (IF r = x THEN 1 ELSE 0) /\ Copies(r) \in Nat
  <1>1. CopiesIn(log', r) = CopiesIn(log, r) + (IF r = x THEN 1 ELSE 0)
    BY CopiesAppend DEF TypeOK
  <1> QED
    BY <1>1, CountsAreNat

LEMMA InitCopyInv == Init => CopyInv
  <1> SUFFICES ASSUME Init PROVE CopyInv
    OBVIOUS
  <1>1. TypeOK
    BY InitInv DEF Inv
  <1>2. BatchIsPending
    BY DEF Init, BatchIsPending, Polling
  <1>3. \A r \in Row : Copies(r) = 0
    <2>1. {i \in DOMAIN log : TRUE} = {}
      BY DEF Init
    <2>2. \A r \in Row : {i \in DOMAIN log : log[i] = r} = {}
      BY <2>1
    <2> QED
      BY <2>2, FS_EmptySet DEF Copies
  <1>4. \A r \in Row : Budget(r)
    BY <1>3 DEF Init, Budget
  <1> QED
    BY <1>1, <1>2, <1>4 DEF CopyInv

LEMMA HandlersCopies ==
    ASSUME CopyInv, Handlers
    PROVE  BatchIsPending' /\ \A r \in Row : Budget(r)'
  <1>1. /\ UNCHANGED <<relay, log, late, faults>>
        /\ \A r \in Row : status[r] \in {"pending", "published"} => status'[r] = status[r]
    BY DEF Handlers, Begin, Commit, Rollback, kafka, CopyInv, TypeOK
  <1>2. \A i \in DOMAIN relay.batch : relay.batch[i] \in Row
    BY CurrentIsRow DEF CopyInv, Polling, TypeOK, At
  <1>3. BatchIsPending'
    BY <1>1, <1>2 DEF CopyInv, BatchIsPending
  <1>4. ASSUME NEW r \in Row PROVE Budget(r)'
    <2>1. Marking(r) => Marking(r)'
      BY <1>1 DEF Marking, At, Current
    <2> QED
      BY <1>1, <2>1, SameBudget DEF CopyInv
  <1> QED
    BY <1>3, <1>4

LEMMA PollCopies ==
    ASSUME CopyInv, Poll
    PROVE  BatchIsPending' /\ \A r \in Row : Budget(r)'
  <1>1. UNCHANGED <<rows, kafka, faults>> /\ At("poll")
    BY DEF Poll
  <1>2. PICK b \in Batches :
           relay' = IF b = <<>> THEN Polling ELSE [pc |-> "publish", batch |-> b]
    BY DEF Poll
  <1>3. relay'.batch = b
    BY <1>2 DEF Polling
  <1>4. \A i \in DOMAIN b : status[b[i]] = "pending"
    <2>1. \A i \in 1..Len(b) : b[i] \in Unpublished
      BY BatchIsSeq, ElementOfSeq
    <2> QED
      BY <2>1, BatchIsSeq DEF Unpublished
  <1>5. \A i, j \in DOMAIN b : b[i] = b[j] => i = j
    <2> SUFFICES ASSUME NEW i \in DOMAIN b, NEW j \in DOMAIN b, b[i] = b[j] PROVE i = j
      OBVIOUS
    <2>1. ~(i < j) /\ ~(j < i)
      BY DEF Batches
    <2>2. i \in Int /\ j \in Int
      BY BatchIsSeq
    <2> QED
      BY <2>1, <2>2
  <1>6. BatchIsPending'
    BY <1>1, <1>3, <1>4, <1>5 DEF BatchIsPending, rows
  <1>7. \A r \in Row : ~Marking(r)
    BY <1>1 DEF Marking, At
  <1> QED
    BY <1>1, <1>6, <1>7, SameBudget DEF CopyInv, rows, kafka

LEMMA PublishCopies ==
    ASSUME CopyInv, Publish
    PROVE  BatchIsPending' /\ \A r \in Row : Budget(r)'
  <1>1. ~At("poll") /\ ~At("mark")
    BY DEF Publish, At
  <1>2. PICK c \in Row : c = Current
    BY <1>1, CurrentIsRow DEF CopyInv
  <1>3. /\ UNCHANGED <<rows, late, faults>> /\ log' = Append(log, c)
        /\ relay'.batch = relay.batch /\ relay'.pc = "mark"
    BY <1>1, <1>2, CurrentIsRow DEF Publish, CopyInv, TypeOK, Polling, At
  <1>4. status[c] = "pending"
    BY <1>1, <1>2, CurrentIsRow DEF CopyInv, BatchIsPending
  <1>5. BatchIsPending'
    BY <1>3 DEF CopyInv, BatchIsPending, rows
  <1>6. Marking(c)'
    BY <1>2, <1>3 DEF Marking, At, Current
  <1>7. ASSUME NEW r \in Row PROVE Budget(r)'
    <2>1. Budget(r) /\ ~Marking(r) /\ late[r] \in Nat /\ faults[r] \in Nat
      BY <1>1, CountsAreNat DEF CopyInv, Marking
    <2>2. Copies(r)' = Copies(r) + (IF r = c THEN 1 ELSE 0) /\ Copies(r) \in Nat
      BY <1>3, AppendCounts DEF CopyInv
    <2>3. late'[r] = late[r] /\ faults'[r] = faults[r] /\ status'[r] = status[r]
      BY <1>3 DEF rows
    <2>4. CASE r = c
      BY <1>4, <1>6, <2>1, <2>2, <2>3, <2>4 DEF Budget
    <2>5. CASE r # c
      BY <2>1, <2>2, <2>3, <2>5 DEF Budget
    <2> QED
      BY <2>4, <2>5
  <1> QED
    BY <1>5, <1>7

\* A request leaves one copy more at most, stored or to be stored late.
LEMMA UnacknowledgedCounts ==
    ASSUME TypeOK, NEW c \in Row, c = Current, Unacknowledged, NEW r \in Row
    PROVE  /\ Copies(r)' + late'[r] <= Copies(r) + late[r] + (IF r = c THEN 1 ELSE 0)
           /\ Copies(r)' \in Nat /\ late'[r] \in Nat
  <1>1. Copies(r) = CopiesIn(log, r) /\ Copies(r)' = CopiesIn(log', r)
        /\ Copies(r) \in Nat /\ late[r] \in Nat
    BY CountsAreNat
  <1>2. CASE UNCHANGED kafka
    BY <1>1, <1>2 DEF kafka
  <1>3. CASE log' = Append(log, Current) /\ UNCHANGED late
    <2>1. Copies(r)' = Copies(r) + (IF r = c THEN 1 ELSE 0)
      BY <1>3, AppendCounts
    <2> QED
      BY <1>1, <1>3, <2>1
  <1>4. CASE late' = [late EXCEPT ![Current] = @ + 1] /\ UNCHANGED log
    <2>1. late'[r] = late[r] + (IF r = c THEN 1 ELSE 0)
      BY <1>4 DEF TypeOK
    <2> QED
      BY <1>1, <1>4, <2>1
  <1> QED
    BY <1>2, <1>3, <1>4 DEF Unacknowledged

LEMMA PollingIsPending == ASSUME relay' = Polling PROVE BatchIsPending'
  <1>1. relay'.batch = <<>> /\ DOMAIN <<>> = {}
    BY DEF Polling
  <1> QED
    BY <1>1 DEF BatchIsPending

\* A request without an acknowledgement is paid for by the fault it is.
LEMMA NoAckCopies ==
    ASSUME CopyInv, NoAck
    PROVE  \A r \in Row : Budget(r)'
  <1>1. ~At("poll") /\ ~At("mark") /\ UNCHANGED rows
    BY DEF NoAck, At
  <1>2. PICK c \in Row : c = Current
    BY <1>1, CurrentIsRow DEF CopyInv
  <1>3. faults' = [faults EXCEPT ![c] = @ + 1] /\ Unacknowledged
    BY <1>2 DEF NoAck, Fault
  <1>4. status[c] = "pending"
    BY <1>1, <1>2, CurrentIsRow DEF CopyInv, BatchIsPending
  <1>5. ASSUME NEW r \in Row PROVE Budget(r)'
    <2>1. /\ Budget(r) /\ ~Marking(r)
          /\ Copies(r) \in Nat /\ late[r] \in Nat /\ faults[r] \in Nat
      BY <1>1, CountsAreNat DEF CopyInv, Marking
    <2>2. /\ Copies(r)' + late'[r] <= Copies(r) + late[r] + (IF r = c THEN 1 ELSE 0)
          /\ Copies(r)' \in Nat /\ late'[r] \in Nat
      BY <1>2, <1>3, UnacknowledgedCounts DEF CopyInv
    <2>3. faults'[r] = faults[r] + (IF r = c THEN 1 ELSE 0) /\ status'[r] = status[r]
      BY <1>1, <1>3 DEF rows, CopyInv, TypeOK
    <2>4. CASE r = c
      BY <1>4, <2>1, <2>2, <2>3, <2>4 DEF Budget
    <2>5. CASE r # c
      BY <2>1, <2>2, <2>3, <2>5 DEF Budget
    <2> QED
      BY <2>4, <2>5
  <1> QED
    BY <1>5

LEMMA RetryCopies ==
    ASSUME CopyInv, Retry
    PROVE  BatchIsPending' /\ \A r \in Row : Budget(r)'
  <1>1. BatchIsPending'
    BY DEF Retry, NoAck, CopyInv, BatchIsPending, rows
  <1> QED
    BY <1>1, NoAckCopies DEF Retry

LEMMA PublishFailsCopies ==
    ASSUME CopyInv, PublishFails
    PROVE  BatchIsPending' /\ \A r \in Row : Budget(r)'
  BY NoAckCopies, PollingIsPending DEF PublishFails

LEMMA MarkCopies ==
    ASSUME CopyInv, Mark
    PROVE  BatchIsPending' /\ \A r \in Row : Budget(r)'
  <1>1. ~At("poll") /\ At("mark") /\ relay' = Advance /\ UNCHANGED <<kafka, faults>>
    BY DEF Mark, At
  <1>2. PICK c \in Row : c = Current
    BY <1>1, CurrentIsRow DEF CopyInv
  <1>3. \A r \in Row : status'[r] = IF r = c THEN "published" ELSE status[r]
    BY <1>2 DEF Mark, MarkCurrent, CopyInv, TypeOK
  <1>4. BatchIsPending'
    <2>1. CASE relay' = Polling
      BY <2>1, PollingIsPending
    <2>2. CASE /\ DOMAIN relay'.batch = 1..(Len(relay.batch) - 1)
               /\ \A i \in DOMAIN relay'.batch : relay'.batch[i] = relay.batch[i + 1]
      <3>1. /\ relay.batch \in Seq(Row) /\ Len(relay.batch) \in Nat
            /\ DOMAIN relay.batch = 1..Len(relay.batch)
            /\ 1 \in DOMAIN relay.batch /\ relay.batch[1] = c
        BY <1>1, <1>2, CurrentIsRow, LenProperties DEF CopyInv
      <3>2. \A i \in DOMAIN relay'.batch :
               /\ i \in Nat /\ i + 1 \in DOMAIN relay.batch /\ i + 1 # 1
               /\ relay'.batch[i] = relay.batch[i + 1]
        BY <2>2, <3>1
      <3>3. \A i \in DOMAIN relay'.batch : relay.batch[i + 1] \in Row /\ relay.batch[i + 1] # c
        BY <3>1, <3>2, ElementOfSeq DEF CopyInv, BatchIsPending
      <3>4. \A i \in DOMAIN relay'.batch : status'[relay'.batch[i]] = "pending"
        BY <1>3, <3>2, <3>3 DEF CopyInv, BatchIsPending
      <3>5. \A i, j \in DOMAIN relay'.batch : relay'.batch[i] = relay'.batch[j] => i = j
        <4> SUFFICES ASSUME NEW i \in DOMAIN relay'.batch, NEW j \in DOMAIN relay'.batch,
                            relay'.batch[i] = relay'.batch[j]
                     PROVE  i = j
          OBVIOUS
        <4>1. i + 1 = j + 1
          BY <3>2 DEF CopyInv, BatchIsPending
        <4> QED
          BY <3>2, <4>1
      <3> QED
        BY <3>4, <3>5 DEF BatchIsPending
    <2> QED
      BY <1>1, <2>1, <2>2, AdvanceIsTail DEF CopyInv
  <1>5. ASSUME NEW r \in Row PROVE Budget(r)'
    <2>1. Marking(r) => status'[r] = "published"
      BY <1>2, <1>3 DEF Marking
    <2>2. status[r] = "published" => status'[r] = "published"
      BY <1>3
    <2> QED
      BY <1>1, <2>1, <2>2, SameBudget DEF CopyInv, kafka
  <1> QED
    BY <1>4, <1>5

LEMMA MarkFailsCopies ==
    ASSUME CopyInv, MarkFails
    PROVE  BatchIsPending' /\ \A r \in Row : Budget(r)'
  <1>1. ~At("poll") /\ At("mark") /\ relay' = Polling /\ UNCHANGED kafka
    BY DEF MarkFails, At
  <1>2. PICK c \in Row : c = Current
    BY <1>1, CurrentIsRow DEF CopyInv
  <1>3. faults' = [faults EXCEPT ![c] = @ + 1]
    BY <1>2 DEF MarkFails, Fault
  <1>4. \A r \in Row : r # c => status'[r] = status[r]
    BY <1>2 DEF MarkFails, MarkCurrent, rows, CopyInv, TypeOK
  <1>5. ASSUME NEW r \in Row PROVE Budget(r)'
    <2>1. /\ Budget(r) /\ Copies(r)' = Copies(r) /\ late'[r] = late[r]
          /\ Copies(r) \in Nat /\ late[r] \in Nat /\ faults[r] \in Nat
      BY <1>1, CountsAreNat DEF CopyInv, kafka
    <2>2. CASE r = c
      <3>1. faults'[r] = faults[r] + 1
        BY <1>3, <2>2 DEF CopyInv, TypeOK
      <3> QED
        BY <2>1, <3>1 DEF Budget
    <2>3. CASE r # c
      <3>1. faults'[r] = faults[r] /\ ~Marking(r)
        BY <1>2, <1>3, <2>3 DEF CopyInv, TypeOK, Marking
      <3> QED
        BY <1>4, <2>1, <2>3, <3>1 DEF Budget
    <2> QED
      BY <2>2, <2>3
  <1> QED
    BY <1>1, <1>5, PollingIsPending

LEMMA LateStoreCopies ==
    ASSUME CopyInv, NEW x \in Row, LateStore(x)
    PROVE  BatchIsPending' /\ \A r \in Row : Budget(r)'
  <1>1. UNCHANGED <<rows, relay, faults>> /\ log' = Append(log, x)
    BY DEF LateStore
  <1>2. BatchIsPending'
    BY <1>1 DEF CopyInv, BatchIsPending, rows
  <1>3. ASSUME NEW r \in Row PROVE Budget(r)'
    <2>1. Budget(r) /\ late[r] \in Nat /\ faults[r] \in Nat
      BY CountsAreNat DEF CopyInv
    <2>2. Copies(r)' = Copies(r) + (IF r = x THEN 1 ELSE 0) /\ Copies(r) \in Nat
      BY <1>1, AppendCounts DEF CopyInv
    <2>3. late'[r] = late[r] - (IF r = x THEN 1 ELSE 0)
      BY DEF LateStore, CopyInv, TypeOK
    <2>4. Copies(r)' + late'[r] = Copies(r) + late[r]
      BY <2>1, <2>2, <2>3
    <2>5. Marking(r)' <=> Marking(r)
      BY <1>1 DEF Marking, At, Current
    <2> QED
      BY <1>1, <2>1, <2>4, <2>5 DEF Budget, rows
  <1> QED
    BY <1>2, <1>3

LEMMA NextCopyInv == CopyInv /\ [Next]_vars => CopyInv'
  <1> SUFFICES ASSUME CopyInv, [Next]_vars PROVE CopyInv'
    OBVIOUS
  <1>1. TypeOK'
    BY NextTypeOK DEF CopyInv
  <1>2. CASE UNCHANGED vars
    <2>1. UNCHANGED <<rows, relay, log, late, faults>>
      BY <1>2 DEF vars, kafka
    <2>2. BatchIsPending'
      BY <2>1 DEF CopyInv, BatchIsPending, rows
    <2>3. ASSUME NEW r \in Row PROVE Budget(r)'
      <3>1. Marking(r) => Marking(r)'
        BY <2>1 DEF Marking, At, Current
      <3> QED
        BY <2>1, <3>1, SameBudget DEF CopyInv, rows
    <2> QED
      BY <1>1, <2>2, <2>3 DEF CopyInv
  <1>3. CASE Next
    <2>1. BatchIsPending' /\ \A r \in Row : Budget(r)'
      BY <1>3, HandlersCopies, PollCopies, PublishCopies, RetryCopies, PublishFailsCopies,
         MarkCopies, MarkFailsCopies, LateStoreCopies DEF Next, Relay
    <2> QED
      BY <1>1, <2>1 DEF CopyInv
  <1> QED
    BY <1>2, <1>3

\* Kafka stores a message once, and once more at most for each request that was
\* not acknowledged and each mark that failed: a send that is Ok adds one copy to
\* those of its retries, a poll never takes up a row that is on its way to be
\* marked, nor a batch the same row twice.
THEOREM CopiesBounded == Spec => []CopiesAccounted
  <1>1. CopyInv => CopiesAccounted
    BY DEF CopyInv, Budget, CopiesAccounted
  <1> QED
    BY <1>1, InitCopyInv, NextCopyInv, PTL DEF Spec
-----------------------------------------------------------------------------
(* What a step does to the outbox and to Kafka, for those that use them    *)

LEMMA StoresOne ==
    ASSUME TypeOK, [Next]_vars
    PROVE  log' = log \/ \E x \in Row : log' = Append(log, x)
  <1>1. CASE Handlers
    BY <1>1 DEF Handlers, Begin, Commit, Rollback, kafka
  <1>2. CASE Publish \/ Retry \/ PublishFails
    <2>1. Current \in Row
      BY <1>2, CurrentIsRow DEF Publish, Retry, PublishFails, NoAck, At
    <2> QED
      BY <1>2, <2>1 DEF Publish, Retry, PublishFails, NoAck, Unacknowledged, kafka
  <1>3. CASE Poll \/ Mark \/ MarkFails \/ UNCHANGED vars
    BY <1>3 DEF Poll, Mark, MarkFails, vars, kafka
  <1>4. ASSUME NEW r \in Row, LateStore(r) PROVE log' = Append(log, r)
    BY <1>4 DEF LateStore
  <1> QED
    BY <1>1, <1>2, <1>3, <1>4 DEF Next, Relay

\* A step commits one row at most, and a committed row stays so.
LEMMA CommitsOne ==
    ASSUME Inv, [Next]_vars
    PROVE  /\ \A r \in Row : Committed(r) => Committed(r)'
           /\ \E x : \A r \in Row : Committed(r)' => Committed(r) \/ r = x
  <1>1. CASE Handlers
    <2>1. PICK x \in Row : Begin(x) \/ Commit(x) \/ Rollback(x)
      BY <1>1 DEF Handlers
    <2>2. \A r \in Row : r # x => status'[r] = status[r]
      BY <2>1 DEF Begin, Commit, Rollback, Inv, TypeOK
    <2> QED
      BY <1>1, <2>2, HandlersOrder DEF Committed
  <1>2. CASE Poll \/ Publish \/ Retry \/ PublishFails \/ UNCHANGED vars
              \/ \E r \in Row : LateStore(r)
    BY <1>2 DEF Poll, Publish, Retry, PublishFails, NoAck, LateStore, vars, rows, Committed
  <1>3. CASE Mark
    <2>1. SameOrder
      BY <1>3, MarkSameOrder DEF Mark, At
    <2> QED
      BY <2>1 DEF SameOrder
  <1>4. CASE MarkFails
    <2>1. SameOrder
      BY <1>4, MarkSameOrder, SameRows DEF MarkFails, At
    <2> QED
      BY <2>1 DEF SameOrder
  <1> QED
    BY <1>1, <1>2, <1>3, <1>4 DEF Next, Relay
-----------------------------------------------------------------------------
(* The refinement of CausalOutbox                                          *)

Published == {r \in Row : status[r] = "published"}

\* Steps that leave alone what the mapping sees of the table.
SameTable == UNCHANGED <<Follows, CommittedRows>>

LEMMA SameRowsSameTable ==
    ASSUME UNCHANGED rows
    PROVE  SameTable /\ UNCHANGED Published
  BY DEF rows, SameTable, Follows, Begun, Before, CommittedRows, Published

LEMMA SameOrderSameTable ==
    ASSUME SameOrder, \A r \in Row : status'[r] = "none" <=> status[r] = "none"
    PROVE  SameTable
  <1>1. Begun' = Begun /\ CommittedRows' = CommittedRows
    BY DEF Begun, CommittedRows, SameOrder, Committed
  <1>2. \A r \in Begun : {q \in Row : Before(q, r)}' = {q \in Row : Before(q, r)}
    BY DEF Begun, SameOrder
  <1>3. Follows' = Follows
    BY <1>1, <1>2 DEF Follows
  <1> QED
    BY <1>1, <1>3 DEF SameTable

LEMMA InitMaps == Init => Abstract!Init
  <1> SUFFICES ASSUME Init PROVE Abstract!Init
    OBVIOUS
  <1>1. Begun = {} /\ CommittedRows = {} /\ Published = {}
    BY DEF Init, Begun, CommittedRows, Published
  <1>2. Follows = [r \in {} |-> {}]
    BY <1>1 DEF Follows
  <1> QED
    BY <1>1, <1>2 DEF Init, Abstract!Init, Published

\* A transaction that begins comes after all that are committed, since the clock
\* has passed their commits.
LEMMA BeginMaps ==
    ASSUME Inv, NEW x \in Row, Begin(x)
    PROVE  Abstract!Begin(x)
  <1>1. /\ status \in [Row -> RowStatus] /\ created \in [Row -> Nat]
        /\ committed \in [Row -> Nat] /\ now \in Nat
    BY DEF Inv, TypeOK
  <1>2. /\ status[x] = "none" /\ status'[x] = "open" /\ created'[x] = now
        /\ \A r \in Row : r # x => status'[r] = status[r] /\ created'[r] = created[r]
        /\ UNCHANGED <<committed, kafka>>
    BY <1>1 DEF Begin
  <1>3. Begun' = Begun \cup {x} /\ x \notin Begun /\ DOMAIN Follows = Begun
    BY <1>2 DEF Begun, Follows
  <1>4. CommittedRows' = CommittedRows /\ Published' = Published
    BY <1>2 DEF CommittedRows, Published
  <1>5. {q \in Row : Before(q, x)}' = CommittedRows
    BY <1>1, <1>2 DEF Before, CommittedRows, Inv, DatesInOrder, Committed
  <1>6. \A r \in Begun : {q \in Row : Before(q, r)}' = {q \in Row : Before(q, r)}
    BY <1>2 DEF Begun, Before
  <1>7. Follows' = [q \in DOMAIN Follows \cup {x} |->
                       IF q = x THEN CommittedRows ELSE Follows[q]]
    BY <1>3, <1>5, <1>6 DEF Follows
  <1> QED
    BY <1>2, <1>3, <1>4, <1>7 DEF Abstract!Begin, Abstract!kafka, kafka, Published

\* What commits now comes before none of the transactions that have begun.
LEMMA CommitMaps ==
    ASSUME Inv, NEW x \in Row, Commit(x)
    PROVE  Abstract!Accept(x)
  <1>1. /\ status \in [Row -> RowStatus] /\ created \in [Row -> Nat]
        /\ committed \in [Row -> Nat] /\ now \in Nat
    BY DEF Inv, TypeOK
  <1>2. /\ status[x] = "open" /\ status'[x] = "pending" /\ committed'[x] = now
        /\ \A r \in Row : r # x => status'[r] = status[r] /\ committed'[r] = committed[r]
        /\ UNCHANGED <<created, kafka>>
    BY <1>1 DEF Commit
  <1>3. Begun' = Begun /\ x \in Begun /\ DOMAIN Follows = Begun
    BY <1>2 DEF Begun, Follows
  <1>4. CommittedRows' = CommittedRows \cup {x} /\ x \notin CommittedRows
        /\ Published' = Published
    BY <1>2 DEF CommittedRows, Published
  <1>5. ASSUME NEW r \in Begun, NEW q \in Row PROVE Before(q, r)' <=> Before(q, r)
    <2>1. created[r] <= now /\ created'[r] = created[r] /\ status[r] # "none" /\ status'[r] # "none"
      BY <1>2 DEF Inv, DatesInOrder, Begun
    <2>2. created[r] \in Nat
      BY <1>1 DEF Begun
    <2> QED
      BY <1>1, <1>2, <2>1, <2>2 DEF Before
  <1>6. Follows' = Follows
    BY <1>3, <1>5 DEF Follows
  <1> QED
    BY <1>2, <1>3, <1>4, <1>6 DEF Abstract!Accept, Abstract!kafka, kafka, Published

LEMMA RollbackMaps ==
    ASSUME Inv, NEW x \in Row, Rollback(x)
    PROVE  UNCHANGED Abstract!vars
  <1>1. /\ status[x] = "open" /\ status'[x] = "rolled_back"
        /\ \A r \in Row : r # x => status'[r] = status[r]
        /\ UNCHANGED <<created, committed, kafka>>
    BY DEF Rollback, Inv, TypeOK
  <1>2. SameOrder /\ \A r \in Row : status'[r] = "none" <=> status[r] = "none"
    BY <1>1 DEF SameOrder, Committed, Before
  <1>3. SameTable
    BY <1>2, SameOrderSameTable
  <1>4. Published' = Published
    BY <1>1 DEF Published
  <1> QED
    BY <1>1, <1>3, <1>4 DEF Abstract!vars, Abstract!kafka, SameTable, kafka, Published

\* The relay sends only rows that are not marked, and after what they follow.
LEMMA SendMaps ==
    ASSUME Inv, CopyInv, ~At("poll"), UNCHANGED rows,
           \/ log' = Append(log, Current) /\ UNCHANGED late
           \/ late' = [late EXCEPT ![Current] = @ + 1] /\ UNCHANGED log
    PROVE  Abstract!Send(Current)
  <1>1. PICK c \in Row : c = Current
    BY CurrentIsRow DEF Inv
  <1>2. status[c] = "pending" /\ \A q \in Row : Before(q, c) => Stored(q)
    BY <1>1, CurrentIsRow, CurrentIsNext DEF Inv, CopyInv, BatchIsPending
  <1>3. c \in CommittedRows \ Published /\ c \in Begun
    BY <1>2 DEF CommittedRows, Published, Begun
  <1>4. Follows[c] \subseteq Abstract!Delivered
    BY <1>2, <1>3 DEF Follows, Abstract!Delivered, Stored
  <1>5. SameTable /\ UNCHANGED Published
    BY SameRowsSameTable
  <1> QED
    BY <1>1, <1>3, <1>4, <1>5 DEF Abstract!Send, SameTable, Published

LEMMA FinishMaps ==
    ASSUME Inv, At("mark"), MarkCurrent, UNCHANGED kafka
    PROVE  Abstract!Finish(Current)
  <1>1. PICK c \in Row : c = Current
    BY CurrentIsRow DEF Inv, At
  <1>2. Committed(c) /\ Stored(c) /\ SameOrder
    BY <1>1, CurrentIsNext, MarkSameOrder DEF Inv, BatchIsCommitted, At
  <1>3. \A r \in Row : status'[r] = IF r = c THEN "published" ELSE status[r]
    BY <1>1 DEF MarkCurrent, Inv, TypeOK
  <1>4. SameTable
    BY <1>2, <1>3, SameOrderSameTable DEF Committed
  <1>5. Published' = Published \cup {c}
    BY <1>3 DEF Published
  <1>6. c \in CommittedRows \cap Abstract!Delivered
    BY <1>2 DEF Committed, CommittedRows, Stored, Abstract!Delivered
  <1> QED
    BY <1>1, <1>4, <1>5, <1>6
    DEF Abstract!Finish, Abstract!kafka, SameTable, Published, kafka

LEMMA ArriveMaps ==
    ASSUME NEW r \in Row, LateStore(r)
    PROVE  Abstract!Arrive(r)
  <1>1. SameTable /\ UNCHANGED Published
    BY SameRowsSameTable DEF LateStore
  <1> QED
    BY <1>1 DEF LateStore, Abstract!Arrive, SameTable, Published

LEMMA StepMaps == Inv /\ CopyInv /\ [Next]_vars => [Abstract!Next]_Abstract!vars
  <1> SUFFICES ASSUME Inv, CopyInv, [Next]_vars PROVE [Abstract!Next]_Abstract!vars
    OBVIOUS
  <1>1. CASE UNCHANGED rows /\ UNCHANGED kafka
    <2>1. SameTable /\ UNCHANGED Published
      BY <1>1, SameRowsSameTable
    <2> QED
      BY <1>1, <2>1 DEF Abstract!vars, Abstract!kafka, SameTable, Published, kafka
  <1>2. CASE Handlers
    BY <1>2, BeginMaps, CommitMaps, RollbackMaps DEF Handlers, Abstract!Next
  <1>3. CASE Publish
    <2>1. Current \in Row /\ Abstract!Send(Current)
      BY <1>3, CurrentIsRow, SendMaps DEF Publish, At, Inv
    <2> QED
      BY <2>1 DEF Abstract!Next
  <1>4. CASE NoAck /\ ~UNCHANGED kafka
    <2>1. Current \in Row /\ Abstract!Send(Current)
      BY <1>4, CurrentIsRow, SendMaps DEF NoAck, Unacknowledged, At, Inv
    <2> QED
      BY <2>1 DEF Abstract!Next
  <1>5. CASE At("mark") /\ MarkCurrent /\ UNCHANGED kafka
    <2>1. PICK c \in Row : c = Current
      BY <1>5, CurrentIsRow DEF At, Inv
    <2>2. Abstract!Finish(Current)
      BY <1>5, FinishMaps
    <2>3. Abstract!Finish(c)
      BY <2>1, <2>2 DEF Abstract!Finish
    <2> QED
      BY <2>3 DEF Abstract!Next
  <1>6. ASSUME NEW r \in Row, LateStore(r) PROVE Abstract!Next
    BY <1>6, ArriveMaps DEF Abstract!Next
  <1>7. Poll \/ UNCHANGED vars => UNCHANGED rows /\ UNCHANGED kafka
    BY DEF Poll, vars
  <1>8. Retry \/ PublishFails => NoAck /\ UNCHANGED rows
    BY DEF Retry, PublishFails, NoAck
  <1>9. Mark \/ MarkFails =>
           UNCHANGED kafka /\ (UNCHANGED rows \/ (At("mark") /\ MarkCurrent))
    BY DEF Mark, MarkFails
  <1> QED
    BY <1>1, <1>2, <1>3, <1>4, <1>5, <1>6, <1>7, <1>8, <1>9 DEF Next, Relay

\* The outbox is causal delivery, at least once until a row is marked and never
\* again after: any batch size, ties of created_at, failed sends and marks, late
\* copies and restarts are steps of CausalOutbox or change nothing of it.
THEOREM Refinement == Spec => OutboxSpec
  <1>1. Spec => [](Inv /\ CopyInv)
    BY InitInv, NextInv, InitCopyInv, NextCopyInv, PTL DEF Spec
  <1> QED
    BY <1>1, InitMaps, StepMaps, PTL DEF Spec, OutboxSpec, Abstract!Spec
=============================================================================
