# A verification of confirmo-backend

confirmo-backend signs lawyers up: an account is created in two databases, a code is mailed to its
address, and the code, entered within three minutes and three attempts, verifies the account and is
announced back to the service that owns the users. The path crosses two services, two Postgres
databases, an outbox table, Kafka and a mail server, and every step of it can be cut off. These modules
model that path handler by handler, check it with TLC on small instances, and prove its invariants with
TLAPS for every size.

Apart from the password policy, nothing here is about what the code computes on strings. It is about what
overlapping calls, crashes, lost replies, redelivered messages and stale reads do to the state of the system.

## 1. Inventory

### confirmo-auth: gRPC handlers (`src/confirmo-auth/src/server.rs`, `database/credentials.rs`)

- **State**: the tables `credentials` (unique address, `email_verified`) and `credential_verifications`
  (hashed code, `attempt_count`, `expires_at`, `used_at`, `UNIQUE (credential_id, code)`), and the rows it
  inserts into `outbox`. The process keeps nothing between calls; a call keeps copies of the rows it read.
- **Operations**: `create_credentials`, `request_email_verification`, `verify_email`. Each validates,
  queries, decides, and writes in a statement or a transaction of its own, with an await at each.
- **Interactions**: called by confirmo-graphql; tells the mailer and confirmo-graphql what happened through
  outbox rows written in the same transaction as the change they announce.
- **Hard behaviour**: calls overlap at every await; replies are decided on rows read some awaits ago;
  row locks are taken inside the transaction of `verify_email`; a commit can lose its acknowledgement; a
  caller that disconnects drops its handler at any await; codes expire meanwhile.
- **Correct when**: an account is verified once and announced once; every stored code was mailed and every
  mailed code is stored; an `ok` speaks of committed rows; a code answers three wrong guesses at most; an
  account has one active code; calls do not deadlock.

### confirmo-outbox: repository, publisher, relay (`src/confirmo-outbox/src`)

- **State**: the table `outbox` (`created_at`, `published_at`), the batch in the relay's memory, and what
  the Kafka producer still has on its way.
- **Operations**: `enqueue` in the handlers' transactions; `unpublished`, `publish`, `mark_published` in
  one task that polls for ever.
- **Hard behaviour**: `created_at` is the start of the inserting transaction, so rows appear out of order;
  the producer is not idempotent (`main.rs:66-70` of confirmo-auth), so a request without an acknowledgement,
  which it repeats inside the send, may have stored the message or may still; the process stops between
  publish and mark; a batch is limited; an error ends the batch.
- **Correct when**: a row marked published is in Kafka; nothing is published that did not commit; causally
  ordered rows are stored in order; each extra copy has a request without acknowledgement or a failed mark
  of its own, so that neither the relay nor a poll makes copies without one; every committed row is published
  in the end.

### Kafka consumer loops (`src/confirmo-shared/src/kafka.rs`, `confirmo-notification-service/src/main.rs`, `confirmo-graphql/src/main.rs`)

- **State**: the committed offset of each partition in Kafka; the position in the process; commits on their
  way.
- **Operations**: receive, decode or pass over, run the handler, commit asynchronously on success. Both
  services run the same loop over different handlers.
- **Hard behaviour**: a failed handler is not retried and the next success commits past it; commits are
  lost or late; a restart begins at the committed offset, or at the end when there is none
  (`auto.offset.reset` is not set); the relay sends duplicates, under an empty key, to any partition.
- **Correct when**: a message is left behind only if its handler ended, it cannot be read, or the partition
  had no offset; the committed offset never goes back; repeated effects are explained by copies and starts.

### confirmo-graphql: CoreService and its database (`src/confirmo-graphql/src/application/core_service.rs`, `database/lawyer.rs`)

- **State**: the tables `users`, `lawyers`, `firms`. Operations keep the ids they read or were given.
- **Operations**: `create_lawyer_account`, `lawyer`, `request_new_email_verifcation_code`, `verify_email`,
  and `email_verified`, run by the consumer.
- **Interactions**: three RPCs of confirmo-auth; the topic `core.email.verified`.
- **Hard behaviour**: a sign-up is three steps in two services without compensation; a lost reply of an RPC
  hides its effect, which may also come late; two sign-ups race for one address or one OAB number; the
  announcement comes at any time, again, or never.
- **Correct when**: the two databases agree on every user; a code, and so a confirmation, exists only for an
  account with its user; an `ok` sign-up can be confirmed; a user is `email_verified` only if confirmed; an
  answer is still true when the caller reads it, and no failure is told as a fact.

### From the outbox to the users (relay, topic and consumer together)

- **State**: that of the relay, of the topic and of the consumer, and `users`. A verification passes two
  records of progress, `published_at` in one database and the committed offset in Kafka.
- **Hard behaviour**: a crash can fall between each record and what it records; copies that the relay makes and
  starts that the consumer makes multiply; a send that failed may be stored after its row was marked.
- **Correct when**: a user is verified only if announced, and for good; what both records are past has taken
  effect or was lost in a way one can name; in the end every announced user is verified or was lost so.

### Password policy (`confirmo-utils/src/password.rs`)

- **State**: the four flags and the position of the loop. Both services run it on the password of a sign-up.
- **Hard behaviour**: bytes against characters, the branches' order, the boundary of the length.
- **Correct when**: a password is accepted if and only if it meets every demand as its message puts it, and
  an error names a demand that it does not meet.

### The rest

| Part | Treatment |
| --- | --- |
| mail handler (`confirmo-notification-service/src/auth.rs`) | an effect that may have taken place when an error is reported (`KafkaConsumer`) |
| GraphQL schema, domain and row conversions | the resolvers start the operations of `CoreService`; the conversions are part of what it answers (`FromDao`, `GqlLawyer`) |
| validation of addresses (`confirmo-utils/src/email.rs`) | a regular expression; its outcome is an input of the handlers |
| password hashing | a stored value nothing reads |
| tracing, interceptor | logging |
| tables `devices`, `sessions`, `clients`, `conversations`, `messages` | no code uses them |
| compose file, topics | one process per service, restarted unless stopped; several partitions per topic |

`PROJECT.json` lists the hazards of this code at their lines, each with the properties that watch it.

## 2. The modules

```
EmailVerification  <--implements--  AuthService  (AuthRefinement)
       ^                              ^
       | INSTANCE                     | EXTENDS
  CoreService                    AttemptLimit, AuthInvariant, AttemptInvariant
       |
       +--implements-->  AccountLife  (CoreRefinement)
VerifiedUsers  <--implements--  Delivery
                                  | INSTANCE (both)
                        OutboxRelay   KafkaConsumer          PasswordPolicy
                             |
                             +--implements-->  CausalOutbox  (OutboxRefinement)
```

| Module | Models |
| --- | --- |
| `AuthService` | the three handlers of confirmo-auth, split at their awaits |
| `EmailVerification` | what they promise, one step per operation |
| `AuthRefinement` | the refinement mapping from the first to the second |
| `AttemptLimit` | `AuthService` with the wrong guesses each code answered |
| `AuthInvariant` | the inductive invariant of `AuthService` |
| `AttemptInvariant` | that of `AttemptLimit`: what overlapping calls can still store as a code's count |
| `OutboxRelay` | transactions that insert outbox rows, the relay, restarts |
| `CausalOutbox`, `OutboxRefinement` | what the outbox promises those that read its topic, and the mapping to it |
| `KafkaConsumer` | a consumer loop over a partitioned topic |
| `CoreService` | the operations of confirmo-graphql over its tables and `EmailVerification` |
| `AccountLife`, `CoreRefinement` | the stages of an account across both services, and the mapping to them |
| `Delivery` | `OutboxRelay` and `KafkaConsumer` composed over the table `users` |
| `VerifiedUsers` | what the delivery promises |
| `PasswordPolicy` | `validate_password` |
| `*Proofs` | the theorems |
| `MC*` | symmetry sets for TLC |

### AuthService

`credentials`, `verifications` and `outbox` are the committed rows, which is all a reader at READ COMMITTED
sees. `calls` holds each call's await (`pc`) and its local variables: the address, the input, the ids it
read, and `row`, the copy of a verification row it changes in memory and writes back. An action is what a
handler does from one await to the next:

| Code | Actions |
| --- | --- |
| `create_credentials` | `CreateStart` (validation, `exists`), `CreateInsert` |
| `request_email_verification` | `RequestStart`, `RequestLatest`, `RequestInsert`, `RequestCommit` |
| `verify_email` | `VerifyStart`, `VerifyCheck`, then `VerifyReject`, or `VerifyUpdate`, `VerifyCredential`, `VerifyCommit` |
| the first query fails, or a later one; the caller leaves | `StartFails`, `DatabaseError`, `Dropped` |

A write inside a transaction stays in its call until the commit. Its locks are read off the call's await
(`LocksVerification`, `LocksCredential`, and `LocksKey` for the uncommitted key of a unique index), and a
statement that meets one waits. An `UPDATE ... WHERE email_verified = false` evaluates its condition when it
has the lock, which is what Postgres does at READ COMMITTED. A commit whose acknowledgement is lost has
happened and is answered `internal`. Codes are hashed without collisions (`Hash`).

A handler that is dropped can leave a statement on its way, the `UPDATE` of a rejected guess or a `COMMIT`,
that takes effect after it. Such a call is one in flight whose reply nobody gets: it keeps its place in `calls`
until the statement has taken effect, and `Dropped` is the end of a call that has no such statement or whose
statement is given up. What is said of calls that do not overlap is therefore said of calls each of which has
come to its end in this sense before the next one starts. A client that leaves and starts over at once has
two calls in flight.

### EmailVerification and AuthRefinement

`Register`, `Issue`, `Confirm`: addresses are registered once, a code is issued together with its mail, and an
issued code confirms its account once, with one announcement. It has no attempts and no expiry: those only
restrict when a handler goes on to its commit. The mapping reads an account's address, its issued codes and
its verification off the tables; the outbox maps to itself.

### OutboxRelay

A row is `none`, `open` (inserted, not committed), `rolled_back`, `pending` or `published`. `created` is the
clock at the start of its transaction and `committed` at its end. The relay holds its await and the rest of its
batch. A send is any number of requests to Kafka: one without an acknowledgement (`NoAck`) leaves nothing, a
stored message, or a copy that is stored later (`late`), and is repeated (`Retry`) or ends the send with an error
(`PublishFails`); an acknowledged one makes it `Ok` (`Publish`). So a send that is `Ok` can have stored several
copies, and so can one that is not. The process stopping while it waits is a failure of the same await: either
way the next thing the relay does is to poll. `faults` counts the requests without acknowledgement and the
marks that failed.

`CausalOutbox` knows nothing of dates, batches or a relay. A row comes after what was committed when its
transaction began; it may be sent when all that is stored, as often as need be until it is finished; and it may
be finished when it is stored. The mapping reads the first off `created_at` and the commit times (`Before`),
which is where the relay's `ORDER BY created_at` has to be good enough.

### KafkaConsumer

`log` is the topic; `position` the consumer's; `committed` and `inflight` the offsets Kafka has and may get.
`Recv`, `HandlerSucceeds` or `HandlerFails`, and `Commit` are the awaits of the loop, `Stop` a crash at any of
them, `Assign` a start or a rebalance. A commit may fail to be sent, be lost, or overtake an older one; commits
of an assignment before are fenced. `done`, `failed`, `skipped` and `effects` record what became of each
message.

### CoreService

The RPCs act on the state of `EmailVerification`. That one step is enough is what `Refinement` proves of the
handlers. A code may be issued to an account that was verified meanwhile (`RequestEffect`): confirmo-auth
looks some awaits before it commits. An RPC that fails for its caller goes to `abandoned`, from where it takes effect later or never; one
that the caller gave up on does the same. `email_verified` may be run on any message of the outbox at any time,
any number of times: the delivery of `OutboxRelay` and `KafkaConsumer` (duplicates, reordering between
partitions, losses after failed handlers) allows no more than that. The three inserts of `create_lawyer` are
one step since nobody reads an open transaction. A firm has no identity of its own beyond the lawyer it is
created for. `get_lawyer` keeps the row of `users` it read first and combines it with the row of `lawyers` it
reads next (`FromDao`); a sign-up answers the rows as it inserted them. `RpcError` is the reply to each gRPC
status; the statuses that confirmo-auth does not send, but that the client maps, are in it for completeness.

`AccountLife` is one variable: how far each account has come (registered, with its user, sent a code, confirmed,
verified). `Stage` reads it off five tables in two databases, as the last stage of which anything is stored, so
a code without a user or a verified status without a confirmation shows as a stage that was skipped.

### Delivery and VerifiedUsers

`Delivery` has the variables of both parts and its steps are theirs: `RelayStep` is a step of `OutboxRelay`, and
what it appends to the relay's log is produced to a partition of the topic in the same step; `ConsumerStep` is a
step of `KafkaConsumer`, and when it has an effect on a message that effect is `Verify`, the `UPDATE` of
`users`. So each part keeps its own faults: failed and late sends, failed marks, crashes, rebalances, lost and
late commits, starts without an offset. `AuthService!VerifiedEventOnce` is why an account has one message, and
`CoreService!CodesHaveUsers` why its user is there. `email_verified_at` counts the updates. `VerifiedUsers`
has three sets, the accounts announced, verified and lost, and knows nothing of rows, copies or offsets.

### PasswordPolicy

A password is the sequence of its UTF-8 bytes, a byte its kind. The model runs the loop byte by byte and the
tests after it in their order. The demands are stated of the whole input as the messages of `PasswordError` put
them, so the length in characters, a character being the byte it begins with. `VerdictIsRight` compares the verdict
with them, except that it leaves open whether a password with characters outside ASCII is accepted when
only its bytes are enough: so much is proved, for every input. `AcceptedIsLongEnough` makes no exception, and
the run shows it violated.

## 3. The runs

| Run | Instance | Shows |
| --- | --- | --- |
| `two_accounts` | 2 calls, 2 addresses, 2 codes, lifetime 1, clock to 2 | `VerifiedEventOnce`, `CodesMailedOnce`, `MailBeforeVerified`, `UsedOnlyIfVerified`, `OkIsDurable`, `NoWaitCycle` |
| `overlap` | 2 calls, 1 address with 2 ids, 2 codes, expiry, fair | `AbstractSpec`, `CallsFinish` |
| `one_call_at_a_time` | 1 call, 2 codes, limit 3 | `GuessLimit` and `OneActiveCode` hold without overlap |
| `guess_bound` | 2 calls, 1 code, limit 3 | `GuessBound`: what is left of the limit under overlap |
| `guess_limit_overlap` | 2 calls, 1 code | violation of `GuessLimit` |
| `active_code_overlap` | 2 calls, 2 codes | violation of `OneActiveCode` |
| `outbox` | 3 rows, batches of 2, 1 fault a row, fair | `MarkedIsStored`, `CausalOrder`, `CopiesAccounted`, `OutboxSpec`, `AllPublished` |
| `consumer` | 2 partitions of 2, a readable and an unreadable message, 3 assignments, fair | `LossAccounted`, `EffectsAccounted`, `HandledInOrder`, `CommitsAdvance`, `Settled` |
| `sign_up` | 2 operations, 2 accounts, addresses and OAB numbers, 1 failed RPC | `CodesHaveUsers`, `AccountsComplete`, `CreatedIsUsable`, `AnswersAreTrue`, `StatusFollowsAuth`, `LifeSpec` |
| `delivery` | 2 accounts, 1 partition, batches of 1, 1 fault a row, 2 starts, fair | `NothingLeftBehind`, `UpdatesAccounted`, `UsersSpec`, `EveryoneSettles` |
| `verified_at_moves` | the same instance | violation of `VerifiedAtStays` |
| `password_characters` | well-formed passwords of 8 bytes that begin with a letter of each case and a digit, minimal length 8 | violation of `AcceptedIsLongEnough` |

Each passing run of a module with a type invariant checks it as well.

**Why the bounds are enough.** Every hazard listed is a race of two parties, so two calls, or a relay and a
handler, show it; what is particular to three or more is covered by the theorems, which have no bound.
`two_accounts` has two addresses and two codes so that mails and codes can be mixed up, and a clock that lets
a code expire and be replaced. `overlap` gives one address two possible ids, so that a second registration
would be possible if only the query before the insert kept it out. `guess_limit_overlap` needs one code and
four guesses. Three outbox rows and batches of two let a row be behind a full batch, with a failing row
before it. Three assignments let a consumer restart from a committed offset and again from a later one.
`delivery` has two accounts so that one can be stored, marked or committed past the other, a row that fits
alone in a batch, and two starts, so that a crash falls between any two steps; with four copies of two
messages it has 733,818 states, and more partitions are left to the theorems. `password_characters` needs the
length of eight only. The bounds that are guards of
actions are `MaxClock`, `IdsLeft` (ids for codes), `MaxFaults`, `MaxLen`, `MaxCopies`, `MaxAssigns` and
`MaxAbandoned`. `MaxFaults` bounds the requests that the producer repeats as well, of which the program has no
fixed number, and with them the copies: `Delivery` takes `MaxLen` and `MaxCopies` from it, so large that no
partition fills up. In `sign_up` there is one code, so that no second one is issued to a verified account; the
theorems are of any set of codes.

Deadlock is not checked: the bounded models do stop, when their clock, ids or faults are used up. That no
*calls* wait for each other is `NoWaitCycle`, and that each comes to its reply `CallsFinish`. Connections of the
pool are not modelled: a handler in a transaction has its connection and asks for no other, so a wait for one
ends when the transactions before it do.

Symmetry is used in safety runs only, over sets no definition tells apart.

### What the violations show

- **`guess_limit_overlap`.** `verify_email` counts the attempt on the copy it read (`server.rs:244`) and writes
  the number back. Of two calls that read the same row one attempt is lost, and a call that was suspended for
  long writes an old count over a newer one. More than `MAXIMUM_EMAIL_VERIFICATION_ATTEMPTS` wrong guesses on
  one code are compared and answered. `GuessBound` says how many: with N calls at a time, no more than the
  binomial (N + limit over limit) less one, which `GuessesBounded` proves for every N and every limit.
- **`active_code_overlap`.** Two requests both find no active code and both insert one. The constraint named
  `unique_active_code` does not keep the second out, since it is over the code as well. The verification of
  the account is still announced once (`two_accounts`).
- **`verified_at_moves`.** The relay documents that consumers must be idempotent (`relay.rs:11-13`).
  `email_verified` is with respect to `status`, but sets `email_verified_at = now()` again with each
  redelivery (`database/lawyer.rs:141`). `UpdatesAccounted` says how often: once for each copy and each start
  of the consumer. The mailer is not idempotent either, and mails each copy (`EffectsAccounted`).
- **`password_characters`.** "Password must be at least 8 characters" (`password.rs:15`) is a test of the bytes
  (`password.rs:26`): a letter of each case, a digit and five more bytes are enough, which can be two
  characters.

Not findings of a model, but read on the way:

- Both consumers document their topics option as "Comma-separated list of Kafka topics to consume"
  (`confirmo-notification-service/src/main.rs:27`, `confirmo-graphql/src/main.rs:55-57`) and subscribe to the
  whole string as one topic. Each service handles messages of one topic, for which it makes no difference.

## 4. Fairness

- `AuthService`: strong fairness of each call's steps. The runtime polls a handler whose await is ready, and
  Postgres serves a row lock in the order of its queue, so a step enabled again and again is taken. Clients need
  not start calls, and nothing has to fail.
- `OutboxRelay`: weak fairness of the relay's next step. `run` loops for ever, a send ends by the producer's
  timeout, and an update ends or fails. That a row has `MaxFaults` faults at most is an assumption: one that
  fails for ever blocks the rows behind it, by design. Transactions need not end.
- `KafkaConsumer`: weak fairness of the loop, and of the start of a process that is down (the compose file
  restarts it). Rebalances, messages and the arrival of commits are not fair. A process stops finitely often
  within `MaxAssigns`.
- `Delivery`: that of the parts. A consumer that is down is started again because its process is
  (`restart: unless-stopped`). It does not cover the task of confirmo-graphql ending alone while the process
  goes on (`main.rs:165`), which the hazards list.
- `CoreService` and `PasswordPolicy` have no liveness property.

## 5. The proofs

Assumptions are those of the modules: `NULL` is outside the sets it is added to, bounds are naturals,
`MaxAttempts < I32Max`, valid and invalid addresses are disjoint, a topic has finitely many partitions. No
theorem bounds the number of calls, accounts, codes, rows, messages, assignments or faults; `GuessesBounded`
assumes that the calls are finitely many, since its bound counts them.

**AuthServiceProofs.** The inductive invariant is `AuthInvariant!Inv`. Its core is `CallsKnow`: whatever other
calls did since, the credential a call read still has its address, and the row it copied still has its code and
its credential. It holds because of `KeepsRows`, which every step satisfies: the fields a call relies on never
change. (It claims nothing of `attempt_count`, which others do change, and that is why the attempt limit
fails.) `UniqueEmail` and `UniqueCode` say what the indexes give, and `OneCommitPerAccount` what the row lock
with the condition under it gives: of all `verify_email` calls of an account one at most stands before its
commit, and only while the account is not verified. `VerifiedEventOnce` and `UsedOnlyIfVerified` are inductive
with these and not without.

`Refinement`: under the same invariant each step is a step of `EmailVerification` or a stutter. `CreateInsert`
registers (`UniqueEmail` makes the row the first of its address), `RequestCommit` issues (`UniqueCode` makes the
code new), `VerifyCommit` confirms (`OneCommitPerAccount` makes it the first); all other steps, `VerifyReject`
with its write included, change nothing the mapping sees. `NoDeadlock` follows from the order of the locks: of
any set of calls, one that is at a commit waits for nobody, else one that is about to lock a credential finds it
free, else nobody holds a lock.

**AuthOutcomeProofs.** The mails, the events and the replies follow from the same invariant.
`CodesMailedOnce` is inductive with it: `UniqueCode` and `UniqueEmail` make the mail of a new code differ
from all mails before it, and `KeepsRows` keeps each mail's code and address. `MailBeforeVerified` needs it,
since the row that `verify_email` commits with is a stored code, which was mailed. `OkIsDurable` holds
because what an `ok` tells (`Told`) is true when it is told and no step takes it back (`StepKeepsRows`).
`OneActiveWhenSequential` is about calls that do not overlap, that is, about any set of calls with at most
one element: a request that is about to insert has found no active code (`SequentialInv`), and nothing
becomes active meanwhile. `active_code_overlap` shows that it needs this.

**AttemptLimitProofs.** `GuessesBounded` is the count of how far overlapping calls can rewind
`attempt_count`. For each t up to the limit, `CanStore` is the set of calls that can still come to store t
or less: all of them while the stored count is below t, afterwards those that hold a copy of the row with
such a count. `Room` is the sizes of these sets for t = 1 .. limit, a function that never goes down and
stays within the number of calls: a *stair* (`AllRooms`). Storing the n that a call has counted makes `Room`
smaller at n, since that call gives its copy up, and can make it larger only above n. So each answered guess
takes `Room` down in the dictionary order (`Above`), no other step takes it up, and none of its values comes
back: the guesses are at most the stairs above the one at hand (`RoomInv`), and all stairs but the last,
`StairsBinomial`, are the bound. That the stairs of m steps and height n number (m + n over m) is an
induction over both, as is that `choose` is what its factorials say (`FactorialDef`). The induction theorems
of the library are out of the prover's reach, so the two go through a least element instead: a set of
naturals that is not empty has one (`LeastElement`, from the well-foundedness of <), and the least
counterexample has a predecessor that is none (`SetInduction`). `LimitWhenSequential` is the bound for one
call, (1 + limit over limit) less one.

**OutboxRelayProofs.** `NoOvertaking` needs what the relay knows at each await. `BatchOrder`: whatever must
come before a row of the batch is published or ahead of it in the batch, since the batch is a prefix of the
pending rows by `created_at` and that order extends `Before`. `LateOrder`: a copy that may still be stored
late has everything it must follow in Kafka already. `BatchIsCommitted` and `DatesInOrder` make the two
inductive. `CopiesBounded` is a count: the copies stored and still to come are no more than the row's faults,
repeated requests among them, and the one acknowledged request (`Budget`), and a row being marked or marked has
had that one. `Refinement` puts
these together. A transaction that begins comes after all that is committed, and one that commits before none
that has begun (`DatesInOrder`), so what a row has to follow is fixed when it begins; the relay sends a row only
while it is pending (`BatchIsPending`) and after what it follows (`BatchOrder`); a mark is of a stored row.

**KafkaConsumerProofs.** `NothingLost` rests on `BehindEnded` (behind the position of a running consumer
only the message at hand is open), `AtPosition` (the message at hand is the last one received of its
partition) and `InflightEnded` (no commit on its way covers an open message), so a commit that arrives, even
late or after a crash, covers none either. `CommitsNeverGoBack` rests on `OffsetsInOrder`: committed <= in
flight <= position. `EffectsBounded` is a count: all assignments but the last used each copy once at most,
and the last one only the copies it is through with (`Budget`). `InOrder`: what is before the message at
hand has ended (`AtHandIsNext`), and what ended stays so.

**CoreServiceProofs.** `AuthGrows` and `UsersGrow` say that neither service takes anything back, so what an
operation has learnt (`Fits`) stays true at its later awaits and in the RPCs it leaves behind (`AbandonedOK`).
With it `NoCodeWithoutUser`: a request for a code is sent only for an address that has a user, and the
registered account of that address is that user (`RegisteredUser`, from `AccountsComplete` and unique
addresses). `NoPartialAccount`, `OkAccountIsUsable` and `StatusIsEarned` follow from the same invariant, and so
does `AnswersStayTrue`: `Fits` says what each answer tells (`Tells`, `Shows`) and what the row of `users` that
`get_lawyer` holds still has in common with the table (`UserRead`), and all of it survives what others do
because services and users only grow. `LifeInOrder`: under the invariant each stage of an account includes those
before it (`StagesNest`), so each of the five steps that change anything finds the account at the stage before
its own; an RPC that takes effect late does so for the same reason as one in time (`AbandonedOK`).

**DeliveryProofs.** The invariants of the two parts are those of their own proof modules, taken over through
`INSTANCE` with their theorems: each step of the composition is a step of the part or leaves its variables
alone. Three facts tie them together. `SentIsProduced`: the topic has as many copies of a message as the relay
sent. `UsersFollowEffects`: the users are the effects, message by message. `DoneTookEffect` of the consumer: a
copy whose handler ended well had an effect. Then `UpdatesBounded` multiplies `CopiesBounded` and
`EffectsBounded`; `NothingForgotten` puts `MarkedIsStored` (marked, so there is a copy) and `LossAccounted`
(covered, so its handler ended, or it was skipped) end to end; and `Implements` maps each step to one of
`VerifiedUsers`.

**PasswordPolicyProofs.** The loop's invariant `FoundSoFar`: the kinds found are those of the bytes gone
through. Of the length, `CharactersAreBytes`: no more characters than bytes, and as many if no byte continues one.
The theorems of this module state the assumption on its constants themselves (`PasswordAssumption`).

| Module | Theorems |
| --- | --- |
| `AuthServiceProofs` | `TypeCorrect`, `CopiesStayCurrent`, `AnnouncedExactlyOnce`, `UsedImpliesVerified`, `Refinement`, `NoDeadlock` |
| `AuthOutcomeProofs` | `MailsMatchCodes`, `CodeBeforeEvent`, `OkStaysTrue`, `OneActiveWhenSequential` |
| `AttemptLimitProofs` | `GuessesBounded`, `LimitWhenSequential` |
| `OutboxRelayProofs` | `TypeCorrect`, `MarkedAfterStored`, `NoOvertaking`, `CopiesBounded`, `Refinement` |
| `KafkaConsumerProofs` | `TypeCorrect`, `NothingLost`, `CommitsNeverGoBack`, `EffectsBounded`, `InOrder` |
| `CoreServiceProofs` | `TypeCorrect`, `NoCodeWithoutUser`, `NoPartialAccount`, `OkAccountIsUsable`, `StatusIsEarned`, `AnswersStayTrue`, `LifeInOrder` |
| `DeliveryProofs` | `TypeCorrect`, `UpdatesBounded`, `NothingForgotten`, `Implements` |
| `PasswordPolicyProofs` | `TypeCorrect`, `VerdictCorrect` |

**Only model-checked.** Liveness (`CallsFinish`, `AllPublished`, `Settled`, `EveryoneSettles`): the prover does
not reason about fairness.

## 6. Limits

- Two `confirmo-auth` processes are not modelled as such. Their handlers would be more calls of the same model;
  two relays would be a change of `OutboxRelay`. The compose file runs one of each.
- Serialisation, SMTP, HTTP and the contents of messages beyond what identifies them.
- The set-up of the processes: a panic there ends the process, or, in confirmo-graphql's consumer, a task.
- Timestamps of users other than `email_verified_at`, and the statuses no code sets.
- The regular expression for addresses and the hashing of passwords and codes, which are libraries' work.
- `CoreService` over the interleaved `AuthService` and over `Delivery` in one model: it uses their
  specifications instead, `EmailVerification` (proved by `Refinement`) and the free choice of messages, of
  which `VerifiedUsers` (proved by `Implements`) is a restriction.
- Isolation is READ COMMITTED, the default; the models have no lost writes of Postgres or Kafka.
- Kafka is one broker that keeps what it acknowledged.

## 7. Plan

Done, in this order because verification is the system's core and the rest delivers it: `AuthService` with its
specification and proofs, `OutboxRelay`, `KafkaConsumer`, `CoreService`, then their composition `Delivery`, the
answers of `CoreService`, `PasswordPolicy`, the proofs of the outcomes of `AuthService` and of `GuessBound`, and
the refinements of `CausalOutbox` and `AccountLife`.

What could follow:

1. **The mails**: `OutboxRelay` and `KafkaConsumer` composed once more, over the mail handler and
   `request_email_verification`, for the account whose code mail failed and that is told `ok` until the code
   expires.
2. **Two relays** over one outbox, as a rolling restart would have for a moment.
