---------------------------- MODULE AuthService ----------------------------
(***************************************************************************)
(* confirmo-auth: the three handlers of its gRPC service, over the         *)
(* Postgres tables credentials, credential_verifications and outbox.       *)
(*                                                                         *)
(* A handler is split exactly at its awaits.  The table variables hold the *)
(* committed rows, which is all a reader at READ COMMITTED sees; what an   *)
(* open transaction has written stays in its call until the commit, and    *)
(* the row locks it holds follow from how far the call has come.           *)
(***************************************************************************)
EXTENDS Integers, Sequences, FiniteSets

CONSTANTS
    Call,          \* gRPC calls that can be in flight at the same time
    ValidEmail,    \* the addresses validate_email accepts
    BadEmail,      \* addresses it rejects
    Code,          \* the six-digit codes (and any input of six bytes or more)
    ShortCode,     \* inputs of fewer than EMAIL_VERIFICATION_CODE_DIGITS bytes
    CredId,        \* ids of credentials (gen_random_uuid)
    VerId,         \* ids of credential_verifications: bounds the codes issued
    CodeLifetime,  \* Duration::from_mins(3), in ticks of the clock
    MaxAttempts,   \* MAXIMUM_EMAIL_VERIFICATION_ATTEMPTS
    I32Max,        \* where saturating_add on the i32 attempt_count saturates
    MaxClock,      \* bound on the clock
    NULL

VARIABLES
    credentials,    \* id -> row of credentials, or NULL
    verifications,  \* id -> row of credential_verifications, or NULL
    outbox,         \* messages of the outbox table, in commit order
    clock,          \* now() of Postgres and Utc::now() of the service
    calls           \* the calls in flight

tables == <<credentials, verifications, outbox>>
vars == <<tables, clock, calls>>

-----------------------------------------------------------------------------
(* Rows, messages and the local state of a call                            *)

Email == ValidEmail \cup BadEmail

\* hash_code: a keyed hash, taken to be free of collisions.
Hash(token) == <<"hmac", token>>
HashedCode == {"hmac"} \X Code

Credential == [email : ValidEmail, email_verified : BOOLEAN]

\* used stands for used_at IS NOT NULL.
Verification == [code : HashedCode, credential_id : CredId,
                 attempt_count : 0..I32Max, expires_at : Nat,
                 used : BOOLEAN, created_at : Nat]

\* AuthEvent::EmailVerification and CoreEvent::EmailVerified.
CodeMail(e, token) == [type |-> "EmailVerification", email |-> e, token |-> token]
EmailVerified(c) == [type |-> "EmailVerified", user_id |-> c]
Message == [type : {"EmailVerification"}, email : ValidEmail, token : Code]
           \cup [type : {"EmailVerified"}, user_id : CredId]

Op == {"create", "request", "verify"}
Status == {"ok", "invalid_argument", "already_exists", "not_found", "internal"}

\* The await each call stands at.
Pc == {"idle", "replied", "create_insert",
       "request_latest", "request_insert", "request_commit",
       "verify_check", "verify_reject",
       "verify_update", "verify_credential", "verify_commit"}

CallState == [pc : Pc, op : Op \cup {NULL}, status : Status \cup {NULL},
              email : Email \cup {NULL}, token : Code \cup {NULL},
              cred : CredId \cup {NULL}, ver : VerId \cup {NULL},
              row : Verification \cup {NULL}]

Idle == [pc |-> "idle", op |-> NULL, status |-> NULL, email |-> NULL,
         token |-> NULL, cred |-> NULL, ver |-> NULL, row |-> NULL]

ASSUME ConstantsAssumption ==
    /\ CodeLifetime \in Nat
    /\ MaxAttempts \in Nat
    /\ I32Max \in Nat
    /\ MaxAttempts < I32Max
    /\ MaxClock \in Nat
    /\ ValidEmail \cap BadEmail = {}

ASSUME NullAssumption ==
    /\ NULL \notin Credential /\ NULL \notin Verification
    /\ NULL \notin CredId /\ NULL \notin VerId
    /\ NULL \notin Email /\ NULL \notin Code
    /\ NULL \notin Op /\ NULL \notin Status

-----------------------------------------------------------------------------
(* The queries                                                             *)

\* get_credential and exists: ... WHERE email = $1
ByEmail(e) == {c \in CredId : credentials[c] # NULL /\ credentials[c].email = e}

\* used_at IS NULL AND expires_at > now()
Active(v) ==
    /\ verifications[v] # NULL
    /\ ~verifications[v].used
    /\ verifications[v].expires_at > clock

\* Mutant of ActiveOf: a code out of attempts does not block a new one.
ActiveWithAttemptsOf(c) ==
    {v \in VerId : /\ Active(v) /\ verifications[v].credential_id = c
                   /\ verifications[v].attempt_count < MaxAttempts}

\* get_lastest_verification_code_by_credential_id, as a set of candidates
ActiveOf(c) == {v \in VerId : Active(v) /\ verifications[v].credential_id = c}

\* The join of get_lastest_verification_code_by_email
ActiveByEmail(e) ==
    {v \in VerId : /\ Active(v)
                   /\ \E c \in ByEmail(e) :
                         /\ ~credentials[c].email_verified
                         /\ verifications[v].credential_id = c}

\* ORDER BY created_at DESC LIMIT 1: any of the newest, on a tie
Newest(S) == {v \in S : \A w \in S :
                  verifications[w].created_at <= verifications[v].created_at}

\* Mutant of ToVerify: the UPDATE without AND email_verified = false.
ToVerifyAgain(e) == ByEmail(e)

\* The rows verify_email_credential updates: email = $1 AND email_verified = false
ToVerify(e) == {c \in ByEmail(e) : ~credentials[c].email_verified}

\* Mutant of SaturatingInc: attempt_count + 1.
PlainInc(n) == n + 1

\* attempt_count.saturating_add(1)
SaturatingInc(n) == IF n = I32Max THEN I32Max ELSE n + 1

-----------------------------------------------------------------------------
(* Locks of the open transactions                                          *)

\* Mutant of LocksVerification: the read takes FOR SHARE, the UPDATE upgrades it.
LocksVerificationAtRead(k, v) ==
    /\ calls[k].pc \in {"verify_check", "verify_update",
                       "verify_credential", "verify_commit"}
    /\ calls[k].ver = v

\* A verification row is locked from its UPDATE to the end of the transaction.
LocksVerification(k, v) ==
    /\ calls[k].pc \in {"verify_credential", "verify_commit"}
    /\ calls[k].ver = v

\* The credential row is locked from verify_email_credential on.
LocksCredential(k, e) == calls[k].pc = "verify_commit" /\ calls[k].email = e

\* An uncommitted insert makes another insert of its unique key wait.
LocksKey(k, c, h) ==
    /\ calls[k].pc = "request_commit"
    /\ calls[k].row.credential_id = c
    /\ calls[k].row.code = h

VerificationFree(k, v) == \A j \in Call \ {k} : ~LocksVerification(j, v)
CredentialFree(k, e) == \A j \in Call \ {k} : ~LocksCredential(j, e)
KeyFree(k, c, h) == \A j \in Call \ {k} : ~LocksKey(j, c, h)

-----------------------------------------------------------------------------

Init ==
    /\ credentials = [c \in CredId |-> NULL]
    /\ verifications = [v \in VerId |-> NULL]
    /\ outbox = <<>>
    /\ clock = 0
    /\ calls = [k \in Call |-> Idle]

Replied(op, e, status) ==
    [Idle EXCEPT !.pc = "replied", !.op = op, !.email = e, !.status = status]

Reply(k, op, e, status) == calls' = [calls EXCEPT ![k] = Replied(op, e, status)]

Goto(k, pc) == calls' = [calls EXCEPT ![k].pc = pc]

-----------------------------------------------------------------------------
(* create_credentials                                                      *)

\* Validation, then the exists query.
CreateStart(k, e, strong) ==
    /\ calls[k] = Idle
    /\ \/ /\ e \notin ValidEmail \/ ~strong
          /\ Reply(k, "create", e, "invalid_argument")
       \/ /\ e \in ValidEmail /\ strong
          /\ ByEmail(e) # {}
          /\ Reply(k, "create", e, "already_exists")
       \/ /\ e \in ValidEmail /\ strong
          /\ ByEmail(e) = {}
          /\ calls' = [calls EXCEPT ![k] = [Idle EXCEPT
                !.pc = "create_insert", !.op = "create", !.email = e]]
    /\ UNCHANGED <<tables, clock>>

\* INSERT INTO credentials; a violated UNIQUE (email) becomes an internal
\* status.  The acknowledgement of the insert can be lost.
CreateInsert(k) ==
    LET e == calls[k].email IN
    /\ calls[k].pc = "create_insert"
    /\ \/ /\ ByEmail(e) # {}
          /\ Reply(k, "create", e, "internal")
          /\ UNCHANGED credentials
       \/ /\ ByEmail(e) = {}
          /\ \E c \in CredId :
                /\ credentials[c] = NULL
                /\ credentials' = [credentials EXCEPT
                      ![c] = [email |-> e, email_verified |-> FALSE]]
          /\ \E status \in {"ok", "internal"} : Reply(k, "create", e, status)
    /\ UNCHANGED <<verifications, outbox, clock>>

-----------------------------------------------------------------------------
(* request_email_verification                                              *)

\* Bound: a request starts only while an id is left for the row it may insert.
IdsLeft ==
    LET pending == {k \in Call : calls[k].pc \in {"request_latest", "request_insert",
                                                 "request_commit"}}
        unused == {v \in VerId : verifications[v] = NULL}
    IN Cardinality(pending) < Cardinality(unused)

\* Validation, then get_credential.
RequestStart(k, e) ==
    /\ calls[k] = Idle
    /\ IdsLeft
    /\ \/ /\ e \notin ValidEmail
          /\ Reply(k, "request", e, "invalid_argument")
       \/ /\ e \in ValidEmail
          /\ ByEmail(e) = {}
          /\ Reply(k, "request", e, "not_found")
       \/ /\ e \in ValidEmail
          /\ \E c \in ByEmail(e) :
                \/ /\ credentials[c].email_verified
                   /\ Reply(k, "request", e, "ok")
                \/ /\ ~credentials[c].email_verified
                   /\ calls' = [calls EXCEPT ![k] = [Idle EXCEPT
                         !.pc = "request_latest", !.op = "request",
                         !.email = e, !.cred = c]]
    /\ UNCHANGED <<tables, clock>>

\* An active code ends the request; otherwise a code is drawn and its
\* expiry computed.
RequestLatest(k) ==
    LET c == calls[k].cred IN
    /\ calls[k].pc = "request_latest"
    /\ \/ /\ ActiveOf(c) # {}
          /\ Reply(k, "request", calls[k].email, "ok")
       \/ /\ ActiveOf(c) = {}
          /\ \E token \in Code :
                calls' = [calls EXCEPT ![k] = [@ EXCEPT
                    !.pc = "request_insert",
                    !.token = token,
                    !.row = [code |-> Hash(token), credential_id |-> c,
                             attempt_count |-> 0, used |-> FALSE,
                             expires_at |-> clock + CodeLifetime,
                             created_at |-> 0]]]
    /\ UNCHANGED <<tables, clock>>

\* BEGIN and INSERT INTO credential_verifications: created_at is the start of
\* the transaction; UNIQUE (credential_id, code) ranges over every row, spent
\* or not, and its violation becomes an internal status.
RequestInsert(k) ==
    LET r == calls[k].row
        taken == \E v \in VerId : /\ verifications[v] # NULL
                                  /\ verifications[v].credential_id = r.credential_id
                                  /\ verifications[v].code = r.code
    IN
    /\ calls[k].pc = "request_insert"
    /\ KeyFree(k, r.credential_id, r.code)
    /\ \/ /\ taken
          /\ Reply(k, "request", calls[k].email, "internal")
       \/ /\ ~taken
          /\ calls' = [calls EXCEPT ![k] = [@ EXCEPT
                !.pc = "request_commit", !.row = [r EXCEPT !.created_at = clock]]]
    /\ UNCHANGED <<tables, clock>>

\* The message that carries the code, for the outbox row of the same transaction.
MailFor(call) == CodeMail(call.email, call.token)

\* Mutant of RequestCommit: the mail is enqueued after the commit, and may not be.
RequestCommitThenEnqueue(k) ==
    /\ calls[k].pc = "request_commit"
    /\ \E v \in VerId :
          /\ verifications[v] = NULL
          /\ verifications' = [verifications EXCEPT ![v] = calls[k].row]
    /\ outbox' \in {outbox, Append(outbox, MailFor(calls[k]))}
    /\ Reply(k, "request", calls[k].email, "ok")
    /\ UNCHANGED <<credentials, clock>>

\* Mutant of RequestCommit: the outcome of the commit is not looked at.
RequestCommitUnchecked(k) ==
    /\ calls[k].pc = "request_commit"
    /\ Reply(k, "request", calls[k].email, "ok")
    /\ UNCHANGED <<tables, clock>>

\* enqueue and COMMIT, whose acknowledgement can be lost.
RequestCommit(k) ==
    /\ calls[k].pc = "request_commit"
    /\ \E v \in VerId :
          /\ verifications[v] = NULL
          /\ verifications' = [verifications EXCEPT ![v] = calls[k].row]
    /\ outbox' = Append(outbox, MailFor(calls[k]))
    /\ \E status \in {"ok", "internal"} : Reply(k, "request", calls[k].email, status)
    /\ UNCHANGED <<credentials, clock>>

-----------------------------------------------------------------------------
(* verify_email                                                            *)

\* Validation, then the read of the newest active code: the call keeps a copy
\* of the row with its attempt counted.
VerifyStart(k, e, token) ==
    /\ calls[k] = Idle
    /\ \/ /\ token \in ShortCode
          /\ Reply(k, "verify", e, "not_found")
       \/ /\ token \notin ShortCode /\ e \notin ValidEmail
          /\ Reply(k, "verify", e, "invalid_argument")
       \/ /\ token \notin ShortCode /\ e \in ValidEmail
          /\ ActiveByEmail(e) = {}
          /\ Reply(k, "verify", e, "not_found")
       \/ /\ token \notin ShortCode /\ e \in ValidEmail
          /\ \E v \in Newest(ActiveByEmail(e)) :
                calls' = [calls EXCEPT ![k] = [Idle EXCEPT
                    !.pc = "verify_check", !.op = "verify",
                    !.email = e, !.token = token, !.ver = v,
                    !.row = [verifications[v] EXCEPT
                                !.attempt_count = SaturatingInc(@)]]]
    /\ UNCHANGED <<tables, clock>>

\* The copy of the row that lets the code through.
Accepts(r, token) ==
    /\ r.attempt_count <= MaxAttempts
    /\ r.expires_at >= clock
    /\ r.code = Hash(token)

VerifyCheck(k) ==
    LET r == calls[k].row IN
    /\ calls[k].pc = "verify_check"
    /\ \/ /\ ~Accepts(r, calls[k].token)
          /\ Goto(k, "verify_reject")
       \/ /\ Accepts(r, calls[k].token)
          /\ calls' = [calls EXCEPT ![k] = [@ EXCEPT
                !.pc = "verify_update", !.row = [r EXCEPT !.used = TRUE]]]
    /\ UNCHANGED <<tables, clock>>

\* Mutant of WriteBack: only used_at is stored.
WriteBackUsedOnly(call) ==
    [verifications EXCEPT ![call.ver] = [@ EXCEPT !.used = call.row.used]]

\* update_credential_verification: used_at and attempt_count become those of
\* the copy the call read, whatever the row holds by now.
WriteBack(call) ==
    [verifications EXCEPT ![call.ver] =
        [@ EXCEPT !.used = call.row.used,
                  !.attempt_count = call.row.attempt_count]]

\* Mutant of VerifyReject: the early return does not store the attempt.
VerifyRejectUnstored(k) ==
    /\ calls[k].pc = "verify_reject"
    /\ Reply(k, "verify", calls[k].email, "not_found")
    /\ UNCHANGED <<tables, clock>>

\* The failed attempt is stored by a statement of its own.
VerifyReject(k) ==
    /\ calls[k].pc = "verify_reject"
    /\ VerificationFree(k, calls[k].ver)
    /\ verifications' = WriteBack(calls[k])
    /\ \E status \in {"not_found", "internal"} : Reply(k, "verify", calls[k].email, status)
    /\ UNCHANGED <<credentials, outbox, clock>>

\* Mutant of VerifyUpdate: the UPDATE runs on a connection of its own.
VerifyUpdateOutside(k) ==
    /\ calls[k].pc = "verify_update"
    /\ VerificationFree(k, calls[k].ver)
    /\ verifications' = WriteBack(calls[k])
    /\ Goto(k, "verify_credential")
    /\ UNCHANGED <<credentials, outbox, clock>>

\* BEGIN and the UPDATE of the verification row, which may wait for its lock.
VerifyUpdate(k) ==
    /\ calls[k].pc = "verify_update"
    /\ VerificationFree(k, calls[k].ver)
    /\ Goto(k, "verify_credential")
    /\ UNCHANGED <<tables, clock>>

\* verify_email_credential, which evaluates its WHERE once it has the lock: no
\* row updated is an error that rolls the transaction back.
VerifyCredential(k) ==
    LET e == calls[k].email IN
    /\ calls[k].pc = "verify_credential"
    /\ CredentialFree(k, e)
    /\ \/ /\ ToVerify(e) = {}
          /\ Reply(k, "verify", e, "internal")
       \/ /\ ToVerify(e) # {}
          /\ Goto(k, "verify_commit")
    /\ UNCHANGED <<tables, clock>>

\* enqueue and COMMIT: the three writes become visible together.
VerifyCommit(k) ==
    LET e == calls[k].email IN
    /\ calls[k].pc = "verify_commit"
    /\ verifications' = WriteBack(calls[k])
    /\ credentials' = [c \in CredId |->
          IF c \in ToVerify(e) THEN [credentials[c] EXCEPT !.email_verified = TRUE]
                               ELSE credentials[c]]
    /\ outbox' = Append(outbox, EmailVerified(calls[k].row.credential_id))
    /\ \E status \in {"ok", "internal"} : Reply(k, "verify", e, status)
    /\ UNCHANGED clock

-----------------------------------------------------------------------------
(* The end of a call, its failures, and time                               *)

Return(k) ==
    /\ calls[k].pc = "replied"
    /\ calls' = [calls EXCEPT ![k] = Idle]
    /\ UNCHANGED <<tables, clock>>

Running(k) == calls[k].pc \notin {"idle", "replied"}

\* The first query of a handler fails.
StartFails(k, op, e) ==
    /\ calls[k] = Idle
    /\ Reply(k, op, e, "internal")
    /\ UNCHANGED <<tables, clock>>

\* A database error at a later await: the transaction is dropped, the reply
\* internal.
DatabaseError(k) ==
    /\ Running(k)
    /\ Reply(k, calls[k].op, calls[k].email, "internal")
    /\ UNCHANGED <<tables, clock>>

\* The caller disconnects, or the process stops: the handler is dropped at its
\* await, and Postgres rolls its transaction back.  An UPDATE of its own or a
\* COMMIT that is sent by then can still take effect: such a call is in flight
\* until it has, though nobody gets its reply, and only then leaves its slot.
Dropped(k) ==
    /\ Running(k)
    /\ calls' = [calls EXCEPT ![k] = Idle]
    /\ UNCHANGED <<tables, clock>>

Tick ==
    /\ clock < MaxClock
    /\ clock' = clock + 1
    /\ UNCHANGED <<tables, calls>>

Start(k) ==
    \/ \E e \in Email, strong \in BOOLEAN : CreateStart(k, e, strong)
    \/ \E e \in Email : RequestStart(k, e)
    \/ \E e \in Email, token \in Code \cup ShortCode : VerifyStart(k, e, token)
    \/ \E op \in Op, e \in ValidEmail : StartFails(k, op, e)

Step(k) ==
    \/ CreateInsert(k)
    \/ RequestLatest(k) \/ RequestInsert(k) \/ RequestCommit(k)
    \/ VerifyCheck(k) \/ VerifyReject(k)
    \/ VerifyUpdate(k) \/ VerifyCredential(k) \/ VerifyCommit(k)
    \/ Return(k)

Next ==
    \/ \E k \in Call : Start(k) \/ Step(k) \/ DatabaseError(k) \/ Dropped(k)
    \/ Tick

Spec == Init /\ [][Next]_vars

\* The runtime polls every handler again, and Postgres grants a contended row
\* lock in the order of its queue.
FairSpec == Spec /\ \A k \in Call : SF_vars(Step(k))

-----------------------------------------------------------------------------
(* Correctness                                                             *)

TypeOK ==
    /\ credentials \in [CredId -> Credential \cup {NULL}]
    /\ verifications \in [VerId -> Verification \cup {NULL}]
    /\ outbox \in Seq(Message)
    /\ clock \in Nat
    /\ calls \in [Call -> CallState]

Verified(c) == credentials[c] # NULL /\ credentials[c].email_verified

\* A credential is verified exactly when the outbox holds its EmailVerified
\* message, and the outbox never holds a second one: however verify_email calls
\* overlap, fail or repeat, the core service hears of each account once.
VerifiedEventOnce ==
    \A c \in CredId :
        /\ Verified(c) <=> \E i \in DOMAIN outbox : outbox[i] = EmailVerified(c)
        /\ \A i, j \in DOMAIN outbox :
              outbox[i] = EmailVerified(c) /\ outbox[j] = EmailVerified(c) => i = j

\* Codes and code mails match one to one: each stored code was mailed once, to
\* the address of its credential, and each mail carries a code that is stored.
CodesMailedOnce ==
    /\ \A v \in VerId : verifications[v] # NULL =>
          \E i \in DOMAIN outbox :
              /\ outbox[i].type = "EmailVerification"
              /\ Hash(outbox[i].token) = verifications[v].code
              /\ outbox[i].email = credentials[verifications[v].credential_id].email
    /\ \A i \in DOMAIN outbox : outbox[i].type = "EmailVerification" =>
          \E v \in VerId :
              /\ verifications[v] # NULL
              /\ Hash(outbox[i].token) = verifications[v].code
              /\ outbox[i].email = credentials[verifications[v].credential_id].email
    /\ \A i, j \in DOMAIN outbox :
          outbox[i].type = "EmailVerification" /\ outbox[i] = outbox[j] => i = j

\* The EmailVerified message of an account comes after a code mail to its
\* address: nobody is verified without having been sent a code.
MailBeforeVerified ==
    \A i \in DOMAIN outbox : outbox[i].type = "EmailVerified" =>
        \E j \in 1..(i - 1) :
            /\ outbox[j].type = "EmailVerification"
            /\ outbox[j].email = credentials[outbox[i].user_id].email

\* A code is marked used only when its account is verified: the two updates of
\* verify_email are never seen apart.
UsedOnlyIfVerified ==
    \A v \in VerId : verifications[v] # NULL /\ verifications[v].used =>
        Verified(verifications[v].credential_id)

\* An ok reply speaks of committed rows: create of a registered address, request
\* of one that is verified or was mailed a code, verify of a verified one.
OkIsDurable ==
    \A k \in Call : calls[k].status = "ok" =>
        \E c \in ByEmail(calls[k].email) :
            /\ calls[k].op = "verify" => Verified(c)
            /\ calls[k].op = "request" =>
                  \/ Verified(c)
                  \/ \E v \in VerId : /\ verifications[v] # NULL
                                      /\ verifications[v].credential_id = c

\* An account has at most one active code.  It holds of requests of which each
\* starts when the statements of the one before have taken effect or are given
\* up; two that overlap both find no active code.
OneActiveCode ==
    \A v, w \in VerId :
        /\ Active(v) /\ Active(w)
        /\ verifications[v].credential_id = verifications[w].credential_id
        => v = w

\* The statement call k stands at needs a lock that the transaction of j holds.
WaitsFor(k, j) ==
    /\ k # j
    /\ \/ /\ calls[k].pc = "request_insert"
          /\ LocksKey(j, calls[k].row.credential_id, calls[k].row.code)
       \/ /\ calls[k].pc \in {"verify_reject", "verify_update"}
          /\ LocksVerification(j, calls[k].ver)
       \/ calls[k].pc = "verify_credential" /\ LocksCredential(j, calls[k].email)

\* No calls wait for each other, in a ring of any length: verify_email takes the
\* lock of the code before that of the credential, which its last statement
\* does, and a request holds its key only when it has nothing left to lock.
NoWaitCycle ==
    \A S \in SUBSET Call : S # {} => \E k \in S : \A j \in S : ~WaitsFor(k, j)

\* Every call comes to its reply and returns: no set of calls waits for each
\* other's row locks.
CallsFinish == \A k \in Call : calls[k].pc # "idle" ~> calls[k].pc = "idle"
=============================================================================
