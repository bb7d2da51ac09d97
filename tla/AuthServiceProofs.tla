------------------------- MODULE AuthServiceProofs -------------------------
(* Proofs about AuthService, for any sets of calls, addresses, codes and   *)
(* ids.  The argument is in three layers: types together with what each    *)
(* call knows of the tables (TypeInv), the invariants that rest on the row *)
(* locks (Inv), and the refinement of EmailVerification.                   *)
EXTENDS AuthInvariant, TLAPS

-----------------------------------------------------------------------------
(* Lemmas about the helpers                                                *)

\* A reply leaves every other call alone and knows nothing of the tables.
LEMMA ReplyIsCall ==
    ASSUME TypeOK, NEW k \in Call, NEW op \in Op \cup {NULL},
           NEW e \in Email \cup {NULL}, NEW status \in Status, Reply(k, op, e, status)
    PROVE  /\ calls' \in [Call -> CallState]
           /\ calls'[k].pc = "replied"
           /\ \A j \in Call : j # k => calls'[j] = calls[j]
  BY DEF TypeOK, Reply, Replied, Idle, CallState, Pc

\* Moving a call on, with a new row and perhaps a new code, leaves it a call.
LEMMA MovedIsCall ==
    ASSUME NEW call \in CallState, NEW pc \in Pc, NEW row \in Verification
    PROVE  /\ [call EXCEPT !.pc = pc] \in CallState
           /\ [call EXCEPT !.pc = pc, !.row = row] \in CallState
           /\ \A token \in Code :
                 [call EXCEPT !.pc = pc, !.token = token, !.row = row] \in CallState
  <1> HIDE DEF Pc
  <1>1. [call EXCEPT !.pc = pc] \in CallState
    BY DEF CallState
  <1>2. [call EXCEPT !.pc = pc, !.row = row] \in CallState
    BY DEF CallState
  <1>3. \A token \in Code :
           [call EXCEPT !.pc = pc, !.token = token, !.row = row] \in CallState
    BY DEF CallState
  <1> QED
    BY <1>1, <1>2, <1>3

\* Saturating addition stays within an i32.
LEMMA SaturatingIncType == \A n \in 0..I32Max : SaturatingInc(n) \in 0..I32Max
  BY ConstantsAssumption DEF SaturatingInc

LEMMA InitTypeInv == Init => TypeInv
  BY ConstantsAssumption DEF Init, TypeInv, TypeOK, CallsKnow, CallKnows, Idle, CallState, Pc

\* A write-back keeps every row a row, and changes neither its code nor its
\* credential.
LEMMA WriteBackKeeps ==
    ASSUME TypeOK, NEW call \in CallState, call.ver \in VerId,
           verifications[call.ver] # NULL, call.row \in Verification,
           verifications' = WriteBack(call)
    PROVE  /\ verifications' \in [VerId -> Verification \cup {NULL}]
           /\ \A v \in VerId :
                 /\ verifications'[v] = NULL <=> verifications[v] = NULL
                 /\ verifications[v] # NULL =>
                       /\ verifications'[v].code = verifications[v].code
                       /\ verifications'[v].credential_id = verifications[v].credential_id
                 /\ v # call.ver => verifications'[v] = verifications[v]
           /\ verifications'[call.ver].used = call.row.used
  <1>1. verifications[call.ver] \in Verification
    BY DEF TypeOK
  <1>2. verifications'[call.ver] = [verifications[call.ver] EXCEPT
           !.used = call.row.used, !.attempt_count = call.row.attempt_count]
    BY DEF TypeOK, WriteBack
  <1>3. /\ verifications'[call.ver] \in Verification
        /\ verifications'[call.ver].code = verifications[call.ver].code
        /\ verifications'[call.ver].credential_id = verifications[call.ver].credential_id
        /\ verifications'[call.ver].used = call.row.used
    BY <1>1, <1>2 DEF Verification
  <1>4. \A v \in VerId : v # call.ver => verifications'[v] = verifications[v]
    BY DEF TypeOK, WriteBack
  <1>5. verifications' \in [VerId -> Verification \cup {NULL}]
    BY <1>3, <1>4 DEF TypeOK, WriteBack
  <1> QED
    BY <1>3, <1>4, <1>5, NullAssumption

\* What a call knows survives every step of another call: no step takes back
\* a row or rewrites what a copy of it is compared with.
LEMMA KnowsStable ==
    ASSUME TypeInv, NEW k \in Call, KeepsRows, CallKnows(calls[k])',
           \A j \in Call : j # k => calls'[j] = calls[j]
    PROVE  CallsKnow'
  <1> SUFFICES ASSUME NEW j \in Call, j # k PROVE CallKnows(calls[j])'
    BY DEF CallsKnow
  <1>1. CallKnows(calls[j]) /\ calls'[j] = calls[j]
    BY DEF TypeInv, CallsKnow
  <1> QED
    BY <1>1 DEF KeepsRows, CallKnows, CopyOf, Owns

\* A step that leaves the tables alone and ends its call with a reply.
LEMMA ReplyKeepsTypeInv ==
    ASSUME TypeInv, NEW k \in Call, NEW op \in Op \cup {NULL},
           NEW e \in Email \cup {NULL}, NEW status \in Status, Reply(k, op, e, status),
           KeepsRows
    PROVE  calls' \in [Call -> CallState] /\ CallsKnow'
  <1>1. /\ calls' \in [Call -> CallState]
        /\ calls'[k].pc = "replied"
        /\ \A j \in Call : j # k => calls'[j] = calls[j]
    BY ReplyIsCall DEF TypeInv
  <1>2. CallKnows(calls[k])'
    BY <1>1 DEF CallKnows
  <1> QED
    BY <1>1, <1>2, KnowsStable

LEMMA SameTablesKeepRows == UNCHANGED tables => KeepsRows
  BY DEF tables, KeepsRows

-----------------------------------------------------------------------------
(* create_credentials                                                      *)

LEMMA CreateStartTypeInv ==
    ASSUME TypeInv, NEW k \in Call, NEW e \in Email, NEW strong \in BOOLEAN,
           CreateStart(k, e, strong)
    PROVE  TypeInv'
  <1>1. KeepsRows /\ UNCHANGED <<tables, clock>>
    BY SameTablesKeepRows DEF CreateStart
  <1>2. CASE \E status \in Status : Reply(k, "create", e, status)
    BY <1>1, <1>2, ReplyKeepsTypeInv DEF Op, TypeInv, TypeOK, tables
  <1>3. CASE /\ e \in ValidEmail
             /\ calls' = [calls EXCEPT ![k] = [Idle EXCEPT
                   !.pc = "create_insert", !.op = "create", !.email = e]]
    <2>1. calls' \in [Call -> CallState] /\ CallKnows(calls[k])'
      BY <1>3 DEF TypeInv, TypeOK, CallState, Idle, Pc, Op, CallKnows
    <2> QED
      BY <1>1, <1>3, <2>1, KnowsStable DEF TypeInv, TypeOK, tables
  <1> QED
    BY <1>2, <1>3 DEF CreateStart, Status

LEMMA StartFailsTypeInv ==
    ASSUME TypeInv, NEW k \in Call, NEW op \in Op, NEW e \in ValidEmail, StartFails(k, op, e)
    PROVE  TypeInv'
  BY SameTablesKeepRows, ReplyKeepsTypeInv
     DEF StartFails, Email, Status, TypeInv, TypeOK, tables

LEMMA CreateInsertTypeInv ==
    ASSUME TypeInv, NEW k \in Call, CreateInsert(k)
    PROVE  TypeInv'
  <1>1. calls[k].email \in ValidEmail /\ calls[k].email \in Email
    BY DEF TypeInv, CallsKnow, CallKnows, CreateInsert, Email
  <1>2. PICK status \in Status : Reply(k, "create", calls[k].email, status)
    BY DEF CreateInsert, Status
  <1>3. CASE UNCHANGED credentials
    BY <1>1, <1>2, <1>3, SameTablesKeepRows, ReplyKeepsTypeInv
       DEF Op, TypeInv, TypeOK, CreateInsert, tables
  <1>4. CASE \E c \in CredId :
                /\ credentials[c] = NULL
                /\ credentials' = [credentials EXCEPT
                      ![c] = [email |-> calls[k].email, email_verified |-> FALSE]]
    <2>1. PICK c \in CredId :
                /\ credentials[c] = NULL
                /\ credentials' = [credentials EXCEPT
                      ![c] = [email |-> calls[k].email, email_verified |-> FALSE]]
      BY <1>4
    <2>2. [email |-> calls[k].email, email_verified |-> FALSE] \in Credential
      BY <1>1 DEF Credential
    <2>3. credentials' \in [CredId -> Credential \cup {NULL}]
      BY <2>1, <2>2 DEF TypeInv, TypeOK
    <2>4. KeepsRows
      BY <2>1 DEF TypeInv, TypeOK, KeepsRows, CreateInsert
    <2> QED
      BY <1>1, <1>2, <2>3, <2>4, ReplyKeepsTypeInv DEF Op, TypeInv, TypeOK, CreateInsert
  <1> QED
    BY <1>3, <1>4 DEF CreateInsert

-----------------------------------------------------------------------------
(* request_email_verification                                              *)

LEMMA RequestStartTypeInv ==
    ASSUME TypeInv, NEW k \in Call, NEW e \in Email, RequestStart(k, e)
    PROVE  TypeInv'
  <1>1. KeepsRows /\ UNCHANGED <<tables, clock>>
    BY SameTablesKeepRows DEF RequestStart
  <1>2. CASE \E status \in Status : Reply(k, "request", e, status)
    BY <1>1, <1>2, ReplyKeepsTypeInv DEF Op, TypeInv, TypeOK, tables
  <1>3. CASE /\ e \in ValidEmail
             /\ \E c \in ByEmail(e) : calls' = [calls EXCEPT ![k] = [Idle EXCEPT
                   !.pc = "request_latest", !.op = "request", !.email = e, !.cred = c]]
    <2>1. PICK c \in ByEmail(e) : calls' = [calls EXCEPT ![k] = [Idle EXCEPT
             !.pc = "request_latest", !.op = "request", !.email = e, !.cred = c]]
      BY <1>3
    <2>2. Owns(c, e)
      BY DEF ByEmail, Owns
    <2>3. calls' \in [Call -> CallState]
      BY <2>1, <2>2 DEF TypeInv, TypeOK, CallState, Idle, Pc, Op, Owns
    <2>4. CallKnows(calls[k])'
      BY <1>1, <1>3, <2>1, <2>2 DEF TypeInv, TypeOK, CallState, Idle, CallKnows, Owns, tables
    <2> QED
      BY <1>1, <2>1, <2>3, <2>4, KnowsStable DEF TypeInv, TypeOK, tables
  <1> QED
    BY <1>2, <1>3 DEF RequestStart, Status

LEMMA RequestLatestTypeInv ==
    ASSUME TypeInv, NEW k \in Call, RequestLatest(k)
    PROVE  TypeInv'
  <1>1. KeepsRows /\ UNCHANGED <<tables, clock>>
    BY SameTablesKeepRows DEF RequestLatest
  <1>2. calls[k].email \in Email \cup {NULL}
    BY DEF TypeInv, TypeOK, CallState
  <1>3. CASE Reply(k, "request", calls[k].email, "ok")
    BY <1>1, <1>2, <1>3, ReplyKeepsTypeInv DEF Op, Status, TypeInv, TypeOK, tables
  <1>4. CASE ActiveOf(calls[k].cred) = {}
    <2> DEFINE c == calls[k].cred
               new(token) == [code |-> Hash(token), credential_id |-> c,
                              attempt_count |-> 0, used |-> FALSE,
                              expires_at |-> clock + CodeLifetime, created_at |-> 0]
    <2>1. ASSUME ~Reply(k, "request", calls[k].email, "ok")
          PROVE  \E token \in Code : calls' = [calls EXCEPT ![k] = [@ EXCEPT
                    !.pc = "request_insert", !.token = token, !.row = new(token)]]
      BY <2>1, <1>4 DEF RequestLatest
    <2>2. ASSUME NEW token \in Code,
                 calls' = [calls EXCEPT ![k] = [@ EXCEPT
                    !.pc = "request_insert", !.token = token, !.row = new(token)]]
          PROVE  TypeInv'
      <3>1. Owns(c, calls[k].email) /\ calls[k].email \in ValidEmail
        BY DEF TypeInv, CallsKnow, CallKnows, RequestLatest
      <3>2. new(token) \in Verification
        <4>1. clock + CodeLifetime \in Nat /\ 0 \in 0..I32Max
          BY ConstantsAssumption DEF TypeInv, TypeOK
        <4>2. Hash(token) \in HashedCode
          BY DEF Hash, HashedCode
        <4> QED
          BY <3>1, <4>1, <4>2 DEF Verification, Owns
      <3> HIDE DEF new
      <3>3. calls' \in [Call -> CallState]
        <4>1. calls[k] \in CallState /\ "request_insert" \in Pc
          BY DEF TypeInv, TypeOK, Pc
        <4>2. [calls[k] EXCEPT !.pc = "request_insert", !.token = token,
                 !.row = new(token)] \in CallState
          BY <3>2, <4>1, MovedIsCall
        <4> QED
          BY <2>2, <4>2 DEF TypeInv, TypeOK
      <3>4. /\ calls'[k].pc = "request_insert" /\ calls'[k].token = token
            /\ calls'[k].row = new(token) /\ calls'[k].cred = c
            /\ calls'[k].email = calls[k].email
        BY <2>2 DEF TypeInv, TypeOK, CallState
      <3>5. CallKnows(calls[k])'
        BY <1>1, <3>1, <3>2, <3>4 DEF CallKnows, Owns, tables, new
      <3> QED
        BY <1>1, <2>2, <3>3, <3>5, KnowsStable DEF TypeInv, TypeOK, tables
    <2> QED
      BY <1>3, <2>1, <2>2
  <1> QED
    BY <1>3, <1>4 DEF RequestLatest

LEMMA RequestInsertTypeInv ==
    ASSUME TypeInv, NEW k \in Call, RequestInsert(k)
    PROVE  TypeInv'
  <1>1. KeepsRows /\ UNCHANGED <<tables, clock>>
    BY SameTablesKeepRows DEF RequestInsert
  <1>2. CASE Reply(k, "request", calls[k].email, "internal")
    BY <1>1, <1>2, ReplyKeepsTypeInv DEF Op, Status, TypeInv, TypeOK, CallState, tables
  <1>3. CASE calls' = [calls EXCEPT ![k] = [@ EXCEPT
                !.pc = "request_commit", !.row = [calls[k].row EXCEPT !.created_at = clock]]]
    <2> DEFINE stamped == [calls[k].row EXCEPT !.created_at = clock]
    <2>1. /\ calls[k].pc = "request_insert" /\ calls[k].row \in Verification
          /\ CallKnows(calls[k])
      BY DEF TypeInv, CallsKnow, CallKnows, RequestInsert
    <2>2. /\ stamped \in Verification /\ stamped.code = calls[k].row.code
          /\ stamped.credential_id = calls[k].row.credential_id
          /\ stamped.used = calls[k].row.used
      BY <2>1 DEF Verification, TypeInv, TypeOK
    <2> HIDE DEF stamped
    <2>3. calls' = [calls EXCEPT ![k] = [@ EXCEPT !.pc = "request_commit", !.row = stamped]]
      BY <1>3 DEF stamped
    <2>4. calls' \in [Call -> CallState]
      <3>1. calls[k] \in CallState /\ "request_commit" \in Pc
        BY DEF TypeInv, TypeOK, Pc
      <3>2. [calls[k] EXCEPT !.pc = "request_commit", !.row = stamped] \in CallState
        BY <2>2, <3>1, MovedIsCall
      <3> QED
        BY <2>3, <3>2 DEF TypeInv, TypeOK
    <2>5. /\ calls'[k].pc = "request_commit" /\ calls'[k].token = calls[k].token
          /\ calls'[k].row = stamped /\ calls'[k].cred = calls[k].cred
          /\ calls'[k].email = calls[k].email
      BY <2>3 DEF TypeInv, TypeOK, CallState
    <2>6. CallKnows(calls[k])'
      BY <1>1, <2>1, <2>2, <2>5 DEF CallKnows, Owns, tables
    <2> QED
      BY <1>1, <2>3, <2>4, <2>6, KnowsStable DEF TypeInv, TypeOK, tables
  <1> QED
    BY <1>2, <1>3 DEF RequestInsert

LEMMA RequestCommitTypeInv ==
    ASSUME TypeInv, NEW k \in Call, RequestCommit(k)
    PROVE  TypeInv'
  <1>1. /\ calls[k].email \in ValidEmail /\ calls[k].token \in Code
        /\ calls[k].row \in Verification
    BY DEF TypeInv, CallsKnow, CallKnows, RequestCommit
  <1>2. PICK status \in Status : Reply(k, "request", calls[k].email, status)
    BY DEF RequestCommit, Status
  <1>3. PICK v \in VerId : /\ verifications[v] = NULL
                           /\ verifications' = [verifications EXCEPT ![v] = calls[k].row]
    BY DEF RequestCommit
  <1>4. verifications' \in [VerId -> Verification \cup {NULL}] /\ KeepsRows
    BY <1>1, <1>3 DEF TypeInv, TypeOK, RequestCommit, KeepsRows
  <1>5. outbox' \in Seq(Message)
    <2>1. MailFor(calls[k]) \in Message
      BY <1>1 DEF MailFor, CodeMail, Message
    <2> QED
      BY <2>1 DEF RequestCommit, TypeInv, TypeOK
  <1> QED
    BY <1>1, <1>2, <1>4, <1>5, ReplyKeepsTypeInv DEF Email, Op, TypeInv, TypeOK, RequestCommit

-----------------------------------------------------------------------------
(* verify_email                                                            *)

LEMMA VerifyStartTypeInv ==
    ASSUME TypeInv, NEW k \in Call, NEW e \in Email, NEW token \in Code \cup ShortCode,
           VerifyStart(k, e, token)
    PROVE  TypeInv'
  <1>1. KeepsRows /\ UNCHANGED <<tables, clock>>
    BY SameTablesKeepRows DEF VerifyStart
  <1>2. CASE \E status \in Status : Reply(k, "verify", e, status)
    BY <1>1, <1>2, ReplyKeepsTypeInv DEF Op, TypeInv, TypeOK, tables
  <1> DEFINE copy(v) == [verifications[v] EXCEPT !.attempt_count = SaturatingInc(@)]
             reading(v) == [Idle EXCEPT
                    !.pc = "verify_check", !.op = "verify",
                    !.email = e, !.token = token, !.ver = v, !.row = copy(v)]
  <1>3. CASE /\ token \notin ShortCode /\ e \in ValidEmail
             /\ \E v \in Newest(ActiveByEmail(e)) : calls' = [calls EXCEPT ![k] = reading(v)]
    <2>1. PICK v \in Newest(ActiveByEmail(e)) : calls' = [calls EXCEPT ![k] = reading(v)]
      BY <1>3
    <2>2. v \in ActiveByEmail(e)
      BY DEF Newest
    <2>3. /\ v \in VerId /\ verifications[v] \in Verification /\ ~verifications[v].used
          /\ Owns(verifications[v].credential_id, e)
      BY <2>2, NullAssumption DEF ActiveByEmail, Active, ByEmail, Owns, TypeInv, TypeOK
    <2>4. SaturatingInc(verifications[v].attempt_count) \in 0..I32Max
      BY <2>3, SaturatingIncType DEF Verification
    <2>5. /\ copy(v) \in Verification /\ copy(v).code = verifications[v].code
          /\ copy(v).credential_id = verifications[v].credential_id
          /\ ~copy(v).used
      BY <2>3, <2>4 DEF Verification
    <2> HIDE DEF copy
    <2>6. reading(v) \in CallState
      BY <1>3, <2>3, <2>5 DEF CallState, Idle, Pc, Op
    <2>7. /\ reading(v).pc = "verify_check" /\ reading(v).email = e
          /\ reading(v).ver = v /\ reading(v).row = copy(v)
      BY DEF Idle
    <2> HIDE DEF reading
    <2>8. calls' \in [Call -> CallState] /\ calls'[k] = reading(v)
      BY <2>1, <2>6 DEF TypeInv, TypeOK
    <2>9. CallKnows(calls[k])'
      BY <1>1, <1>3, <2>3, <2>5, <2>7, <2>8, NullAssumption DEF CallKnows, CopyOf, Owns, tables
    <2> QED
      BY <1>1, <2>1, <2>8, <2>9, KnowsStable DEF TypeInv, TypeOK, tables
  <1> QED
    BY <1>2, <1>3 DEF VerifyStart, Status

LEMMA VerifyCheckTypeInv ==
    ASSUME TypeInv, NEW k \in Call, VerifyCheck(k)
    PROVE  TypeInv'
  <1>1. KeepsRows /\ UNCHANGED <<tables, clock>>
    BY SameTablesKeepRows DEF VerifyCheck
  <1>2. /\ calls[k].pc = "verify_check" /\ calls[k].row \in Verification
        /\ CallKnows(calls[k]) /\ calls[k] \in CallState
    BY DEF TypeInv, TypeOK, CallsKnow, CallKnows, CopyOf, VerifyCheck
  <1>3. CASE Goto(k, "verify_reject")
    <2>1. calls' = [calls EXCEPT ![k] = [calls[k] EXCEPT !.pc = "verify_reject"]]
      BY <1>3 DEF Goto
    <2>2. [calls[k] EXCEPT !.pc = "verify_reject"] \in CallState
      BY <1>2, MovedIsCall DEF Pc
    <2>3. calls' \in [Call -> CallState]
      BY <2>1, <2>2 DEF TypeInv, TypeOK
    <2>4. /\ calls'[k].pc = "verify_reject" /\ calls'[k].email = calls[k].email
          /\ calls'[k].ver = calls[k].ver /\ calls'[k].row = calls[k].row
      BY <1>2, <2>1 DEF TypeInv, TypeOK, CallState
    <2>5. CallKnows(calls[k])'
      BY <1>1, <1>2, <2>4 DEF CallKnows, CopyOf, Owns, tables
    <2> QED
      BY <1>1, <2>1, <2>3, <2>5, KnowsStable DEF TypeInv, TypeOK, tables
  <1> DEFINE spent == [calls[k].row EXCEPT !.used = TRUE]
  <1>4. CASE /\ Accepts(calls[k].row, calls[k].token)
             /\ calls' = [calls EXCEPT ![k] = [@ EXCEPT !.pc = "verify_update", !.row = spent]]
    <2>1. /\ spent \in Verification /\ spent.code = calls[k].row.code /\ spent.used
          /\ spent.credential_id = calls[k].row.credential_id
      BY <1>2 DEF Verification
    <2> HIDE DEF spent
    <2>2. [calls[k] EXCEPT !.pc = "verify_update", !.row = spent] \in CallState
      BY <1>2, <2>1, MovedIsCall DEF Pc
    <2>3. calls' \in [Call -> CallState]
      BY <1>4, <2>2 DEF TypeInv, TypeOK
    <2>4. /\ calls'[k].pc = "verify_update" /\ calls'[k].email = calls[k].email
          /\ calls'[k].ver = calls[k].ver /\ calls'[k].row = spent
          /\ calls'[k].token = calls[k].token
      BY <1>2, <1>4 DEF TypeInv, TypeOK, CallState
    <2>5. CallKnows(calls[k])'
      BY <1>1, <1>2, <1>4, <2>1, <2>4 DEF CallKnows, CopyOf, Owns, tables, Accepts
    <2> QED
      BY <1>1, <1>4, <2>3, <2>5, KnowsStable DEF TypeInv, TypeOK, tables
  <1> QED
    BY <1>3, <1>4 DEF VerifyCheck

\* The steps of a verify call that only move it on.
LEMMA VerifyGotoTypeInv ==
    ASSUME TypeInv, NEW k \in Call,
           NEW pc \in {"verify_credential", "verify_commit"}, Goto(k, pc),
           calls[k].pc \in {"verify_update", "verify_credential"},
           UNCHANGED <<tables, clock>>
    PROVE  TypeInv'
  <1>1. CallKnows(calls[k]) /\ calls[k] \in CallState /\ KeepsRows
    BY SameTablesKeepRows DEF TypeInv, TypeOK, CallsKnow
  <1>2. calls[k].row \in Verification
    BY <1>1 DEF CallKnows, CopyOf
  <1>3. calls' = [calls EXCEPT ![k] = [calls[k] EXCEPT !.pc = pc]]
    BY DEF Goto
  <1>4. [calls[k] EXCEPT !.pc = pc] \in CallState
    BY <1>1, <1>2, MovedIsCall DEF Pc
  <1>5. calls' \in [Call -> CallState]
    BY <1>3, <1>4 DEF TypeInv, TypeOK
  <1>6. /\ calls'[k].pc = pc /\ calls'[k].email = calls[k].email
        /\ calls'[k].ver = calls[k].ver /\ calls'[k].row = calls[k].row
        /\ calls'[k].token = calls[k].token
    BY <1>1, <1>3 DEF TypeInv, TypeOK, CallState
  <1>7. CallKnows(calls[k])'
    BY <1>1, <1>6 DEF CallKnows, CopyOf, Owns, tables
  <1> QED
    BY <1>1, <1>3, <1>5, <1>7, KnowsStable DEF TypeInv, TypeOK, tables

LEMMA VerifyUpdateTypeInv ==
    ASSUME TypeInv, NEW k \in Call, VerifyUpdate(k)
    PROVE  TypeInv'
  BY VerifyGotoTypeInv DEF VerifyUpdate

LEMMA VerifyCredentialTypeInv ==
    ASSUME TypeInv, NEW k \in Call, VerifyCredential(k)
    PROVE  TypeInv'
  <1>1. CASE Reply(k, "verify", calls[k].email, "internal")
    BY <1>1, ReplyKeepsTypeInv, SameTablesKeepRows
       DEF VerifyCredential, Op, Status, TypeInv, TypeOK, CallState, tables
  <1>2. CASE Goto(k, "verify_commit")
    BY <1>2, VerifyGotoTypeInv DEF VerifyCredential
  <1> QED
    BY <1>1, <1>2 DEF VerifyCredential

\* What a call that writes its copy back relies on.
LEMMA WritingBack ==
    ASSUME TypeInv, NEW k \in Call,
           calls[k].pc \in {"verify_reject", "verify_commit"},
           verifications' = WriteBack(calls[k])
    PROVE  /\ calls[k] \in CallState /\ calls[k].ver \in VerId
           /\ verifications[calls[k].ver] # NULL /\ calls[k].row \in Verification
           /\ calls[k].row.code = verifications[calls[k].ver].code
           /\ calls[k].row.credential_id = verifications[calls[k].ver].credential_id
           /\ Owns(calls[k].row.credential_id, calls[k].email)
           /\ calls[k].email \in ValidEmail
           /\ verifications' \in [VerId -> Verification \cup {NULL}]
           /\ \A v \in VerId :
                 /\ verifications'[v] = NULL <=> verifications[v] = NULL
                 /\ verifications[v] # NULL =>
                       /\ verifications'[v].code = verifications[v].code
                       /\ verifications'[v].credential_id = verifications[v].credential_id
                 /\ v # calls[k].ver => verifications'[v] = verifications[v]
           /\ verifications'[calls[k].ver].used = calls[k].row.used
  <1>1. calls[k] \in CallState /\ CallKnows(calls[k])
    BY DEF TypeInv, TypeOK, CallsKnow
  <1>2. CopyOf(calls[k].ver, calls[k]) /\ calls[k].email \in ValidEmail
    BY <1>1 DEF CallKnows
  <1> QED
    BY <1>1, <1>2, WriteBackKeeps DEF CopyOf, TypeInv

LEMMA VerifyRejectTypeInv ==
    ASSUME TypeInv, NEW k \in Call, VerifyReject(k)
    PROVE  TypeInv'
  <1>1. /\ verifications' \in [VerId -> Verification \cup {NULL}]
        /\ KeepsRows
    BY WritingBack DEF VerifyReject, KeepsRows
  <1>2. PICK status \in Status : Reply(k, "verify", calls[k].email, status)
    BY DEF VerifyReject, Status
  <1> QED
    BY <1>1, <1>2, ReplyKeepsTypeInv
       DEF VerifyReject, Op, TypeInv, TypeOK, CallState

LEMMA VerifyCommitTypeInv ==
    ASSUME TypeInv, NEW k \in Call, VerifyCommit(k)
    PROVE  TypeInv'
  <1> DEFINE e == calls[k].email
  <1>1. /\ verifications' \in [VerId -> Verification \cup {NULL}]
        /\ calls[k].row \in Verification
        /\ \A v \in VerId : verifications[v] # NULL =>
              /\ verifications'[v] # NULL
              /\ verifications'[v].code = verifications[v].code
              /\ verifications'[v].credential_id = verifications[v].credential_id
    BY WritingBack DEF VerifyCommit
  <1>2. /\ credentials' \in [CredId -> Credential \cup {NULL}]
        /\ \A c \in CredId : credentials[c] # NULL =>
              credentials'[c] # NULL /\ credentials'[c].email = credentials[c].email
    <2> SUFFICES ASSUME NEW c \in CredId
                 PROVE  /\ credentials'[c] \in Credential \cup {NULL}
                        /\ credentials[c] # NULL =>
                              credentials'[c] # NULL /\ credentials'[c].email = credentials[c].email
      BY DEF VerifyCommit
    <2>1. CASE c \in ToVerify(e)
      <3>1. credentials[c] \in Credential
        BY <2>1 DEF ToVerify, ByEmail, TypeInv, TypeOK
      <3>2. credentials'[c] = [credentials[c] EXCEPT !.email_verified = TRUE]
        BY <2>1 DEF VerifyCommit
      <3> QED
        BY <3>1, <3>2, NullAssumption DEF Credential
    <2>2. CASE c \notin ToVerify(e)
      BY <2>2 DEF VerifyCommit, TypeInv, TypeOK
    <2> QED
      BY <2>1, <2>2
  <1>3. outbox' \in Seq(Message)
    <2>1. EmailVerified(calls[k].row.credential_id) \in Message
      BY <1>1 DEF Verification, EmailVerified, Message
    <2> QED
      BY <2>1 DEF VerifyCommit, TypeInv, TypeOK
  <1>4. PICK status \in Status : Reply(k, "verify", e, status)
    BY DEF VerifyCommit, Status
  <1>5. KeepsRows
    BY <1>1, <1>2 DEF KeepsRows
  <1> QED
    BY <1>1, <1>2, <1>3, <1>4, <1>5, ReplyKeepsTypeInv
       DEF VerifyCommit, Op, TypeInv, TypeOK, CallState

-----------------------------------------------------------------------------
(* The end of a call, its failures, and time                               *)

LEMMA BackToIdleTypeInv ==
    ASSUME TypeInv, NEW k \in Call, calls' = [calls EXCEPT ![k] = Idle],
           UNCHANGED <<tables, clock>>
    PROVE  TypeInv'
  <1>1. Idle \in CallState
    BY DEF Idle, CallState, Pc
  <1>2. calls' \in [Call -> CallState] /\ calls'[k] = Idle
    BY <1>1 DEF TypeInv, TypeOK
  <1>3. CallKnows(calls[k])'
    BY <1>2 DEF CallKnows, Idle
  <1> QED
    BY <1>2, <1>3, KnowsStable, SameTablesKeepRows DEF TypeInv, TypeOK, tables

LEMMA DatabaseErrorTypeInv ==
    ASSUME TypeInv, NEW k \in Call, DatabaseError(k)
    PROVE  TypeInv'
  BY ReplyKeepsTypeInv, SameTablesKeepRows
     DEF DatabaseError, Status, TypeInv, TypeOK, CallState, tables

LEMMA TickTypeInv ==
    ASSUME TypeInv, Tick
    PROVE  TypeInv'
  <1>1. TypeOK'
    BY DEF Tick, tables, TypeInv, TypeOK
  <1>2. CallsKnow'
    BY DEF Tick, tables, TypeInv, CallsKnow, CallKnows, CopyOf, Owns
  <1> QED
    BY <1>1, <1>2 DEF TypeInv

LEMMA NextTypeInv == TypeInv /\ [Next]_vars => TypeInv'
  <1> SUFFICES ASSUME TypeInv, [Next]_vars PROVE TypeInv'
    OBVIOUS
  <1>1. ASSUME NEW k \in Call, Start(k) PROVE TypeInv'
    BY <1>1, CreateStartTypeInv, RequestStartTypeInv, VerifyStartTypeInv, StartFailsTypeInv
       DEF Start
  <1>2. ASSUME NEW k \in Call, Step(k) PROVE TypeInv'
    BY <1>2, CreateInsertTypeInv, RequestLatestTypeInv, RequestInsertTypeInv,
       RequestCommitTypeInv, VerifyCheckTypeInv, VerifyRejectTypeInv, VerifyUpdateTypeInv,
       VerifyCredentialTypeInv, VerifyCommitTypeInv, BackToIdleTypeInv DEF Step, Return
  <1>3. ASSUME NEW k \in Call, Dropped(k) PROVE TypeInv'
    BY <1>3, BackToIdleTypeInv DEF Dropped
  <1>4. CASE UNCHANGED vars
    BY <1>4 DEF vars, tables, TypeInv, TypeOK, CallsKnow, CallKnows, CopyOf, Owns
  <1> QED
    BY <1>1, <1>2, <1>3, <1>4, DatabaseErrorTypeInv, TickTypeInv DEF Next

\* Every table, the outbox and every call in flight keep their types, in every
\* behaviour of the three handlers.
THEOREM TypeCorrect == Spec => []TypeOK
  <1>1. TypeInv => TypeOK
    BY DEF TypeInv
  <1> QED
    BY <1>1, InitTypeInv, NextTypeInv, PTL DEF Spec

\* What a call read stays true of the tables until it writes: no overlapping
\* handler removes a row, moves an address, or replaces the code or the
\* credential of a row that a verify_email call holds a copy of.
THEOREM CopiesStayCurrent == Spec => []CallsKnow
  <1>1. TypeInv => CallsKnow
    BY DEF TypeInv
  <1> QED
    BY <1>1, InitTypeInv, NextTypeInv, PTL DEF Spec

-----------------------------------------------------------------------------
(* The invariants that rest on the locks                                   *)

LEMMA InitInv == Init => Inv
  <1> SUFFICES ASSUME Init PROVE Inv
    OBVIOUS
  <1>1. RowsRefer /\ UniqueEmail /\ UsedOnlyIfVerified
    BY DEF Init, RowsRefer, UniqueEmail, Owns, UsedOnlyIfVerified
  <1>2. UniqueCode /\ OneCommitPerAccount
    BY DEF Init, Idle, UniqueCode, OneCommitPerAccount
  <1>3. VerifiedEventOnce
    BY DEF Init, VerifiedEventOnce, Verified
  <1> QED
    BY <1>1, <1>2, <1>3, InitTypeInv DEF Inv

\* The invariants of the committed rows alone.
LEMMA TablesStable ==
    ASSUME Inv, UNCHANGED tables
    PROVE  RowsRefer' /\ UniqueEmail' /\ UsedOnlyIfVerified' /\ VerifiedEventOnce'
  <1>1. RowsRefer' /\ UniqueEmail'
    BY DEF Inv, tables, RowsRefer, UniqueEmail, Owns
  <1>2. UsedOnlyIfVerified' /\ VerifiedEventOnce'
    BY DEF Inv, tables, UsedOnlyIfVerified, Verified, VerifiedEventOnce
  <1> QED
    BY <1>1, <1>2

\* The uniqueness of codes, under a step that stores none and inserts none.
LEMMA UniqueCodeStable ==
    ASSUME Inv, NEW k \in Call, calls'[k].pc # "request_commit",
           \A j \in Call : j # k => calls'[j] = calls[j],
           \A v \in VerId :
              /\ verifications'[v] = NULL <=> verifications[v] = NULL
              /\ verifications[v] # NULL =>
                    /\ verifications'[v].code = verifications[v].code
                    /\ verifications'[v].credential_id = verifications[v].credential_id
    PROVE  UniqueCode'
  <1>1. \A j \in Call : calls'[j].pc = "request_commit" => j # k /\ calls'[j] = calls[j]
    OBVIOUS
  <1> QED
    BY <1>1 DEF Inv, UniqueCode

\* The exclusion of commits, under a step that verifies no account and brings
\* no call to its commit.
LEMMA OneCommitStable ==
    ASSUME Inv, NEW k \in Call, calls'[k].pc # "verify_commit",
           \A j \in Call : j # k => calls'[j] = calls[j],
           \A c \in CredId : credentials[c] # NULL =>
              credentials'[c].email_verified = credentials[c].email_verified
    PROVE  OneCommitPerAccount'
  <1>1. \A j \in Call : calls'[j].pc = "verify_commit" => j # k /\ calls'[j] = calls[j]
    OBVIOUS
  <1>2. \A j \in Call : calls[j].pc = "verify_commit" =>
           /\ calls[j].row.credential_id \in CredId
           /\ credentials[calls[j].row.credential_id] # NULL
    BY DEF Inv, TypeInv, CallsKnow, CallKnows, CopyOf, Owns
  <1> QED
    BY <1>1, <1>2 DEF Inv, OneCommitPerAccount

\* A step that leaves the tables alone and brings no call to a commit.
LEMMA QuietStepInv ==
    ASSUME Inv, TypeInv', UNCHANGED tables, NEW k \in Call,
           calls'[k].pc \notin {"request_commit", "verify_commit"},
           \A j \in Call : j # k => calls'[j] = calls[j]
    PROVE  Inv'
  <1>1. UniqueCode' /\ OneCommitPerAccount'
    BY UniqueCodeStable, OneCommitStable DEF tables
  <1> QED
    BY <1>1, TablesStable DEF Inv

\* The event of a step that announces no account.
LEMMA EventStable ==
    ASSUME Inv, outbox \in Seq(Message),
           \A c \in CredId : Verified(c)' <=> Verified(c),
           \/ UNCHANGED outbox
           \/ \E e \in ValidEmail, t \in Code : outbox' = Append(outbox, CodeMail(e, t))
    PROVE  VerifiedEventOnce'
  <1>1. CASE UNCHANGED outbox
    BY <1>1 DEF Inv, VerifiedEventOnce, EmailVerified
  <1>2. CASE \E e \in ValidEmail, t \in Code : outbox' = Append(outbox, CodeMail(e, t))
    <2>1. PICK e \in ValidEmail, t \in Code : outbox' = Append(outbox, CodeMail(e, t))
      BY <1>2
    <2>2. \A c \in CredId : CodeMail(e, t) # EmailVerified(c)
      BY DEF CodeMail, EmailVerified
    <2>3. /\ DOMAIN outbox' = 1..(Len(outbox) + 1) /\ DOMAIN outbox = 1..Len(outbox)
          /\ Len(outbox) \in Nat
          /\ \A i \in 1..Len(outbox) : outbox'[i] = outbox[i]
          /\ outbox'[Len(outbox) + 1] = CodeMail(e, t)
      BY <2>1
    <2>4. \A c \in CredId, i \in DOMAIN outbox' :
             outbox'[i] = EmailVerified(c) => i \in DOMAIN outbox /\ outbox[i] = EmailVerified(c)
      BY <2>2, <2>3
    <2>5. \A c \in CredId, i \in DOMAIN outbox :
             i \in DOMAIN outbox' /\ outbox'[i] = outbox[i]
      BY <2>3
    <2> SUFFICES ASSUME NEW c \in CredId
                 PROVE  /\ Verified(c)' <=> \E i \in DOMAIN outbox' : outbox'[i] = EmailVerified(c)
                        /\ \A i, j \in DOMAIN outbox' :
                             outbox'[i] = EmailVerified(c) /\ outbox'[j] = EmailVerified(c) => i = j
      BY DEF VerifiedEventOnce, EmailVerified
    <2>6. /\ Verified(c) <=> \E i \in DOMAIN outbox : outbox[i] = EmailVerified(c)
          /\ \A i, j \in DOMAIN outbox :
                outbox[i] = EmailVerified(c) /\ outbox[j] = EmailVerified(c) => i = j
      BY DEF Inv, VerifiedEventOnce
    <2> QED
      BY <2>4, <2>5, <2>6
  <1> QED
    BY <1>1, <1>2

LEMMA CreateInsertInv ==
    ASSUME Inv, TypeInv', NEW k \in Call, CreateInsert(k)
    PROVE  Inv'
  <1>1. PICK status \in Status : Reply(k, "create", calls[k].email, status)
    BY DEF CreateInsert, Status
  <1>2. /\ calls'[k].pc = "replied" /\ \A j \in Call : j # k => calls'[j] = calls[j]
    BY <1>1, ReplyIsCall DEF Inv, TypeInv, TypeOK, CallState, Op
  <1>3. CASE UNCHANGED credentials
    BY <1>2, <1>3, QuietStepInv DEF CreateInsert, tables
  <1>4. CASE /\ ByEmail(calls[k].email) = {}
             /\ \E c \in CredId :
                  /\ credentials[c] = NULL
                  /\ credentials' = [credentials EXCEPT
                        ![c] = [email |-> calls[k].email, email_verified |-> FALSE]]
    <2> DEFINE new == [email |-> calls[k].email, email_verified |-> FALSE]
    <2>1. PICK c \in CredId : /\ credentials[c] = NULL
                              /\ credentials' = [credentials EXCEPT ![c] = new]
      BY <1>4
    <2>2. /\ new.email = calls[k].email /\ ~new.email_verified /\ new \in Credential
      BY DEF Inv, TypeInv, CallsKnow, CallKnows, CreateInsert, Credential
    <2> HIDE DEF new
    <2>3. /\ credentials'[c] = new /\ new # NULL
          /\ \A d \in CredId : d # c => credentials'[d] = credentials[d]
          /\ \A d \in CredId : credentials[d] # NULL => credentials'[d] = credentials[d]
          /\ verifications' = verifications /\ outbox' = outbox
      BY <2>1, <2>2, NullAssumption DEF Inv, TypeInv, TypeOK, CreateInsert
    <2>4. RowsRefer'
      BY <2>3 DEF Inv, RowsRefer, TypeInv, TypeOK, Verification
    <2>5. UniqueEmail'
      BY <1>4, <2>2, <2>3 DEF Inv, UniqueEmail, Owns, ByEmail
    <2>6. UniqueCode'
      BY <1>2, <2>3, UniqueCodeStable
    <2>7. OneCommitPerAccount'
      BY <1>2, <2>3, OneCommitStable
    <2>8. \A d \in CredId : Verified(d)' <=> Verified(d)
      BY <2>1, <2>2, <2>3 DEF Verified
    <2>9. UsedOnlyIfVerified'
      BY <2>3, <2>8 DEF Inv, UsedOnlyIfVerified, TypeInv, TypeOK, Verification
    <2>10. VerifiedEventOnce'
      BY <2>3, <2>8, EventStable DEF Inv, TypeInv, TypeOK
    <2> QED
      BY <2>4, <2>5, <2>6, <2>7, <2>9, <2>10 DEF Inv
  <1> QED
    BY <1>3, <1>4 DEF CreateInsert

\* The unique index keeps a second insert of a key waiting until the first one
\* has committed, and then refuses it.
LEMMA RequestInsertInv ==
    ASSUME Inv, TypeInv', NEW k \in Call, RequestInsert(k)
    PROVE  Inv'
  <1>1. CASE Reply(k, "request", calls[k].email, "internal")
    <2>1. calls'[k].pc = "replied" /\ \A j \in Call : j # k => calls'[j] = calls[j]
      BY <1>1, ReplyIsCall DEF Inv, TypeInv, TypeOK, CallState, Op, Status
    <2> QED
      BY <2>1, QuietStepInv DEF RequestInsert
  <1> DEFINE r == calls[k].row
             stamped == [r EXCEPT !.created_at = clock]
  <1>2. CASE /\ ~\E v \in VerId : /\ verifications[v] # NULL
                                  /\ verifications[v].credential_id = r.credential_id
                                  /\ verifications[v].code = r.code
             /\ calls' = [calls EXCEPT ![k] = [@ EXCEPT
                   !.pc = "request_commit", !.row = stamped]]
    <2>1. r \in Verification
      BY DEF Inv, TypeInv, CallsKnow, CallKnows, RequestInsert
    <2>2. stamped.code = r.code /\ stamped.credential_id = r.credential_id
      BY <2>1 DEF Verification
    <2> HIDE DEF stamped
    <2>3. /\ calls'[k].pc = "request_commit" /\ calls'[k].row = stamped
          /\ \A j \in Call : j # k => calls'[j] = calls[j]
      BY <1>2 DEF Inv, TypeInv, TypeOK, CallState
    <2>4. \A j \in Call : j # k /\ calls[j].pc = "request_commit" =>
             \/ calls[j].row.credential_id # r.credential_id
             \/ calls[j].row.code # r.code
      BY DEF RequestInsert, KeyFree, LocksKey
    <2>5. UniqueCode'
      BY <1>2, <2>2, <2>3, <2>4 DEF Inv, UniqueCode, RequestInsert, tables
    <2>6. OneCommitPerAccount'
      BY <2>3, OneCommitStable DEF RequestInsert, tables
    <2> QED
      BY <2>5, <2>6, TablesStable DEF Inv, RequestInsert
  <1> QED
    BY <1>1, <1>2 DEF RequestInsert

LEMMA RequestCommitInv ==
    ASSUME Inv, TypeInv', NEW k \in Call, RequestCommit(k)
    PROVE  Inv'
  <1> DEFINE r == calls[k].row
  <1>1. PICK status \in Status : Reply(k, "request", calls[k].email, status)
    BY DEF RequestCommit, Status
  <1>2. /\ calls'[k].pc = "replied" /\ \A j \in Call : j # k => calls'[j] = calls[j]
    BY <1>1, ReplyIsCall DEF Inv, TypeInv, TypeOK, CallState, Op
  <1>3. /\ calls[k].pc = "request_commit" /\ calls[k].email \in ValidEmail
        /\ calls[k].token \in Code /\ r \in Verification /\ ~r.used
        /\ Owns(r.credential_id, calls[k].email)
    BY DEF Inv, TypeInv, CallsKnow, CallKnows, RequestCommit
  <1>4. PICK v \in VerId : /\ verifications[v] = NULL
                           /\ verifications' = [verifications EXCEPT ![v] = r]
    BY DEF RequestCommit
  <1>5. /\ verifications'[v] = r /\ r # NULL
        /\ \A w \in VerId : w # v => verifications'[w] = verifications[w]
        /\ credentials' = credentials
    BY <1>3, <1>4, NullAssumption DEF Inv, TypeInv, TypeOK, RequestCommit
  <1>6. RowsRefer' /\ UniqueEmail'
    BY <1>3, <1>5 DEF Inv, RowsRefer, UniqueEmail, Owns
  <1>7. UniqueCode'
    BY <1>2, <1>3, <1>4, <1>5 DEF Inv, UniqueCode
  <1>8. OneCommitPerAccount'
    BY <1>2, <1>5, OneCommitStable
  <1>9. UsedOnlyIfVerified'
    BY <1>3, <1>5 DEF Inv, UsedOnlyIfVerified, Verified
  <1>10. VerifiedEventOnce'
    BY <1>3, <1>5, EventStable DEF Verified, RequestCommit, MailFor, Inv, TypeInv, TypeOK
  <1> QED
    BY <1>6, <1>7, <1>8, <1>9, <1>10 DEF Inv

LEMMA VerifyRejectInv ==
    ASSUME Inv, TypeInv', NEW k \in Call, VerifyReject(k)
    PROVE  Inv'
  <1>1. PICK status \in Status : Reply(k, "verify", calls[k].email, status)
    BY DEF VerifyReject, Status
  <1>2. /\ calls'[k].pc = "replied" /\ \A j \in Call : j # k => calls'[j] = calls[j]
    BY <1>1, ReplyIsCall DEF Inv, TypeInv, TypeOK, CallState, Op
  <1>3. ~calls[k].row.used
    BY DEF Inv, TypeInv, CallsKnow, CallKnows, VerifyReject
  <1>4. credentials' = credentials /\ outbox' = outbox
    BY DEF VerifyReject
  <1>5. RowsRefer' /\ UniqueEmail'
    BY <1>4, WritingBack DEF Inv, RowsRefer, UniqueEmail, Owns, VerifyReject
  <1>6. UniqueCode'
    BY <1>2, WritingBack, UniqueCodeStable DEF Inv, VerifyReject
  <1>7. OneCommitPerAccount'
    BY <1>2, <1>4, OneCommitStable
  <1>8. UsedOnlyIfVerified'
    BY <1>3, <1>4, WritingBack DEF Inv, UsedOnlyIfVerified, Verified, VerifyReject
  <1>9. VerifiedEventOnce'
    BY <1>4, EventStable DEF Verified, Inv, TypeInv, TypeOK
  <1> QED
    BY <1>5, <1>6, <1>7, <1>8, <1>9 DEF Inv

\* An address has one credential: the rows its UPDATE reaches are at most the
\* one the call knows.
LEMMA OneToVerify ==
    ASSUME UniqueEmail, NEW c, NEW e \in ValidEmail, Owns(c, e)
    PROVE  ToVerify(e) = IF credentials[c].email_verified THEN {} ELSE {c}
  <1>1. ByEmail(e) = {c}
    BY DEF ByEmail, UniqueEmail, Owns
  <1> QED
    BY <1>1 DEF ToVerify

LEMMA VerifyCredentialInv ==
    ASSUME Inv, TypeInv', NEW k \in Call, VerifyCredential(k)
    PROVE  Inv'
  <1> DEFINE e == calls[k].email
             c == calls[k].row.credential_id
  <1>1. CASE Reply(k, "verify", e, "internal")
    <2>1. calls'[k].pc = "replied" /\ \A j \in Call : j # k => calls'[j] = calls[j]
      BY <1>1, ReplyIsCall DEF Inv, TypeInv, TypeOK, CallState, Op, Status
    <2> QED
      BY <2>1, QuietStepInv DEF VerifyCredential
  <1>2. CASE ToVerify(e) # {} /\ Goto(k, "verify_commit")
    <2>1. e \in ValidEmail /\ Owns(c, e)
      BY DEF Inv, TypeInv, CallsKnow, CallKnows, CopyOf, VerifyCredential
    <2>2. ~credentials[c].email_verified
      BY <1>2, <2>1, OneToVerify DEF Inv
    <2>3. /\ calls'[k].pc = "verify_commit" /\ calls'[k].email = e
          /\ calls'[k].row = calls[k].row
          /\ \A j \in Call : j # k => calls'[j] = calls[j]
      BY <1>2 DEF Goto, Inv, TypeInv, TypeOK, CallState
    <2>4. \A j \in Call : j # k => ~(calls[j].pc = "verify_commit" /\ calls[j].email = e)
      BY DEF VerifyCredential, CredentialFree, LocksCredential
    <2>5. OneCommitPerAccount'
      BY <2>2, <2>3, <2>4 DEF Inv, OneCommitPerAccount, VerifyCredential, tables
    <2>6. UniqueCode'
      BY <2>3, UniqueCodeStable DEF VerifyCredential, tables
    <2> QED
      BY <2>5, <2>6, TablesStable DEF Inv, VerifyCredential
  <1> QED
    BY <1>1, <1>2 DEF VerifyCredential

\* What VerifyCommit does to the credentials: exactly one becomes verified.
LEMMA VerifyCommitVerifiesOne ==
    ASSUME Inv, NEW k \in Call, VerifyCommit(k)
    PROVE  \E c \in CredId :
           /\ c = calls[k].row.credential_id
           /\ Owns(c, calls[k].email) /\ calls[k].email \in ValidEmail
           /\ ~Verified(c) /\ Verified(c)'
           /\ credentials[c] # NULL /\ credentials'[c] # NULL
           /\ credentials'[c].email = credentials[c].email
           /\ \A d \in CredId : d # c => credentials'[d] = credentials[d]
  <1>1. PICK c \in CredId : /\ c = calls[k].row.credential_id
                            /\ Owns(c, calls[k].email) /\ calls[k].email \in ValidEmail
    BY DEF Inv, TypeInv, CallsKnow, CallKnows, CopyOf, VerifyCommit, Owns
  <1>2. c \in CredId /\ credentials[c] # NULL /\ ~credentials[c].email_verified
    BY <1>1 DEF Owns, VerifyCommit, Inv, OneCommitPerAccount
  <1>3. ToVerify(calls[k].email) = {c}
    BY <1>1, <1>2, OneToVerify DEF Inv
  <1>4. /\ credentials'[c] = [credentials[c] EXCEPT !.email_verified = TRUE]
        /\ \A d \in CredId : d # c => credentials'[d] = credentials[d]
    BY <1>2, <1>3 DEF VerifyCommit
  <1>5. credentials[c] \in Credential
    BY <1>2 DEF Inv, TypeInv, TypeOK
  <1>6. /\ credentials'[c] \in Credential /\ credentials'[c].email_verified
        /\ credentials'[c].email = credentials[c].email
    BY <1>4, <1>5 DEF Credential
  <1> QED
    BY <1>1, <1>2, <1>4, <1>6, NullAssumption DEF Verified

LEMMA VerifyCommitInv ==
    ASSUME Inv, TypeInv', NEW k \in Call, VerifyCommit(k)
    PROVE  Inv'
  <1> DEFINE e == calls[k].email
  <1>1. PICK status \in Status : Reply(k, "verify", e, status)
    BY DEF VerifyCommit, Status
  <1>2. /\ calls'[k].pc = "replied" /\ \A j \in Call : j # k => calls'[j] = calls[j]
    BY <1>1, ReplyIsCall DEF Inv, TypeInv, TypeOK, CallState, Op
  <1>3. PICK c \in CredId :
        /\ c = calls[k].row.credential_id /\ Owns(c, e) /\ e \in ValidEmail
        /\ ~Verified(c) /\ Verified(c)'
        /\ credentials[c] # NULL /\ credentials'[c] # NULL
        /\ credentials'[c].email = credentials[c].email
        /\ \A d \in CredId : d # c => credentials'[d] = credentials[d]
    BY VerifyCommitVerifiesOne
  <1>4. RowsRefer' /\ UniqueEmail'
    <2>1. \A d \in CredId : (credentials'[d] = NULL <=> credentials[d] = NULL)
                            /\ credentials'[d].email = credentials[d].email
      BY <1>3
    <2>2. UniqueEmail'
      BY <2>1 DEF Inv, UniqueEmail, Owns
    <2>3. RowsRefer'
      <3> SUFFICES ASSUME NEW v \in VerId, verifications'[v] # NULL
                   PROVE  credentials'[verifications'[v].credential_id] # NULL
        BY DEF RowsRefer
      <3>1. /\ verifications[v] # NULL
            /\ verifications'[v].credential_id = verifications[v].credential_id
        BY WritingBack DEF VerifyCommit, Inv
      <3>2. verifications[v].credential_id \in CredId
        BY <3>1 DEF Inv, TypeInv, TypeOK, Verification
      <3> QED
        BY <2>1, <3>1, <3>2 DEF Inv, RowsRefer
    <2> QED
      BY <2>2, <2>3
  <1>5. UniqueCode'
    BY <1>2, WritingBack, UniqueCodeStable DEF Inv, VerifyCommit
  <1>6. OneCommitPerAccount'
    <2>1. \A j \in Call : calls'[j].pc = "verify_commit" => j # k /\ calls'[j] = calls[j]
      BY <1>2
    <2>2. ASSUME NEW j \in Call, j # k, calls[j].pc = "verify_commit"
          PROVE  /\ calls[j].row.credential_id \in CredId
                 /\ calls[j].row.credential_id # c
      <3>1. Owns(calls[j].row.credential_id, calls[j].email)
        BY <2>2 DEF Inv, TypeInv, CallsKnow, CallKnows, CopyOf
      <3>2. calls[j].email # e
        BY <2>2 DEF Inv, OneCommitPerAccount, VerifyCommit
      <3> QED
        BY <1>3, <3>1, <3>2 DEF Owns
    <2>3. \A j \in Call : calls'[j].pc = "verify_commit" =>
             credentials'[calls'[j].row.credential_id] = credentials[calls[j].row.credential_id]
      BY <1>3, <2>1, <2>2
    <2> QED
      BY <2>1, <2>3 DEF Inv, OneCommitPerAccount
  <1>7. UsedOnlyIfVerified'
    <2> SUFFICES ASSUME NEW v \in VerId, verifications'[v] # NULL, verifications'[v].used,
                        NEW d \in CredId, d = verifications'[v].credential_id
                 PROVE  Verified(d)'
      <3>1. \A v \in VerId : verifications'[v] # NULL => verifications'[v].credential_id \in CredId
        BY DEF TypeInv, TypeOK, Verification
      <3> QED
        BY <3>1 DEF UsedOnlyIfVerified, Verified
    <2>1. Verified(d) => Verified(d)'
      BY <1>3 DEF Verified
    <2>2. CASE v = calls[k].ver
      BY <1>3, <2>2, WritingBack DEF VerifyCommit, Inv
    <2>3. CASE v # calls[k].ver
      <3>1. verifications'[v] = verifications[v]
        BY <2>3, WritingBack DEF VerifyCommit, Inv
      <3>2. Verified(d)
        BY <3>1 DEF Inv, UsedOnlyIfVerified, Verified
      <3> QED
        BY <2>1, <3>2
    <2> QED
      BY <2>2, <2>3
  <1>8. VerifiedEventOnce'
    <2>1. /\ outbox' = Append(outbox, EmailVerified(c)) /\ outbox \in Seq(Message)
      BY <1>3 DEF VerifyCommit, Inv, TypeInv, TypeOK
    <2>2. /\ DOMAIN outbox' = 1..(Len(outbox) + 1) /\ DOMAIN outbox = 1..Len(outbox)
          /\ Len(outbox) \in Nat
          /\ \A i \in 1..Len(outbox) : outbox'[i] = outbox[i]
          /\ outbox'[Len(outbox) + 1] = EmailVerified(c)
      BY <2>1
    <2> SUFFICES ASSUME NEW d \in CredId
                 PROVE  /\ Verified(d)' <=> \E i \in DOMAIN outbox' : outbox'[i] = EmailVerified(d)
                        /\ \A i, j \in DOMAIN outbox' :
                             outbox'[i] = EmailVerified(d) /\ outbox'[j] = EmailVerified(d) => i = j
      BY DEF VerifiedEventOnce, EmailVerified
    <2>3. /\ Verified(d) <=> \E i \in DOMAIN outbox : outbox[i] = EmailVerified(d)
          /\ \A i, j \in DOMAIN outbox :
                outbox[i] = EmailVerified(d) /\ outbox[j] = EmailVerified(d) => i = j
      BY DEF Inv, VerifiedEventOnce
    <2>4. CASE d = c
      <3>1. \A i \in DOMAIN outbox : outbox'[i] # EmailVerified(d)
        BY <1>3, <2>2, <2>3, <2>4
      <3>2. \A i \in DOMAIN outbox' : outbox'[i] = EmailVerified(d) => i = Len(outbox) + 1
        BY <2>2, <3>1
      <3>3. \E i \in DOMAIN outbox' : outbox'[i] = EmailVerified(d)
        BY <2>2, <2>4
      <3> QED
        BY <1>3, <2>4, <3>2, <3>3
    <2>5. CASE d # c
      <3>1. EmailVerified(d) # EmailVerified(c)
        BY <2>5 DEF EmailVerified
      <3>2. Verified(d)' <=> Verified(d)
        BY <1>3, <2>5 DEF Verified
      <3>3. \A i \in DOMAIN outbox' : outbox'[i] = EmailVerified(d) =>
               i \in DOMAIN outbox /\ outbox[i] = EmailVerified(d)
        BY <2>2, <3>1
      <3>4. \A i \in DOMAIN outbox : i \in DOMAIN outbox' /\ outbox'[i] = outbox[i]
        BY <2>2
      <3> QED
        BY <2>3, <3>2, <3>3, <3>4
    <2> QED
      BY <2>4, <2>5
  <1> QED
    BY <1>4, <1>5, <1>6, <1>7, <1>8 DEF Inv

LEMMA StartInv ==
    ASSUME Inv, TypeInv', NEW k \in Call, Start(k)
    PROVE  Inv'
  <1>1. UNCHANGED tables
    BY DEF Start, CreateStart, RequestStart, VerifyStart, StartFails
  <1>2. PICK call : /\ calls' = [calls EXCEPT ![k] = call]
                    /\ call.pc \notin {"request_commit", "verify_commit"}
    <2>1. ASSUME NEW e \in Email, NEW op \in Op, NEW status \in Status, Reply(k, op, e, status)
          PROVE  \E call : /\ calls' = [calls EXCEPT ![k] = call]
                           /\ call.pc \notin {"request_commit", "verify_commit"}
      <3>1. Replied(op, e, status).pc = "replied"
        BY DEF Replied, Idle
      <3> QED
        BY <2>1, <3>1 DEF Reply
    <2>2. ASSUME NEW e \in Email, NEW strong \in BOOLEAN, CreateStart(k, e, strong)
          PROVE  \E call : /\ calls' = [calls EXCEPT ![k] = call]
                           /\ call.pc \notin {"request_commit", "verify_commit"}
      <3>1. [Idle EXCEPT !.pc = "create_insert", !.op = "create", !.email = e].pc
              = "create_insert"
        BY DEF Idle
      <3> QED
        BY <2>1, <2>2, <3>1 DEF CreateStart, Op, Status
    <2>3. ASSUME NEW e \in Email, RequestStart(k, e)
          PROVE  \E call : /\ calls' = [calls EXCEPT ![k] = call]
                           /\ call.pc \notin {"request_commit", "verify_commit"}
      <3>1. \A c : [Idle EXCEPT !.pc = "request_latest", !.op = "request",
                      !.email = e, !.cred = c].pc = "request_latest"
        BY DEF Idle
      <3> QED
        BY <2>1, <2>3, <3>1 DEF RequestStart, Op, Status
    <2>4. ASSUME NEW e \in Email, NEW token \in Code \cup ShortCode, VerifyStart(k, e, token)
          PROVE  \E call : /\ calls' = [calls EXCEPT ![k] = call]
                           /\ call.pc \notin {"request_commit", "verify_commit"}
      <3>1. \A v, row : [Idle EXCEPT !.pc = "verify_check", !.op = "verify", !.email = e,
                           !.token = token, !.ver = v, !.row = row].pc = "verify_check"
        BY DEF Idle
      <3> QED
        BY <2>1, <2>4, <3>1 DEF VerifyStart, Op, Status
    <2>5. ASSUME NEW op \in Op, NEW e \in ValidEmail, StartFails(k, op, e)
          PROVE  \E call : /\ calls' = [calls EXCEPT ![k] = call]
                           /\ call.pc \notin {"request_commit", "verify_commit"}
      BY <2>1, <2>5 DEF StartFails, Email, Status
    <2> QED
      BY <2>2, <2>3, <2>4, <2>5 DEF Start
  <1>3. /\ calls'[k] = call
        /\ \A j \in Call : j # k => calls'[j] = calls[j]
    BY <1>2 DEF Inv, TypeInv, TypeOK
  <1> QED
    BY <1>1, <1>2, <1>3, QuietStepInv

LEMMA NextInv == Inv /\ [Next]_vars => Inv'
  <1> SUFFICES ASSUME Inv, [Next]_vars PROVE Inv'
    OBVIOUS
  <1>1. TypeInv'
    BY NextTypeInv DEF Inv
  <1>2. ASSUME NEW k \in Call, Start(k) PROVE Inv'
    BY <1>1, <1>2, StartInv
  <1>3. ASSUME NEW k \in Call, NEW call, calls' = [calls EXCEPT ![k] = call],
               call.pc \notin {"request_commit", "verify_commit"}, UNCHANGED tables
        PROVE  Inv'
    <2>1. calls'[k] = call /\ \A j \in Call : j # k => calls'[j] = calls[j]
      BY <1>3 DEF Inv, TypeInv, TypeOK
    <2> QED
      BY <1>1, <1>3, <2>1, QuietStepInv
  <1>4. ASSUME NEW k \in Call, RequestLatest(k) PROVE Inv'
    <2>1. \A e, status : Replied("request", e, status).pc = "replied"
      BY DEF Replied, Idle
    <2>2. \A token, row : [calls[k] EXCEPT !.pc = "request_insert", !.token = token,
                             !.row = row].pc = "request_insert"
      BY DEF Inv, TypeInv, TypeOK, CallState
    <2> QED
      BY <1>3, <1>4, <2>1, <2>2 DEF RequestLatest, Reply
  <1>5. ASSUME NEW k \in Call, VerifyCheck(k) PROVE Inv'
    <2>1. [calls[k] EXCEPT !.pc = "verify_reject"].pc = "verify_reject"
      BY DEF Inv, TypeInv, TypeOK, CallState
    <2>2. \A row : [calls[k] EXCEPT !.pc = "verify_update", !.row = row].pc = "verify_update"
      BY DEF Inv, TypeInv, TypeOK, CallState
    <2> QED
      BY <1>3, <1>5, <2>1, <2>2 DEF VerifyCheck, Goto
  <1>6. ASSUME NEW k \in Call, VerifyUpdate(k) PROVE Inv'
    <2>1. [calls[k] EXCEPT !.pc = "verify_credential"].pc = "verify_credential"
      BY DEF Inv, TypeInv, TypeOK, CallState
    <2> QED
      BY <1>3, <1>6, <2>1 DEF VerifyUpdate, Goto
  <1>7. ASSUME NEW k \in Call, Return(k) \/ Dropped(k) PROVE Inv'
    <2>1. Idle.pc = "idle"
      BY DEF Idle
    <2> QED
      BY <1>3, <1>7, <2>1 DEF Return, Dropped
  <1>8. ASSUME NEW k \in Call, DatabaseError(k) PROVE Inv'
    <2>1. \A op, e, status : Replied(op, e, status).pc = "replied"
      BY DEF Replied, Idle
    <2> QED
      BY <1>3, <1>8, <2>1 DEF DatabaseError, Reply
  <1>9. ASSUME NEW k \in Call, Step(k) PROVE Inv'
    BY <1>1, <1>4, <1>5, <1>6, <1>7, <1>9, CreateInsertInv, RequestInsertInv, RequestCommitInv,
       VerifyRejectInv, VerifyCredentialInv, VerifyCommitInv DEF Step
  <1>10. CASE Tick \/ UNCHANGED vars
    <2>1. UNCHANGED <<tables, calls>>
      BY <1>10 DEF Tick, vars, tables
    <2>2. UniqueCode' /\ OneCommitPerAccount'
      BY <2>1 DEF Inv, UniqueCode, OneCommitPerAccount, tables
    <2> QED
      BY <1>1, <2>1, <2>2, TablesStable DEF Inv
  <1> QED
    BY <1>2, <1>7, <1>8, <1>9, <1>10 DEF Next

LEMMA Invariance == Spec => []Inv
  BY InitInv, NextInv, PTL DEF Spec

\* However verify_email calls overlap, fail or repeat, a verified account is
\* announced to the core service exactly once, and no other account is.
THEOREM AnnouncedExactlyOnce == Spec => []VerifiedEventOnce
  <1>1. Inv => VerifiedEventOnce
    BY DEF Inv
  <1> QED
    BY <1>1, Invariance, PTL

\* The used code and the verified address of verify_email are never seen apart,
\* although a stale copy may still be written over the code's row.
THEOREM UsedImpliesVerified == Spec => []UsedOnlyIfVerified
  <1>1. Inv => UsedOnlyIfVerified
    BY DEF Inv
  <1> QED
    BY <1>1, Invariance, PTL
-----------------------------------------------------------------------------
(* The refinement: three steps of the handlers, the insert of a credential *)
(* and the two commits, are operations of EmailVerification, and the       *)
(* others leave what it describes alone.                                   *)

LEMMA InitRefines == Init => Abstract!Init
  BY DEF Init, Abstract!Init, AddressOf, IssuedCodes, VerifiedAccounts

\* Steps that keep the tables, and the writes of failed attempts, are invisible.
LEMMA TablesStutter == UNCHANGED tables => UNCHANGED Abstract!vars
  BY DEF tables, Abstract!vars, AddressOf, IssuedCodes, VerifiedAccounts

\* A write-back issues no code and takes none back.
LEMMA WriteBackIssuesNothing ==
    ASSUME Inv, NEW k \in Call, calls[k].pc \in {"verify_reject", "verify_commit"},
           verifications' = WriteBack(calls[k])
    PROVE  UNCHANGED IssuedCodes
  BY WritingBack DEF Inv, IssuedCodes

LEMMA VerifyRejectStutters ==
    ASSUME Inv, NEW k \in Call, VerifyReject(k)
    PROVE  UNCHANGED Abstract!vars
  BY WriteBackIssuesNothing DEF VerifyReject, Abstract!vars, AddressOf, VerifiedAccounts

\* The insert is where the address is taken: the UNIQUE constraint makes the
\* earlier exists query irrelevant.
LEMMA CreateInsertRegisters ==
    ASSUME Inv, NEW k \in Call, CreateInsert(k)
    PROVE  [Abstract!Next]_(Abstract!vars)
  <1>1. CASE UNCHANGED credentials
    BY <1>1, TablesStutter DEF CreateInsert, tables
  <1>2. CASE /\ ByEmail(calls[k].email) = {}
             /\ \E c \in CredId :
                  /\ credentials[c] = NULL
                  /\ credentials' = [credentials EXCEPT
                        ![c] = [email |-> calls[k].email, email_verified |-> FALSE]]
    <2>1. PICK e \in ValidEmail : e = calls[k].email
      BY DEF Inv, TypeInv, CallsKnow, CallKnows, CreateInsert
    <2> DEFINE new == [email |-> e, email_verified |-> FALSE]
    <2>2. PICK c \in CredId : /\ credentials[c] = NULL
                              /\ credentials' = [credentials EXCEPT ![c] = new]
      BY <1>2, <2>1
    <2>3. new.email = e /\ ~new.email_verified /\ new \in Credential
      BY DEF Credential
    <2> HIDE DEF new
    <2>4. /\ credentials'[c] = new /\ new # NULL
          /\ \A d \in CredId : d # c => credentials'[d] = credentials[d]
          /\ verifications' = verifications /\ outbox' = outbox
      BY <2>2, <2>3, NullAssumption DEF Inv, TypeInv, TypeOK, CreateInsert
    <2>5. AddressOf[c] = NULL /\ AddressOf' = [AddressOf EXCEPT ![c] = e]
      <3>1. AddressOf[c] = NULL
        BY <2>2 DEF AddressOf
      <3>2. AddressOf' = [d \in CredId |-> IF d = c THEN e ELSE AddressOf[d]]
        BY <2>3, <2>4 DEF AddressOf
      <3> QED
        BY <3>1, <3>2 DEF AddressOf
    <2>6. \A d \in CredId : AddressOf[d] # e
      BY <1>2, <2>1, NullAssumption DEF AddressOf, ByEmail, Email
    <2>7. UNCHANGED <<IssuedCodes, VerifiedAccounts, outbox>>
      BY <2>2, <2>3, <2>4 DEF IssuedCodes, VerifiedAccounts
    <2>8. Abstract!Register(c, e)
      BY <2>5, <2>6, <2>7 DEF Abstract!Register
    <2> QED
      BY <2>8 DEF Abstract!Next
  <1> QED
    BY <1>1, <1>2 DEF CreateInsert

LEMMA RequestCommitIssues ==
    ASSUME Inv, NEW k \in Call, RequestCommit(k)
    PROVE  [Abstract!Next]_(Abstract!vars)
  <1>1. PICK e \in ValidEmail, t \in Code, c \in CredId, r \in Verification :
           /\ calls[k].email = e /\ calls[k].token = t /\ calls[k].row = r
           /\ r.credential_id = c /\ r.code = Hash(t) /\ Owns(c, e)
    BY DEF Inv, TypeInv, CallsKnow, CallKnows, RequestCommit, Owns
  <1>2. PICK v \in VerId : /\ verifications[v] = NULL
                           /\ verifications' = [verifications EXCEPT ![v] = r]
    BY <1>1 DEF RequestCommit
  <1>3. /\ verifications'[v] = r /\ r # NULL
        /\ \A w \in VerId : w # v => verifications'[w] = verifications[w]
        /\ credentials' = credentials
        /\ outbox' = Append(outbox, CodeMail(e, t))
    BY <1>1, <1>2, NullAssumption DEF Inv, TypeInv, TypeOK, RequestCommit, MailFor
  <1>4. AddressOf[c] = e /\ e # NULL
    BY <1>1, NullAssumption DEF AddressOf, Owns, Email
  <1>5. <<c, t>> \notin IssuedCodes
    BY <1>1 DEF IssuedCodes, Inv, UniqueCode, RequestCommit
  <1>6. \A s \in Code : Hash(s) = Hash(t) <=> s = t
    BY DEF Hash
  <1>7. IssuedCodes' = IssuedCodes \cup {<<c, t>>}
    <2>1. ASSUME NEW p \in CredId \X Code
          PROVE  p \in IssuedCodes' <=> p \in IssuedCodes \/ p = <<c, t>>
      <3>1. p \in IssuedCodes' <=> \E w \in VerId :
               /\ verifications'[w] # NULL
               /\ verifications'[w].credential_id = p[1]
               /\ verifications'[w].code = Hash(p[2])
        BY DEF IssuedCodes
      <3>2. p \in IssuedCodes <=> \E w \in VerId :
               /\ verifications[w] # NULL
               /\ verifications[w].credential_id = p[1]
               /\ verifications[w].code = Hash(p[2])
        BY DEF IssuedCodes
      <3>3. p = <<c, t>> <=> r.credential_id = p[1] /\ r.code = Hash(p[2])
        BY <1>1, <1>6
      <3> QED
        BY <1>2, <1>3, <3>1, <3>2, <3>3
    <2> QED
      BY <2>1 DEF IssuedCodes
  <1>8. Abstract!Issue(c, t)
    BY <1>3, <1>4, <1>5, <1>7 DEF Abstract!Issue, CodeMail, AddressOf, VerifiedAccounts
  <1> QED
    BY <1>8 DEF Abstract!Next

LEMMA VerifyCommitConfirms ==
    ASSUME Inv, NEW k \in Call, VerifyCommit(k)
    PROVE  [Abstract!Next]_(Abstract!vars)
  <1>1. PICK c \in CredId :
        /\ c = calls[k].row.credential_id
        /\ ~Verified(c) /\ Verified(c)'
        /\ credentials[c] # NULL /\ credentials'[c] # NULL
        /\ credentials'[c].email = credentials[c].email
        /\ \A d \in CredId : d # c => credentials'[d] = credentials[d]
    BY VerifyCommitVerifiesOne
  <1>2. UNCHANGED AddressOf
    BY <1>1 DEF AddressOf
  <1>3. UNCHANGED IssuedCodes
    BY WriteBackIssuesNothing DEF VerifyCommit
  <1>4. c \notin VerifiedAccounts /\ VerifiedAccounts' = VerifiedAccounts \cup {c}
    BY <1>1 DEF VerifiedAccounts, Verified
  <1>5. outbox' = Append(outbox, EmailVerified(c))
    BY <1>1 DEF VerifyCommit
  <1>6. PICK t \in Code : <<c, t>> \in IssuedCodes
    <2>1. PICK t \in Code : calls[k].row.code = Hash(t)
      <3>1. calls[k].row.code \in HashedCode
        BY DEF Inv, TypeInv, CallsKnow, CallKnows, CopyOf, VerifyCommit, Verification
      <3> QED
        BY <3>1 DEF HashedCode, Hash
    <2>2. /\ calls[k].ver \in VerId /\ verifications[calls[k].ver] # NULL
          /\ verifications[calls[k].ver].credential_id = c
          /\ verifications[calls[k].ver].code = Hash(t)
      BY <1>1, <2>1, WritingBack DEF Inv, VerifyCommit
    <2> QED
      BY <2>2 DEF IssuedCodes
  <1>7. Abstract!Confirm(c, t)
    BY <1>2, <1>3, <1>4, <1>5, <1>6 DEF Abstract!Confirm, EmailVerified
  <1> QED
    BY <1>7 DEF Abstract!Next

LEMMA StepRefines == Inv /\ [Next]_vars => [Abstract!Next]_(Abstract!vars)
  <1> SUFFICES ASSUME Inv, [Next]_vars PROVE [Abstract!Next]_(Abstract!vars)
    OBVIOUS
  <1>1. ASSUME NEW k \in Call, Start(k) PROVE UNCHANGED Abstract!vars
    BY <1>1, TablesStutter DEF Start, CreateStart, RequestStart, VerifyStart, StartFails
  <1>2. ASSUME NEW k \in Call, Step(k) PROVE [Abstract!Next]_(Abstract!vars)
    BY <1>2, TablesStutter, VerifyRejectStutters, CreateInsertRegisters,
       RequestCommitIssues, VerifyCommitConfirms
       DEF Step, RequestLatest, RequestInsert, VerifyCheck, VerifyUpdate,
           VerifyCredential, Return
  <1>3. ASSUME NEW k \in Call, DatabaseError(k) \/ Dropped(k) PROVE UNCHANGED Abstract!vars
    BY <1>3, TablesStutter DEF DatabaseError, Dropped
  <1>4. CASE Tick \/ UNCHANGED vars
    BY <1>4, TablesStutter DEF Tick, vars, tables
  <1> QED
    BY <1>1, <1>2, <1>3, <1>4 DEF Next

\* Each handler, overlapped by any number of others, is one step of
\* EmailVerification at its insert or commit and invisible elsewhere.
THEOREM Refinement == Spec => AbstractSpec
  BY InitRefines, StepRefines, Invariance, PTL DEF Spec, AbstractSpec, Abstract!Spec
-----------------------------------------------------------------------------
(* Locks                                                                   *)

\* No set of calls, of any size, ends up in a deadlock: where a transaction can
\* still wait, at verify_email_credential, it waits for one that is at its commit.
THEOREM NoDeadlock == Spec => []NoWaitCycle
  <1>1. NoWaitCycle
    <2> SUFFICES ASSUME NEW S \in SUBSET Call, S # {}
                 PROVE  \E k \in S : \A j \in S : ~WaitsFor(k, j)
      BY DEF NoWaitCycle
    <2>1. CASE \E k \in S : calls[k].pc \in {"request_commit", "verify_commit"}
      BY <2>1 DEF WaitsFor
    <2>2. CASE /\ \A k \in S : calls[k].pc \notin {"request_commit", "verify_commit"}
               /\ \E k \in S : calls[k].pc = "verify_credential"
      BY <2>2 DEF WaitsFor, LocksCredential
    <2>3. CASE \A k \in S : calls[k].pc \notin {"request_commit", "verify_commit",
                                                "verify_credential"}
      BY <2>3 DEF WaitsFor, LocksKey, LocksVerification, LocksCredential
    <2> QED
      BY <2>1, <2>2, <2>3
  <1> QED
    BY <1>1, PTL
=============================================================================
