------------------------- MODULE AuthOutcomeProofs -------------------------
(* Proofs about what AuthService makes of its calls: the mails and events  *)
(* of its outbox and its ok replies, under any overlap, and the one active *)
(* code of calls that come one after the other.                            *)
EXTENDS AuthServiceProofs

\* No step of any handler removes a row, moves an address, takes a
\* verification back, or changes the code or the credential of a stored code.
LEMMA StepKeepsRows ==
    ASSUME Inv, [Next]_vars
    PROVE  KeepsRows /\ \A c \in CredId : Verified(c) => Verified(c)'
  <1> DEFINE Kept == KeepsRows /\ \A c \in CredId : Verified(c) => Verified(c)'
  <1>1. CASE UNCHANGED tables
    BY <1>1, SameTablesKeepRows DEF tables, Verified
  <1>2. ASSUME NEW k \in Call, CreateInsert(k) PROVE Kept
    BY <1>2, NullAssumption DEF CreateInsert, KeepsRows, Verified, Inv, TypeInv, TypeOK
  <1>3. ASSUME NEW k \in Call, RequestCommit(k) PROVE Kept
    BY <1>3 DEF RequestCommit, KeepsRows, Verified, Inv, TypeInv, TypeOK
  <1>4. ASSUME NEW k \in Call, VerifyReject(k) PROVE Kept
    BY <1>4, WritingBack DEF VerifyReject, KeepsRows, Verified, Inv
  <1>5. ASSUME NEW k \in Call, VerifyCommit(k) PROVE Kept
    <2>1. PICK c \in CredId :
             /\ Verified(c)' /\ credentials'[c] # NULL
             /\ credentials'[c].email = credentials[c].email
             /\ \A d \in CredId : d # c => credentials'[d] = credentials[d]
      BY <1>5, VerifyCommitVerifiesOne
    <2>2. /\ \A d \in CredId : credentials[d] # NULL =>
                credentials'[d] # NULL /\ credentials'[d].email = credentials[d].email
          /\ \A d \in CredId : Verified(d) => Verified(d)'
      BY <2>1 DEF Verified
    <2>3. \A v \in VerId : verifications[v] # NULL =>
             /\ verifications'[v] # NULL
             /\ verifications'[v].code = verifications[v].code
             /\ verifications'[v].credential_id = verifications[v].credential_id
      BY <1>5, WritingBack DEF VerifyCommit, Inv
    <2> QED
      BY <2>2, <2>3 DEF KeepsRows
  <1>6. ASSUME NEW k \in Call, Start(k) PROVE UNCHANGED tables
    BY <1>6 DEF Start, CreateStart, RequestStart, VerifyStart, StartFails
  <1>7. ASSUME NEW k \in Call, Step(k) PROVE Kept
    BY <1>1, <1>2, <1>3, <1>4, <1>5, <1>7
       DEF Step, RequestLatest, RequestInsert, VerifyCheck, VerifyUpdate,
           VerifyCredential, Return
  <1> QED
    BY <1>1, <1>6, <1>7 DEF Next, vars, tables, DatabaseError, Dropped, Tick

\* A step that is no commit leaves the outbox and the set of stored codes alone.
LEMMA OtherSteps ==
    ASSUME Inv, [Next]_vars, \A k \in Call : ~RequestCommit(k) /\ ~VerifyCommit(k)
    PROVE  /\ outbox' = outbox
           /\ \A v \in VerId : verifications'[v] = NULL <=> verifications[v] = NULL
  <1> DEFINE Same == /\ outbox' = outbox
                     /\ \A v \in VerId : verifications'[v] = NULL <=> verifications[v] = NULL
  <1>1. ASSUME NEW k \in Call, Start(k) PROVE Same
    BY <1>1 DEF Start, CreateStart, RequestStart, VerifyStart, StartFails, tables
  <1>2. ASSUME NEW k \in Call, VerifyReject(k) PROVE Same
    BY <1>2, WritingBack DEF VerifyReject, Inv
  <1>3. ASSUME NEW k \in Call, Step(k) PROVE Same
    BY <1>2, <1>3 DEF Step, CreateInsert, RequestLatest, RequestInsert, VerifyCheck,
                      VerifyUpdate, VerifyCredential, Return, tables
  <1> QED
    BY <1>1, <1>3 DEF Next, vars, tables, DatabaseError, Dropped, Tick

-----------------------------------------------------------------------------
(* Codes and mails                                                         *)

\* Mail i carries the code of row v, to the address of the row's credential.
Carries(i, v) ==
    /\ outbox[i].type = "EmailVerification"
    /\ verifications[v] # NULL
    /\ Hash(outbox[i].token) = verifications[v].code
    /\ outbox[i].email = credentials[verifications[v].credential_id].email

\* CodesMailedOnce in terms of Carries.
LEMMA MailedOnce ==
    CodesMailedOnce <=>
        /\ \A v \in VerId : verifications[v] # NULL => \E i \in DOMAIN outbox : Carries(i, v)
        /\ \A i \in DOMAIN outbox : outbox[i].type = "EmailVerification" =>
              \E v \in VerId : Carries(i, v)
        /\ \A i, j \in DOMAIN outbox :
              outbox[i].type = "EmailVerification" /\ outbox[i] = outbox[j] => i = j
  BY DEF CodesMailedOnce, Carries

\* A mail goes on carrying its code, whatever is appended after it.
LEMMA CarriesStable ==
    ASSUME Inv, KeepsRows, NEW i, NEW v \in VerId, Carries(i, v), outbox'[i] = outbox[i]
    PROVE  Carries(i, v)'
  <1>1. /\ verifications[v].credential_id \in CredId
        /\ credentials[verifications[v].credential_id] # NULL
    BY DEF Carries, Inv, TypeInv, TypeOK, Verification, RowsRefer
  <1>2. /\ verifications'[v] # NULL /\ verifications'[v].code = verifications[v].code
        /\ verifications'[v].credential_id = verifications[v].credential_id
    BY DEF Carries, KeepsRows
  <1>3. credentials'[verifications[v].credential_id].email
          = credentials[verifications[v].credential_id].email
    BY <1>1 DEF KeepsRows
  <1> QED
    BY <1>2, <1>3 DEF Carries, Hash

\* What appending a message does.
LEMMA Appended ==
    ASSUME outbox \in Seq(Message), NEW m, outbox' = Append(outbox, m)
    PROVE  /\ Len(outbox) \in Nat /\ DOMAIN outbox = 1..Len(outbox)
           /\ DOMAIN outbox' = 1..(Len(outbox) + 1)
           /\ \A i \in DOMAIN outbox : i \in DOMAIN outbox' /\ outbox'[i] = outbox[i]
           /\ \A i \in DOMAIN outbox' : i \in DOMAIN outbox \/ i = Len(outbox) + 1
           /\ outbox'[Len(outbox) + 1] = m
  OBVIOUS

\* The code that a request commits is new to its account, so its mail is new.
LEMMA RequestCommitMails ==
    ASSUME Inv, CodesMailedOnce, NEW k \in Call, RequestCommit(k), KeepsRows
    PROVE  CodesMailedOnce'
  <1> DEFINE new == Len(outbox) + 1
             m == MailFor(calls[k])
             r == calls[k].row
  <1>1. /\ calls[k].pc = "request_commit" /\ calls[k].email \in ValidEmail
        /\ calls[k].token \in Code /\ r \in Verification
        /\ r.code = Hash(calls[k].token) /\ Owns(r.credential_id, calls[k].email)
    BY DEF RequestCommit, Inv, TypeInv, CallsKnow, CallKnows
  <1>2. /\ m.type = "EmailVerification" /\ m.token = calls[k].token
        /\ m.email = calls[k].email
    BY DEF MailFor, CodeMail
  <1>3. outbox' = Append(outbox, m) /\ outbox \in Seq(Message)
    BY DEF RequestCommit, Inv, TypeInv, TypeOK
  <1>4. PICK w \in VerId : /\ verifications[w] = NULL
                           /\ verifications' = [verifications EXCEPT ![w] = r]
    BY DEF RequestCommit
  <1>5. /\ verifications'[w] = r /\ verifications'[w] # NULL
        /\ \A v \in VerId : v # w => verifications'[v] = verifications[v]
        /\ credentials' = credentials
    BY <1>1, <1>4, NullAssumption DEF Inv, TypeInv, TypeOK, RequestCommit
  <1> HIDE DEF m
  <1>6. new \in DOMAIN outbox' /\ outbox'[new] = m
    BY <1>3, Appended
  <1>7. credentials[r.credential_id].email = calls[k].email
    BY <1>1 DEF Owns
  <1>8. PICK i \in DOMAIN outbox' : i = new /\ outbox'[i] = m
    BY <1>6
  <1>9. Carries(i, w)'
    BY <1>1, <1>2, <1>5, <1>7, <1>8 DEF Carries
  <1>10. \A j \in DOMAIN outbox : \A v \in VerId : Carries(j, v) => Carries(j, v)'
    BY <1>3, Appended, CarriesStable
  <1>11. \A v \in VerId : verifications'[v] # NULL => \E j \in DOMAIN outbox' : Carries(j, v)'
    BY <1>3, <1>5, <1>9, <1>10, MailedOnce, Appended
  <1>12. ASSUME NEW j \in DOMAIN outbox', outbox'[j].type = "EmailVerification"
         PROVE  \E v \in VerId : Carries(j, v)'
    <2>1. CASE j = i
      BY <1>9, <2>1
    <2>2. CASE j \in DOMAIN outbox
      BY <1>3, <1>10, <1>12, <2>2, MailedOnce, Appended
    <2> QED
      BY <1>3, <1>8, <2>1, <2>2, Appended
  <1>13. \A j \in DOMAIN outbox : outbox[j] # m
    <2> SUFFICES ASSUME NEW j \in DOMAIN outbox, outbox[j] = m PROVE FALSE
      OBVIOUS
    <2>1. PICK v \in VerId : Carries(j, v)
      BY <1>2, MailedOnce
    <2>2. /\ verifications[v] # NULL /\ verifications[v].code = r.code
          /\ credentials[verifications[v].credential_id].email = calls[k].email
      BY <1>1, <1>2, <2>1 DEF Carries
    <2>3. Owns(verifications[v].credential_id, calls[k].email)
      BY <2>2 DEF Owns, Inv, TypeInv, TypeOK, Verification, RowsRefer
    <2>4. verifications[v].credential_id = r.credential_id
      BY <1>1, <2>3 DEF Inv, UniqueEmail, Owns
    <2> QED
      BY <1>1, <2>2, <2>4 DEF Inv, UniqueCode
  <1>14. \A a, b \in DOMAIN outbox' :
            outbox'[a].type = "EmailVerification" /\ outbox'[a] = outbox'[b] => a = b
    BY <1>3, <1>13, MailedOnce, Appended
  <1> QED
    BY <1>11, <1>12, <1>14 DEF CodesMailedOnce, Carries

\* A confirmation stores no code and sends no mail.
LEMMA VerifyCommitMails ==
    ASSUME Inv, CodesMailedOnce, NEW k \in Call, VerifyCommit(k), KeepsRows
    PROVE  CodesMailedOnce'
  <1>1. PICK m : m.type = "EmailVerified" /\ outbox' = Append(outbox, m)
    BY DEF VerifyCommit, EmailVerified
  <1>2. outbox \in Seq(Message)
    BY DEF Inv, TypeInv, TypeOK
  <1>3. \A v \in VerId : verifications'[v] # NULL => verifications[v] # NULL
    BY WritingBack DEF VerifyCommit, Inv
  <1>4. \A j \in DOMAIN outbox : \A v \in VerId : Carries(j, v) => Carries(j, v)'
    BY <1>1, <1>2, Appended, CarriesStable
  <1>5. \A j \in DOMAIN outbox' : outbox'[j].type = "EmailVerification" =>
           j \in DOMAIN outbox /\ outbox'[j] = outbox[j]
    BY <1>1, <1>2, Appended
  <1>6. \A v \in VerId : verifications'[v] # NULL => \E j \in DOMAIN outbox' : Carries(j, v)'
    BY <1>1, <1>2, <1>3, <1>4, MailedOnce, Appended
  <1>7. \A j \in DOMAIN outbox' : outbox'[j].type = "EmailVerification" =>
           \E v \in VerId : Carries(j, v)'
    BY <1>4, <1>5, MailedOnce
  <1>8. \A a, b \in DOMAIN outbox' :
           outbox'[a].type = "EmailVerification" /\ outbox'[a] = outbox'[b] => a = b
    BY <1>5, MailedOnce
  <1> QED
    BY <1>6, <1>7, <1>8 DEF CodesMailedOnce, Carries

LEMMA NextMails == Inv /\ CodesMailedOnce /\ [Next]_vars => CodesMailedOnce'
  <1> SUFFICES ASSUME Inv, CodesMailedOnce, [Next]_vars PROVE CodesMailedOnce'
    OBVIOUS
  <1>1. KeepsRows
    BY StepKeepsRows
  <1>2. CASE \A k \in Call : ~RequestCommit(k) /\ ~VerifyCommit(k)
    <2>1. /\ outbox' = outbox
          /\ \A v \in VerId : verifications'[v] = NULL <=> verifications[v] = NULL
      BY <1>2, OtherSteps
    <2>2. \A i \in DOMAIN outbox : \A v \in VerId : Carries(i, v) => Carries(i, v)'
      BY <1>1, <2>1, CarriesStable
    <2>3. /\ \A v \in VerId : verifications'[v] # NULL => \E i \in DOMAIN outbox' : Carries(i, v)'
          /\ \A i \in DOMAIN outbox' : outbox'[i].type = "EmailVerification" =>
                \E v \in VerId : Carries(i, v)'
          /\ \A i, j \in DOMAIN outbox' :
                outbox'[i].type = "EmailVerification" /\ outbox'[i] = outbox'[j] => i = j
      BY <2>1, <2>2, MailedOnce
    <2> QED
      BY <2>3 DEF CodesMailedOnce, Carries
  <1> QED
    BY <1>1, <1>2, RequestCommitMails, VerifyCommitMails

\* Codes and code mails match one to one, however requests and verifications
\* overlap: the unique index alone keeps two calls from mailing one code twice.
THEOREM MailsMatchCodes == Spec => []CodesMailedOnce
  <1>1. Init => CodesMailedOnce
    BY DEF Init, CodesMailedOnce
  <1> QED
    BY <1>1, Invariance, NextMails, PTL DEF Spec
-----------------------------------------------------------------------------
(* Mails before events                                                     *)

\* Message j is a code mail to the address of credential c.
MailsTo(j, c) == outbox[j].type = "EmailVerification" /\ outbox[j].email = credentials[c].email

LEMMA NextMailFirst ==
    ASSUME Inv, CodesMailedOnce, MailBeforeVerified, [Next]_vars
    PROVE  MailBeforeVerified'
  <1>1. KeepsRows /\ outbox \in Seq(Message)
    BY StepKeepsRows DEF Inv, TypeInv, TypeOK
  \* An event that is there had its mail, and keeps it.
  <1>2. ASSUME NEW i \in DOMAIN outbox, outbox[i].type = "EmailVerified",
               \A j \in DOMAIN outbox : outbox'[j] = outbox[j]
        PROVE  \E j \in 1..(i - 1) :
                  /\ outbox'[j].type = "EmailVerification"
                  /\ outbox'[j].email = credentials'[outbox'[i].user_id].email
    <2>1. PICK j \in 1..(i - 1) : MailsTo(j, outbox[i].user_id)
      BY <1>2 DEF MailBeforeVerified, MailsTo
    <2>2. PICK c \in CredId : outbox[i] = EmailVerified(c)
      BY <1>1, <1>2 DEF Message, EmailVerified
    <2>3. credentials[c] # NULL
      BY <2>2 DEF Inv, VerifiedEventOnce, Verified
    <2>4. credentials'[c].email = credentials[c].email /\ outbox[i].user_id = c
      BY <1>1, <2>2, <2>3 DEF KeepsRows, EmailVerified
    <2>5. j \in DOMAIN outbox /\ outbox'[j] = outbox[j] /\ outbox'[i] = outbox[i]
      BY <1>1, <1>2
    <2> QED
      BY <2>1, <2>4, <2>5 DEF MailsTo
  <1>3. CASE \A k \in Call : ~RequestCommit(k) /\ ~VerifyCommit(k)
    BY <1>2, <1>3, OtherSteps DEF MailBeforeVerified
  <1>4. ASSUME NEW k \in Call, RequestCommit(k) PROVE MailBeforeVerified'
    <2>1. PICK m : m.type = "EmailVerification" /\ outbox' = Append(outbox, m)
      BY <1>4 DEF RequestCommit, MailFor, CodeMail
    <2>2. \A i \in DOMAIN outbox' : outbox'[i].type = "EmailVerified" =>
             i \in DOMAIN outbox /\ outbox'[i] = outbox[i]
      BY <1>1, <2>1, Appended
    <2>3. \A j \in DOMAIN outbox : outbox'[j] = outbox[j]
      BY <1>1, <2>1, Appended
    <2> QED
      BY <1>2, <2>2, <2>3 DEF MailBeforeVerified
  \* The row that a confirmation writes back was mailed before it.
  <1>5. ASSUME NEW k \in Call, VerifyCommit(k) PROVE MailBeforeVerified'
    <2>1. PICK c \in CredId : /\ c = calls[k].row.credential_id
                              /\ credentials[c] # NULL
                              /\ credentials'[c].email = credentials[c].email
      BY <1>5, VerifyCommitVerifiesOne
    <2>2. outbox' = Append(outbox, EmailVerified(c))
      BY <1>5, <2>1 DEF VerifyCommit
    <2>3. PICK v \in VerId : verifications[v] # NULL /\ verifications[v].credential_id = c
      BY <1>5, <2>1, WritingBack DEF VerifyCommit, Inv
    <2>4. PICK j \in DOMAIN outbox : MailsTo(j, c)
      BY <2>3, MailedOnce DEF Carries, MailsTo
    <2>5. \A i \in DOMAIN outbox : outbox'[i] = outbox[i]
      BY <1>1, <2>2, Appended
    <2>6. ASSUME NEW i \in DOMAIN outbox', outbox'[i].type = "EmailVerified"
          PROVE  \E n \in 1..(i - 1) :
                    /\ outbox'[n].type = "EmailVerification"
                    /\ outbox'[n].email = credentials'[outbox'[i].user_id].email
      <3>1. CASE i \in DOMAIN outbox
        BY <1>2, <2>5, <2>6, <3>1
      <3>2. CASE i = Len(outbox) + 1
        <4>1. outbox'[i] = EmailVerified(c) /\ j \in 1..(i - 1)
          BY <1>1, <2>2, <3>2, Appended
        <4>2. outbox'[i].user_id = c
          BY <4>1 DEF EmailVerified
        <4> QED
          BY <2>1, <2>4, <2>5, <4>1, <4>2 DEF MailsTo
      <3> QED
        BY <1>1, <2>2, <3>1, <3>2, Appended
    <2> QED
      BY <2>6 DEF MailBeforeVerified
  <1> QED
    BY <1>3, <1>4, <1>5

\* Nobody is verified without having been sent a code, whichever copy of
\* whichever code a verify_email call commits with.
THEOREM CodeBeforeEvent == Spec => []MailBeforeVerified
  <1>1. Init => CodesMailedOnce /\ MailBeforeVerified
    BY DEF Init, CodesMailedOnce, MailBeforeVerified
  <1>2. Inv /\ CodesMailedOnce /\ MailBeforeVerified /\ [Next]_vars
          => (CodesMailedOnce /\ MailBeforeVerified)'
    BY NextMails, NextMailFirst
  <1> QED
    BY <1>1, <1>2, Invariance, PTL DEF Spec

-----------------------------------------------------------------------------
(* Replies                                                                 *)

\* What an ok reply to operation op about address e tells, of credential c.
Told(op, e, c) ==
    /\ credentials[c] # NULL /\ credentials[c].email = e
    /\ op = "verify" => Verified(c)
    /\ op = "request" =>
          \/ Verified(c)
          \/ \E v \in VerId : /\ verifications[v] # NULL
                              /\ verifications[v].credential_id = c

LEMMA OkDurable ==
    OkIsDurable <=> \A k \in Call : calls[k].status = "ok" =>
                       \E c \in CredId : Told(calls[k].op, calls[k].email, c)
  BY DEF OkIsDurable, ByEmail, Told

\* What was told once stays true.
LEMMA ToldStable ==
    ASSUME Inv, [Next]_vars, NEW op, NEW e, NEW c \in CredId, Told(op, e, c)
    PROVE  Told(op, e, c)'
  BY StepKeepsRows DEF Told, KeepsRows
\* A step changes one call.  If it is told ok now, that is true or was told before.
LEMMA OneCallTold ==
    ASSUME Inv, [Next]_vars, OkIsDurable, NEW k \in Call,
           \A j \in Call : j # k => calls'[j] = calls[j],
           calls'[k].status = "ok" =>
              \/ /\ calls[k].status = "ok"
                 /\ calls'[k].op = calls[k].op /\ calls'[k].email = calls[k].email
              \/ \E op, e : \E c \in CredId :
                    calls'[k].op = op /\ calls'[k].email = e /\ Told(op, e, c)'
    PROVE  OkIsDurable'
  <1>1. ASSUME NEW j \in Call, calls'[j].status = "ok"
        PROVE  \E op, e : \E c \in CredId :
                  calls'[j].op = op /\ calls'[j].email = e /\ Told(op, e, c)'
    <2>1. CASE /\ calls[j].status = "ok"
               /\ calls'[j].op = calls[j].op /\ calls'[j].email = calls[j].email
      <3>1. PICK op, e : op = calls[j].op /\ e = calls[j].email
        OBVIOUS
      <3>2. PICK c \in CredId : Told(op, e, c)
        BY <2>1, <3>1, OkDurable
      <3> QED
        BY <2>1, <3>1, <3>2, ToldStable
    <2> QED
      BY <1>1, <2>1
  <1>2. ASSUME NEW j \in Call, calls'[j].status = "ok"
        PROVE  \E c \in CredId : Told(calls[j].op, calls[j].email, c)'
    <2>1. PICK op, e : \E c \in CredId :
             calls'[j].op = op /\ calls'[j].email = e /\ Told(op, e, c)'
      BY <1>1, <1>2
    <2> QED
      BY <2>1 DEF Told
  <1> QED
    BY <1>2 DEF OkIsDurable, ByEmail, Told

\* A reply to a call, which tells the truth when it is ok.
LEMMA ReplyTold ==
    ASSUME Inv, [Next]_vars, OkIsDurable, NEW k \in Call, NEW op \in Op,
           NEW e \in Email \cup {NULL}, NEW status \in Status, Reply(k, op, e, status),
           status = "ok" => \E c \in CredId : Told(op, e, c)'
    PROVE  OkIsDurable'
  <1>1. /\ calls'[k].op = op /\ calls'[k].email = e /\ calls'[k].status = status
        /\ \A j \in Call : j # k => calls'[j] = calls[j]
    BY DEF Reply, Replied, Idle, Inv, TypeInv, TypeOK
  <1> QED
    BY <1>1, OneCallTold

\* A call that goes on keeps what it is about.
LEMMA MoveTold ==
    ASSUME Inv, [Next]_vars, OkIsDurable, NEW k \in Call, NEW call,
           calls' = [calls EXCEPT ![k] = call],
           \/ call.status = NULL
           \/ call.status = calls[k].status /\ call.op = calls[k].op /\ call.email = calls[k].email
    PROVE  OkIsDurable'
  <1>1. calls'[k] = call /\ \A j \in Call : j # k => calls'[j] = calls[j]
    BY DEF Inv, TypeInv, TypeOK
  <1>2. NULL # "ok"
    BY NullAssumption DEF Status
  <1> QED
    BY <1>1, <1>2, OneCallTold

LEMMA StartTold ==
    ASSUME Inv, OkIsDurable, [Next]_vars, NEW k \in Call, Start(k)
    PROVE  OkIsDurable'
  <1>1. UNCHANGED tables
    BY DEF Start, CreateStart, RequestStart, VerifyStart, StartFails
  <1>2. ASSUME NEW op \in Op, NEW e \in Email, NEW status \in Status,
               Reply(k, op, e, status), status # "ok"
        PROVE  OkIsDurable'
    BY <1>2, ReplyTold
  <1>3. ASSUME NEW e \in Email, NEW strong \in BOOLEAN, CreateStart(k, e, strong)
        PROVE  OkIsDurable'
    <2>1. [Idle EXCEPT !.pc = "create_insert", !.op = "create", !.email = e].status = NULL
      BY DEF Idle
    <2> QED
      BY <1>2, <1>3, <2>1, MoveTold DEF CreateStart, Op, Status
  <1>4. ASSUME NEW e \in Email, RequestStart(k, e)
        PROVE  OkIsDurable'
    <2>1. \A c : [Idle EXCEPT !.pc = "request_latest", !.op = "request",
                    !.email = e, !.cred = c].status = NULL
      BY DEF Idle
    <2>2. ASSUME NEW c \in ByEmail(e), credentials[c].email_verified,
                 Reply(k, "request", e, "ok")
          PROVE  OkIsDurable'
      <3>1. c \in CredId /\ Told("request", e, c)
        BY <2>2 DEF ByEmail, Told, Verified
      <3>2. Told("request", e, c)'
        BY <3>1, ToldStable
      <3> QED
        BY <2>2, <3>1, <3>2, ReplyTold DEF Op, Status
    <2> QED
      BY <1>2, <1>4, <2>1, <2>2, MoveTold DEF RequestStart, Op, Status
  <1>5. ASSUME NEW e \in Email, NEW token \in Code \cup ShortCode, VerifyStart(k, e, token)
        PROVE  OkIsDurable'
    <2> DEFINE copy(v) == [verifications[v] EXCEPT !.attempt_count = SaturatingInc(@)]
               started(v) == [Idle EXCEPT
                   !.pc = "verify_check", !.op = "verify",
                   !.email = e, !.token = token, !.ver = v, !.row = copy(v)]
    <2>1. ASSUME NEW v, calls' = [calls EXCEPT ![k] = started(v)] PROVE OkIsDurable'
      <3>1. started(v).status = NULL
        BY DEF Idle
      <3> HIDE DEF started
      <3> QED
        BY <2>1, <3>1, MoveTold
    <2>2. \/ \E status \in Status : status # "ok" /\ Reply(k, "verify", e, status)
          \/ \E v \in Newest(ActiveByEmail(e)) : calls' = [calls EXCEPT ![k] = started(v)]
      BY <1>5 DEF VerifyStart, Status
    <2> QED
      BY <1>2, <2>1, <2>2 DEF Op
  <1>6. ASSUME NEW op \in Op, NEW e \in ValidEmail, StartFails(k, op, e)
        PROVE  OkIsDurable'
    BY <1>2, <1>6 DEF StartFails, Email, Status
  <1> QED
    BY <1>3, <1>4, <1>5, <1>6 DEF Start

LEMMA CreateInsertTold ==
    ASSUME Inv, OkIsDurable, [Next]_vars, NEW k \in Call, CreateInsert(k)
    PROVE  OkIsDurable'
  <1>1. PICK e \in ValidEmail : e = calls[k].email
    BY DEF CreateInsert, Inv, TypeInv, CallsKnow, CallKnows
  <1>2. CASE Reply(k, "create", e, "internal")
    BY <1>1, <1>2, ReplyTold DEF Op, Status, Email
  <1>3. ASSUME NEW c \in CredId, NEW status \in {"ok", "internal"},
               Reply(k, "create", e, status),
               credentials' = [credentials EXCEPT ![c] = [email |-> e, email_verified |-> FALSE]]
        PROVE  OkIsDurable'
    <2>1. credentials'[c] = [email |-> e, email_verified |-> FALSE] /\ credentials'[c] \in Credential
      BY <1>3 DEF Inv, TypeInv, TypeOK, Credential
    <2>2. credentials'[c] # NULL
      BY <2>1, NullAssumption
    <2>3. credentials'[c].email = e
      BY <2>1
    <2>4. Told("create", e, c)'
      BY <2>2, <2>3 DEF Told
    <2> QED
      BY <1>3, <2>4, ReplyTold DEF Op, Status, Email
  <1> QED
    BY <1>1, <1>2, <1>3 DEF CreateInsert

LEMMA RequestTold ==
    ASSUME Inv, OkIsDurable, [Next]_vars, NEW k \in Call,
           RequestLatest(k) \/ RequestInsert(k) \/ RequestCommit(k)
    PROVE  OkIsDurable'
  <1>1. /\ calls[k] \in CallState /\ calls[k].email \in Email
        /\ Owns(calls[k].cred, calls[k].email)
    BY DEF RequestLatest, RequestInsert, RequestCommit, Inv, TypeInv, TypeOK,
           CallsKnow, CallKnows, Email
  <1>2. PICK e \in Email, c \in CredId :
           /\ e = calls[k].email /\ c = calls[k].cred
           /\ credentials[c] # NULL /\ credentials[c].email = e
    BY <1>1 DEF Owns
  <1>3. ASSUME RequestLatest(k) PROVE OkIsDurable'
    <2>1. ASSUME ActiveOf(c) # {}, Reply(k, "request", e, "ok") PROVE OkIsDurable'
      <3>1. Told("request", e, c)
        BY <1>2, <2>1 DEF ActiveOf, Active, Told
      <3> QED
        BY <2>1, <3>1, ToldStable, ReplyTold DEF Op, Status
    <2> DEFINE new(token) == [code |-> Hash(token), credential_id |-> calls[k].cred,
                              attempt_count |-> 0, used |-> FALSE,
                              expires_at |-> clock + CodeLifetime, created_at |-> 0]
               drawn(token) == [calls[k] EXCEPT !.pc = "request_insert",
                                                !.token = token, !.row = new(token)]
    <2>2. ASSUME NEW token, calls' = [calls EXCEPT ![k] = drawn(token)] PROVE OkIsDurable'
      <3> HIDE DEF new
      <3>1. /\ drawn(token).status = calls[k].status
            /\ drawn(token).op = calls[k].op /\ drawn(token).email = calls[k].email
        BY <1>1 DEF CallState
      <3> HIDE DEF drawn
      <3> QED
        BY <2>2, <3>1, MoveTold
    <2>3. \/ ActiveOf(c) # {} /\ Reply(k, "request", e, "ok")
          \/ \E token \in Code : calls' = [calls EXCEPT ![k] = drawn(token)]
      BY <1>2, <1>3 DEF RequestLatest
    <2> QED
      BY <2>1, <2>2, <2>3
  <1>4. ASSUME RequestInsert(k) PROVE OkIsDurable'
    <2> DEFINE stamped == [calls[k].row EXCEPT !.created_at = clock]
               inserted == [calls[k] EXCEPT !.pc = "request_commit", !.row = stamped]
    <2>1. ASSUME calls' = [calls EXCEPT ![k] = inserted] PROVE OkIsDurable'
      <3> HIDE DEF stamped
      <3>1. /\ inserted.status = calls[k].status
            /\ inserted.op = calls[k].op /\ inserted.email = calls[k].email
        BY <1>1 DEF CallState
      <3> HIDE DEF inserted
      <3> QED
        BY <2>1, <3>1, MoveTold
    <2>2. \/ Reply(k, "request", e, "internal")
          \/ calls' = [calls EXCEPT ![k] = inserted]
      BY <1>2, <1>4 DEF RequestInsert
    <2> QED
      BY <2>1, <2>2, ReplyTold DEF Op, Status
  <1>5. ASSUME RequestCommit(k) PROVE OkIsDurable'
    <2>1. PICK status \in {"ok", "internal"} : Reply(k, "request", e, status)
      BY <1>2, <1>5 DEF RequestCommit
    <2>2. calls[k].row \in Verification /\ calls[k].row.credential_id = c
      BY <1>2, <1>5 DEF RequestCommit, Inv, TypeInv, CallsKnow, CallKnows
    <2>3. \E v \in VerId : verifications'[v] # NULL /\ verifications'[v].credential_id = c
      BY <1>5, <2>2, NullAssumption DEF RequestCommit, Inv, TypeInv, TypeOK
    <2>4. Told("request", e, c)'
      BY <1>2, <1>5, <2>3 DEF RequestCommit, Told
    <2> QED
      BY <2>1, <2>4, ReplyTold DEF Op, Status
  <1> QED
    BY <1>3, <1>4, <1>5

LEMMA VerifyTold ==
    ASSUME Inv, OkIsDurable, [Next]_vars, NEW k \in Call,
           \/ VerifyCheck(k) \/ VerifyReject(k) \/ VerifyUpdate(k)
           \/ VerifyCredential(k) \/ VerifyCommit(k)
    PROVE  OkIsDurable'
  <1>1. calls[k] \in CallState /\ calls[k].email \in Email
    BY DEF VerifyCheck, VerifyReject, VerifyUpdate, VerifyCredential, VerifyCommit,
           Inv, TypeInv, TypeOK, CallsKnow, CallKnows, Email
  <1> DEFINE used == [calls[k].row EXCEPT !.used = TRUE]
             at(pc) == [calls[k] EXCEPT !.pc = pc]
             accepted == [calls[k] EXCEPT !.pc = "verify_update", !.row = used]
  <1>2. ASSUME calls' = [calls EXCEPT ![k] = accepted] PROVE OkIsDurable'
    <2> HIDE DEF used
    <2>1. /\ accepted.status = calls[k].status
          /\ accepted.op = calls[k].op /\ accepted.email = calls[k].email
      BY <1>1 DEF CallState
    <2> HIDE DEF accepted
    <2> QED
      BY <1>2, <2>1, MoveTold
  <1>3. ASSUME NEW pc, calls' = [calls EXCEPT ![k] = at(pc)] PROVE OkIsDurable'
    <2>1. /\ at(pc).status = calls[k].status
          /\ at(pc).op = calls[k].op /\ at(pc).email = calls[k].email
      BY <1>1 DEF CallState
    <2> HIDE DEF at
    <2> QED
      BY <1>3, <2>1, MoveTold
  <1>4. ASSUME NEW status \in Status, status # "ok", Reply(k, "verify", calls[k].email, status)
        PROVE  OkIsDurable'
    BY <1>1, <1>4, ReplyTold DEF Op
  <1>5. VerifyCheck(k) => OkIsDurable'
    BY <1>2, <1>3 DEF VerifyCheck, Goto
  <1>6. VerifyReject(k) \/ VerifyUpdate(k) \/ VerifyCredential(k) => OkIsDurable'
    BY <1>3, <1>4 DEF VerifyReject, VerifyUpdate, VerifyCredential, Goto, Status
  <1>7. ASSUME VerifyCommit(k) PROVE OkIsDurable'
    <2>1. PICK c \in CredId :
             /\ Owns(c, calls[k].email) /\ Verified(c)'
             /\ credentials'[c] # NULL /\ credentials'[c].email = credentials[c].email
      BY <1>7, VerifyCommitVerifiesOne
    <2>2. PICK e \in Email : e = calls[k].email
      BY <1>1
    <2>3. Told("verify", e, c)'
      BY <2>1, <2>2 DEF Told, Owns
    <2>4. PICK status \in {"ok", "internal"} : Reply(k, "verify", e, status)
      BY <1>7, <2>2 DEF VerifyCommit
    <2> QED
      BY <2>3, <2>4, ReplyTold DEF Op, Status
  <1> QED
    BY <1>5, <1>6, <1>7

LEMMA NextTold == Inv /\ OkIsDurable /\ [Next]_vars => OkIsDurable'
  <1> SUFFICES ASSUME Inv, OkIsDurable, [Next]_vars PROVE OkIsDurable'
    OBVIOUS
  <1>1. ASSUME NEW k \in Call, Start(k) PROVE OkIsDurable'
    BY <1>1, StartTold
  <1>2. ASSUME NEW k \in Call, Return(k) \/ Dropped(k) PROVE OkIsDurable'
    BY <1>2, MoveTold DEF Return, Dropped, Idle
  <1>3. ASSUME NEW k \in Call, DatabaseError(k) PROVE OkIsDurable'
    <2>1. /\ calls'[k].status = "internal"
          /\ \A j \in Call : j # k => calls'[j] = calls[j]
      BY <1>3 DEF DatabaseError, Reply, Replied, Idle, Inv, TypeInv, TypeOK
    <2> QED
      BY <2>1, OneCallTold
  <1>4. ASSUME NEW k \in Call, Step(k) PROVE OkIsDurable'
    BY <1>2, <1>4, CreateInsertTold, RequestTold, VerifyTold DEF Step
  <1>5. CASE Tick \/ UNCHANGED vars
    <2>1. UNCHANGED <<tables, calls>>
      BY <1>5 DEF Tick, vars, tables
    <2> QED
      BY <2>1 DEF OkIsDurable, ByEmail, Verified, tables
  <1> QED
    BY <1>1, <1>2, <1>3, <1>4, <1>5 DEF Next

\* What a caller was told by ok is true of the committed rows, and stays true
\* whatever other handlers do before the caller hears it.
THEOREM OkStaysTrue == Spec => []OkIsDurable
  <1>1. Init => OkIsDurable
    BY NullAssumption DEF Init, OkIsDurable, Idle, Status
  <1> QED
    BY <1>1, Invariance, NextTold, PTL DEF Spec
-----------------------------------------------------------------------------
(* Calls that do not overlap                                               *)

\* A request about to insert has found no active code, and a verify_email call
\* holds a code that nobody has used since.
SequentialInv ==
    /\ OneActiveCode
    /\ \A k \in Call, c \in CredId :
          calls[k].pc \in {"request_insert", "request_commit"} /\ calls[k].cred = c
          => ActiveOf(c) = {}
    /\ \A k \in Call, v \in VerId :
          /\ calls[k].pc \in {"verify_check", "verify_reject", "verify_update",
                               "verify_credential", "verify_commit"}
          /\ calls[k].ver = v
          => ~verifications[v].used

\* Only the commit of a request makes a code active: a stale write-back that
\* would unset used_at needs a second call.
LEMMA NoNewActive ==
    ASSUME Inv, SequentialInv, [Next]_vars, \A k \in Call : ~RequestCommit(k)
    PROVE  \A v \in VerId : Active(v)' =>
              Active(v) /\ verifications'[v].credential_id = verifications[v].credential_id
  <1> DEFINE Fewer == \A v \in VerId : Active(v)' =>
                 Active(v) /\ verifications'[v].credential_id = verifications[v].credential_id
  <1>1. CASE UNCHANGED verifications /\ clock' \in {clock, clock + 1}
    BY <1>1 DEF Active, Inv, TypeInv, TypeOK, Verification
  <1>2. ASSUME NEW k \in Call, VerifyReject(k) \/ VerifyCommit(k) PROVE Fewer
    <2>1. PICK w \in VerId : w = calls[k].ver /\ verifications[w] # NULL /\ ~verifications[w].used
      BY <1>2, WritingBack DEF VerifyReject, VerifyCommit, Inv, SequentialInv
    <2>2. /\ verifications' = WriteBack(calls[k]) /\ clock' = clock
      BY <1>2 DEF VerifyReject, VerifyCommit
    <2>3. /\ verifications[w] \in Verification
          /\ verifications'[w] = [verifications[w] EXCEPT
                                    !.used = calls[k].row.used,
                                    !.attempt_count = calls[k].row.attempt_count]
          /\ \A v \in VerId : v # w => verifications'[v] = verifications[v]
      BY <2>1, <2>2 DEF WriteBack, Inv, TypeInv, TypeOK
    <2>4. /\ verifications'[w].expires_at = verifications[w].expires_at
          /\ verifications'[w].credential_id = verifications[w].credential_id
      BY <2>3 DEF Verification
    <2> QED
      BY <2>1, <2>2, <2>3, <2>4 DEF Active
  <1>3. ASSUME NEW k \in Call, Start(k) PROVE Fewer
    BY <1>1, <1>3 DEF Start, CreateStart, RequestStart, VerifyStart, StartFails, tables
  <1>4. ASSUME NEW k \in Call, Step(k) PROVE Fewer
    BY <1>1, <1>2, <1>4 DEF Step, CreateInsert, RequestLatest, RequestInsert, VerifyCheck,
                            VerifyUpdate, VerifyCredential, Return, tables
  <1> QED
    BY <1>1, <1>3, <1>4 DEF Next, vars, tables, DatabaseError, Dropped, Tick

\* What a step makes of its call, as far as SequentialInv looks at it.
LEMMA OneStepSequential ==
    ASSUME \A j, k \in Call : j = k, Inv, SequentialInv, [Next]_vars, NEW k \in Call,
           NEW call, calls' = [calls EXCEPT ![k] = call], \A j \in Call : ~RequestCommit(j),
           \/ call.pc \in {"idle", "replied", "create_insert", "request_latest"}
           \/ /\ call.pc \in {"request_insert", "request_commit"}
              /\ call.cred \in CredId => ActiveOf(call.cred) = {}
           \/ /\ call.pc \in {"verify_check", "verify_reject", "verify_update",
                               "verify_credential", "verify_commit"}
              /\ UNCHANGED tables
              /\ call.ver \in VerId => ~verifications[call.ver].used
    PROVE  SequentialInv'
  <1>1. \A j \in Call : j = k /\ calls'[j] = call
    BY DEF Inv, TypeInv, TypeOK
  <1>2. OneActiveCode'
    BY NoNewActive DEF SequentialInv, OneActiveCode
  <1>3. ASSUME NEW c \in CredId, ActiveOf(c) = {} PROVE ActiveOf(c)' = {}
    BY <1>3, NoNewActive DEF ActiveOf
  <1>4. ASSUME NEW j \in Call, NEW c \in CredId,
               calls'[j].pc \in {"request_insert", "request_commit"}, calls'[j].cred = c
        PROVE  ActiveOf(c)' = {}
    BY <1>1, <1>3, <1>4
  <1>5. ASSUME NEW j \in Call, NEW v \in VerId,
               calls'[j].pc \in {"verify_check", "verify_reject", "verify_update",
                                 "verify_credential", "verify_commit"},
               calls'[j].ver = v
        PROVE  ~verifications'[v].used
    BY <1>1, <1>5 DEF tables
  <1> QED
    BY <1>2, <1>4, <1>5 DEF SequentialInv
LEMMA RequestCommitSequential ==
    ASSUME \A j, k \in Call : j = k, Inv, SequentialInv, [Next]_vars,
           NEW k \in Call, RequestCommit(k)
    PROVE  SequentialInv'
  <1>1. PICK c \in CredId : /\ c = calls[k].cred /\ calls[k].row.credential_id = c
                            /\ calls[k].row \in Verification /\ ActiveOf(c) = {}
    BY DEF RequestCommit, Inv, TypeInv, CallsKnow, CallKnows, SequentialInv, Owns
  <1>2. PICK w \in VerId : /\ verifications[w] = NULL /\ clock' = clock
                           /\ verifications' = [verifications EXCEPT ![w] = calls[k].row]
    BY DEF RequestCommit
  <1>3. /\ verifications'[w].credential_id = c
        /\ \A v \in VerId : v # w => verifications'[v] = verifications[v]
    BY <1>1, <1>2 DEF Inv, TypeInv, TypeOK
  <1>4. \A v \in VerId : v # w /\ Active(v)' => Active(v) /\ verifications[v].credential_id # c
    BY <1>1, <1>2, <1>3 DEF ActiveOf, Active
  <1>5. OneActiveCode'
    BY <1>3, <1>4 DEF SequentialInv, OneActiveCode
  <1>6. calls'[k].pc = "replied"
    BY DEF RequestCommit, Reply, Replied, Idle, Inv, TypeInv, TypeOK
  <1>7. \A j \in Call : calls'[j].pc = "replied"
    BY <1>6
  <1> QED
    BY <1>5, <1>7 DEF SequentialInv

LEMMA NextSequential ==
    ASSUME \A j, k \in Call : j = k, Inv, SequentialInv, [Next]_vars
    PROVE  SequentialInv'
  <1> DEFINE Quiet == {"idle", "replied", "create_insert", "request_latest"}
  <1>1. ASSUME NEW k \in Call, RequestCommit(k) PROVE SequentialInv'
    BY <1>1, RequestCommitSequential
  <1> SUFFICES ASSUME \A j \in Call : ~RequestCommit(j) PROVE SequentialInv'
    BY <1>1
  <1>2. ASSUME NEW k \in Call, NEW call, calls' = [calls EXCEPT ![k] = call],
               call.pc \in Quiet
        PROVE  SequentialInv'
    BY <1>2, OneStepSequential
  <1>3. ASSUME NEW k \in Call, NEW op, NEW e, NEW status, Reply(k, op, e, status)
        PROVE  SequentialInv'
    <2>1. Replied(op, e, status).pc = "replied"
      BY DEF Replied, Idle
    <2> QED
      BY <1>2, <1>3, <2>1 DEF Reply
  <1>4. ASSUME NEW k \in Call, NEW pc, calls' = [calls EXCEPT ![k].pc = pc], UNCHANGED tables,
               calls[k].pc \in {"verify_check", "verify_update", "verify_credential"},
               pc \in {"verify_reject", "verify_credential", "verify_commit"}
        PROVE  SequentialInv'
    <2> DEFINE moved == [calls[k] EXCEPT !.pc = pc]
    <2>1. moved.pc = pc /\ moved.ver = calls[k].ver /\ calls' = [calls EXCEPT ![k] = moved]
      BY <1>4 DEF Inv, TypeInv, TypeOK, CallState
    <2>2. moved.ver \in VerId => ~verifications[moved.ver].used
      BY <1>4, <2>1 DEF SequentialInv
    <2> HIDE DEF moved
    <2> QED
      BY <1>4, <2>1, <2>2, OneStepSequential
  <1>5. ASSUME NEW k \in Call, Start(k) PROVE SequentialInv'
    <2>1. ASSUME NEW e, NEW strong, CreateStart(k, e, strong) PROVE SequentialInv'
      <3>1. [Idle EXCEPT !.pc = "create_insert", !.op = "create", !.email = e].pc \in Quiet
        BY DEF Idle
      <3> QED
        BY <1>2, <1>3, <2>1, <3>1 DEF CreateStart
    <2>2. ASSUME NEW e, RequestStart(k, e) PROVE SequentialInv'
      <3>1. \A c : [Idle EXCEPT !.pc = "request_latest", !.op = "request",
                      !.email = e, !.cred = c].pc \in Quiet
        BY DEF Idle
      <3> QED
        BY <1>2, <1>3, <2>2, <3>1 DEF RequestStart
    <2>3. ASSUME NEW e, NEW token, VerifyStart(k, e, token) PROVE SequentialInv'
      <3> DEFINE copy(v) == [verifications[v] EXCEPT !.attempt_count = SaturatingInc(@)]
                 started(v) == [Idle EXCEPT
                     !.pc = "verify_check", !.op = "verify",
                     !.email = e, !.token = token, !.ver = v, !.row = copy(v)]
      <3>1. ASSUME NEW v \in ActiveByEmail(e), calls' = [calls EXCEPT ![k] = started(v)],
                   UNCHANGED tables
            PROVE  SequentialInv'
        <4>1. ~verifications[v].used
          BY <3>1 DEF ActiveByEmail, Active
        <4>2. started(v).pc = "verify_check" /\ started(v).ver = v
          BY DEF Idle
        <4> HIDE DEF started
        <4> QED
          BY <3>1, <4>1, <4>2, OneStepSequential
      <3>2. /\ UNCHANGED tables
            /\ \/ \E status : Reply(k, "verify", e, status)
               \/ \E v \in ActiveByEmail(e) : calls' = [calls EXCEPT ![k] = started(v)]
        BY <2>3 DEF VerifyStart, Newest
      <3> QED
        BY <1>3, <3>1, <3>2
    <2>4. ASSUME NEW op, NEW e, StartFails(k, op, e) PROVE SequentialInv'
      BY <1>3, <2>4 DEF StartFails
    <2> QED
      BY <1>5, <2>1, <2>2, <2>3, <2>4 DEF Start
  <1>6. ASSUME NEW k \in Call, RequestLatest(k) PROVE SequentialInv'
    <2> DEFINE new(token) == [code |-> Hash(token), credential_id |-> calls[k].cred,
                              attempt_count |-> 0, used |-> FALSE,
                              expires_at |-> clock + CodeLifetime, created_at |-> 0]
               drawn(token) == [calls[k] EXCEPT !.pc = "request_insert",
                                                !.token = token, !.row = new(token)]
    <2>1. ASSUME NEW token, calls' = [calls EXCEPT ![k] = drawn(token)],
                 ActiveOf(calls[k].cred) = {}
          PROVE  SequentialInv'
      <3> HIDE DEF new
      <3>1. drawn(token).pc = "request_insert" /\ drawn(token).cred = calls[k].cred
        BY DEF Inv, TypeInv, TypeOK, CallState
      <3> HIDE DEF drawn
      <3> QED
        BY <2>1, <3>1, OneStepSequential
    <2>2. \/ Reply(k, "request", calls[k].email, "ok")
          \/ /\ ActiveOf(calls[k].cred) = {}
             /\ \E token \in Code : calls' = [calls EXCEPT ![k] = drawn(token)]
      BY <1>6 DEF RequestLatest
    <2> QED
      BY <1>3, <2>1, <2>2
  <1>7. ASSUME NEW k \in Call, RequestInsert(k) PROVE SequentialInv'
    <2> DEFINE stamped == [calls[k].row EXCEPT !.created_at = clock]
               inserted == [calls[k] EXCEPT !.pc = "request_commit", !.row = stamped]
    <2>1. ASSUME calls' = [calls EXCEPT ![k] = inserted] PROVE SequentialInv'
      <3> HIDE DEF stamped
      <3>1. inserted.pc = "request_commit" /\ inserted.cred = calls[k].cred
        BY DEF Inv, TypeInv, TypeOK, CallState
      <3>2. inserted.cred \in CredId => ActiveOf(inserted.cred) = {}
        BY <1>7, <3>1 DEF RequestInsert, SequentialInv
      <3> HIDE DEF inserted
      <3> QED
        BY <2>1, <3>1, <3>2, OneStepSequential
    <2>2. \/ Reply(k, "request", calls[k].email, "internal")
          \/ calls' = [calls EXCEPT ![k] = inserted]
      BY <1>7 DEF RequestInsert
    <2> QED
      BY <1>3, <2>1, <2>2
  <1>8. ASSUME NEW k \in Call, VerifyCheck(k) PROVE SequentialInv'
    <2> DEFINE used == [calls[k].row EXCEPT !.used = TRUE]
               accepted == [calls[k] EXCEPT !.pc = "verify_update", !.row = used]
    <2>1. ASSUME calls' = [calls EXCEPT ![k] = accepted] PROVE SequentialInv'
      <3> HIDE DEF used
      <3>1. accepted.pc = "verify_update" /\ accepted.ver = calls[k].ver
        BY DEF Inv, TypeInv, TypeOK, CallState
      <3>2. accepted.ver \in VerId => ~verifications[accepted.ver].used
        BY <1>8, <3>1 DEF VerifyCheck, SequentialInv
      <3> HIDE DEF accepted
      <3> QED
        BY <1>8, <2>1, <3>1, <3>2, OneStepSequential DEF VerifyCheck
    <2> QED
      BY <1>4, <1>8, <2>1 DEF VerifyCheck, Goto
  <1>9. ASSUME NEW k \in Call, Step(k) PROVE SequentialInv'
    <2>1. CreateInsert(k) \/ VerifyReject(k) \/ VerifyCommit(k) => SequentialInv'
      BY <1>3 DEF CreateInsert, VerifyReject, VerifyCommit
    <2>2. VerifyUpdate(k) \/ VerifyCredential(k) => SequentialInv'
      BY <1>3, <1>4 DEF VerifyUpdate, VerifyCredential, Goto
    <2>3. Return(k) => SequentialInv'
      BY <1>2 DEF Return, Idle
    <2> QED
      BY <1>6, <1>7, <1>8, <1>9, <2>1, <2>2, <2>3 DEF Step
  <1>10. ASSUME NEW k \in Call, DatabaseError(k) \/ Dropped(k) PROVE SequentialInv'
    BY <1>2, <1>3, <1>10 DEF DatabaseError, Dropped, Idle
  <1>11. CASE Tick \/ UNCHANGED vars
    <2>1. UNCHANGED <<tables, calls>>
      BY <1>11 DEF Tick, vars, tables
    <2>2. OneActiveCode'
      BY NoNewActive DEF SequentialInv, OneActiveCode
    <2>3. \A c \in CredId : ActiveOf(c) = {} => ActiveOf(c)' = {}
      BY NoNewActive DEF ActiveOf
    <2>4. \A k \in Call, c \in CredId :
             calls'[k].pc \in {"request_insert", "request_commit"} /\ calls'[k].cred = c
             => ActiveOf(c)' = {}
      BY <2>1, <2>3 DEF SequentialInv
    <2> QED
      BY <2>1, <2>2, <2>4 DEF SequentialInv, tables
  <1> QED
    BY <1>5, <1>9, <1>10, <1>11 DEF Next

\* With one call at a time, each in flight until its last statement has taken
\* effect or is given up, an account never has two active codes, through any
\* failures, dropped calls and expiries: only overlapping requests break it.
THEOREM OneActiveWhenSequential ==
    ASSUME \A j, k \in Call : j = k
    PROVE  Spec => []OneActiveCode
  <1>1. Init => SequentialInv
    BY DEF Init, SequentialInv, OneActiveCode, Active, Idle
  <1>2. Inv /\ SequentialInv /\ [Next]_vars => SequentialInv'
    BY NextSequential
  <1>3. SequentialInv => OneActiveCode
    BY DEF SequentialInv
  <1> QED
    BY <1>1, <1>2, <1>3, Invariance, PTL DEF Spec
=============================================================================
