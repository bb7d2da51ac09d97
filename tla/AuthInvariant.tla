--------------------------- MODULE AuthInvariant ---------------------------
(* The inductive invariant of AuthService: what holds between the steps of *)
(* overlapping handlers, beyond what callers and consumers can see.        *)
EXTENDS AuthRefinement

\* The credential of address e, known to a call by its id.
Owns(c, e) == c \in CredId /\ credentials[c] # NULL /\ credentials[c].email = e

\* The copy of row v in a verify call for address e and the given code: v is
\* there, and its code and credential are still those of the copy.
CopyOf(v, call) ==
    /\ v \in VerId /\ verifications[v] # NULL
    /\ call.row \in Verification
    /\ call.row.code = verifications[v].code
    /\ call.row.credential_id = verifications[v].credential_id
    /\ Owns(call.row.credential_id, call.email)

\* What a call at each await knows of the tables, whatever others did since.
CallKnows(call) ==
    /\ call.pc \notin {"idle", "replied"} => call.email \in ValidEmail
    /\ call.pc \in {"request_latest", "request_insert", "request_commit"} =>
          Owns(call.cred, call.email)
    /\ call.pc \in {"request_insert", "request_commit"} =>
          /\ call.token \in Code
          /\ call.row \in Verification
          /\ call.row.code = Hash(call.token)
          /\ call.row.credential_id = call.cred
          /\ ~call.row.used
    /\ call.pc \in {"verify_check", "verify_reject"} =>
          CopyOf(call.ver, call) /\ ~call.row.used
    /\ call.pc \in {"verify_update", "verify_credential", "verify_commit"} =>
          CopyOf(call.ver, call) /\ call.row.used /\ call.row.code = Hash(call.token)

CallsKnow == \A k \in Call : CallKnows(calls[k])

\* Every stored code belongs to a credential.
RowsRefer ==
    \A v \in VerId : verifications[v] # NULL =>
        credentials[verifications[v].credential_id] # NULL

\* An address is registered once.
UniqueEmail ==
    \A c, d \in CredId : \A e \in ValidEmail : Owns(c, e) /\ Owns(d, e) => c = d

\* A credential has a code once, among the stored codes and the inserts that
\* are not committed.
UniqueCode ==
    /\ \A v, w \in VerId :
          /\ verifications[v] # NULL /\ verifications[w] # NULL
          /\ verifications[v].credential_id = verifications[w].credential_id
          /\ verifications[v].code = verifications[w].code
          => v = w
    /\ \A k \in Call, v \in VerId :
          calls[k].pc = "request_commit" /\ verifications[v] # NULL =>
              \/ verifications[v].credential_id # calls[k].row.credential_id
              \/ verifications[v].code # calls[k].row.code
    /\ \A j, k \in Call :
          calls[j].pc = "request_commit" /\ calls[k].pc = "request_commit" /\ j # k =>
              \/ calls[j].row.credential_id # calls[k].row.credential_id
              \/ calls[j].row.code # calls[k].row.code

\* The credential that a verify call is about to commit is not verified yet,
\* and no other call is about to commit it.
OneCommitPerAccount ==
    /\ \A k \in Call : calls[k].pc = "verify_commit" =>
          ~credentials[calls[k].row.credential_id].email_verified
    /\ \A j, k \in Call :
          calls[j].pc = "verify_commit" /\ calls[k].pc = "verify_commit"
          /\ calls[j].email = calls[k].email => j = k

\* What every step does at most to the rows: no credential goes or changes its
\* address, and no stored code goes or changes its code or credential.
KeepsRows ==
    /\ \A c \in CredId : credentials[c] # NULL =>
          credentials'[c] # NULL /\ credentials'[c].email = credentials[c].email
    /\ \A v \in VerId : verifications[v] # NULL =>
          /\ verifications'[v] # NULL
          /\ verifications'[v].code = verifications[v].code
          /\ verifications'[v].credential_id = verifications[v].credential_id

TypeInv == TypeOK /\ CallsKnow

Inv ==
    /\ TypeInv
    /\ RowsRefer
    /\ UniqueEmail
    /\ UniqueCode
    /\ OneCommitPerAccount
    /\ UsedOnlyIfVerified
    /\ VerifiedEventOnce
=============================================================================
