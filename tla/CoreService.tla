---------------------------- MODULE CoreService ----------------------------
(***************************************************************************)
(* confirmo-graphql: the operations of CoreService over its own database   *)
(* and over the RPCs of confirmo-auth, and the EmailVerified messages that *)
(* come back from it.                                                      *)
(*                                                                         *)
(* confirmo-auth is its one-step specification EmailVerification, which    *)
(* AuthServiceProofs proves of its handlers.  An RPC that fails for its    *)
(* caller may take effect all the same, now or later.  A message in the    *)
(* outbox is handled any number of times, in any order, or never, which is *)
(* all that OutboxRelay and KafkaConsumer leave to rely on.                *)
(***************************************************************************)
EXTENDS Integers, Sequences, FiniteSets

CONSTANTS
    Call,          \* GraphQL operations that can be in flight at the same time
    Account,       \* ids of credentials, and of users
    Address,       \* well-formed addresses
    Code,          \* well-formed codes
    Oab,           \* oab_number
    MaxAbandoned,  \* bound on the failed RPCs that may still take effect
    NULL

VARIABLES
    address, issued, verified, outbox,  \* confirmo-auth
    users,      \* id -> row of users, or NULL
    lawyers,    \* id -> row of lawyers, or NULL
    firms,      \* firms; the firm of a lawyer goes by the lawyer's id
    calls,      \* the operations in flight
    abandoned   \* the RPCs that failed for their caller

auth == <<address, issued, verified, outbox>>
tables == <<users, lawyers, firms>>
vars == <<auth, tables, calls, abandoned>>

Auth == INSTANCE EmailVerification

ASSUME BoundAssumption == MaxAbandoned \in Nat

-----------------------------------------------------------------------------
(* Rows, RPCs and the local state of an operation                          *)

Status == {"pending_email_verification", "email_verified"}
User == [email : Address, status : Status]
Lawyer == [oab_number : Oab, firm_id : Account]

\* The domain's lawyer: a row of users with the row of lawyers of the same id.
Profile == [email : Address, status : Status, oab_number : Oab, firm_id : Account]
FromDao(user, lawyer) ==
    [email |-> user.email, status |-> user.status,
     oab_number |-> lawyer.oab_number, firm_id |-> lawyer.firm_id]

\* What the GraphQL reply shows of it.
GqlStatus ==
    [pending_email_verification |-> "PENDING_EMAIL_VERIFICATION",
     email_verified |-> "EMAIL_VERIFIED", active |-> "ACTIVE",
     suspended |-> "SUSPENDED", disabled |-> "DISABLED"]
GqlLawyer(p) == [p EXCEPT !.status = GqlStatus[@]]

Rpc == [rpc : {"create_credential", "request_email_verification"}, email : Address]
       \cup [rpc : {"verify_email"}, email : Address, code : Code]

Op == {"create_lawyer_account", "lawyer", "request_new_code", "verify_email"}

\* The replies a caller tells apart.
Result == {"ok", "invalid", "oab_exists", "email_exists", "user_not_found",
           "invalid_credentials", "invalid_argument", "unavailable", "auth", "internal"}

\* Mutant of RpcError: every unknown failure reads as a duplicate address.
RpcErrorCollapsed ==
    [unavailable |-> "unavailable", already_exists |-> "email_exists",
     unauthenticated |-> "invalid_credentials", permission_denied |-> "invalid_credentials",
     invalid_argument |-> "invalid_argument", other |-> "email_exists"]

\* The reply to a gRPC status; "other" is every code without an arm of its own,
\* confirmo-auth's not_found and internal among them.
RpcError ==
    [unavailable |-> "unavailable", already_exists |-> "email_exists",
     unauthenticated |-> "invalid_credentials", permission_denied |-> "invalid_credentials",
     invalid_argument |-> "invalid_argument", other |-> "auth"]

ASSUME NullAssumption ==
    /\ NULL \notin Account /\ NULL \notin Address /\ NULL \notin Code /\ NULL \notin Oab
    /\ NULL \notin User /\ NULL \notin Lawyer /\ NULL \notin Result /\ NULL \notin Op

Pc == {"idle", "replied", "exists_by_oab", "create_credential", "create_lawyer",
       "get_user", "get_lawyer", "request_verification", "verify"}

Idle == [pc |-> "idle", op |-> NULL, result |-> NULL,
         email |-> NULL, oab |-> NULL, code |-> NULL, id |-> NULL,
         user |-> NULL, lawyer |-> NULL]

CallState == [pc : Pc, op : Op \cup {NULL}, result : Result \cup {NULL},
              email : Address \cup {NULL}, oab : Oab \cup {NULL},
              code : Code \cup {NULL}, id : Account \cup {NULL},
              user : User \cup {NULL}, lawyer : Profile \cup {NULL}]

Init ==
    /\ Auth!Init
    /\ users = [a \in Account |-> NULL]
    /\ lawyers = [a \in Account |-> NULL]
    /\ firms = {}
    /\ calls = [k \in Call |-> Idle]
    /\ abandoned = {}

At(k, pc) == calls[k].pc = pc
Goto(k, pc) == calls' = [calls EXCEPT ![k].pc = pc]
Reply(k, result) == calls' = [calls EXCEPT ![k].pc = "replied", ![k].result = result]

-----------------------------------------------------------------------------
(* What the RPCs do in confirmo-auth                                       *)

Registered(e) == {a \in Account : address[a] = e}
HasCode(a) == \E t \in Code : <<a, t>> \in issued

CreateCredentialEffect(e, a) == Auth!Register(a, e)

\* confirmo-auth looks for a verified account and an active code some awaits before
\* it commits the new one, and either may be there by then.
RequestEffect(e) == \E a \in Registered(e), t \in Code : Auth!Issue(a, t)

VerifyEffect(e, t) == \E a \in Registered(e) : Auth!Confirm(a, t)

\* The RPC the operation waits for.
RpcOf(k) ==
    IF At(k, "create_credential") THEN
        [rpc |-> "create_credential", email |-> calls[k].email]
    ELSE IF At(k, "request_verification") THEN
        [rpc |-> "request_email_verification", email |-> calls[k].email]
    ELSE [rpc |-> "verify_email", email |-> calls[k].email, code |-> calls[k].code]

\* The connection is lost, or either side fails; confirmo-auth may have done, or
\* may still do, what it was asked.
RpcFails(k) ==
    /\ \E pc \in {"create_credential", "request_verification", "verify"} : At(k, pc)
    /\ Cardinality(abandoned) < MaxAbandoned
    /\ abandoned' = abandoned \cup {RpcOf(k)}
    /\ \E status \in {"unavailable", "other"} : Reply(k, RpcError[status])
    /\ UNCHANGED <<auth, tables>>

\* A failed RPC takes effect after all.
LateEffect(r) ==
    /\ r \in abandoned
    /\ abandoned' = abandoned \ {r}
    /\ \/ /\ r.rpc = "create_credential"
          /\ \E a \in Account : CreateCredentialEffect(r.email, a)
       \/ r.rpc = "request_email_verification" /\ RequestEffect(r.email)
       \/ r.rpc = "verify_email" /\ VerifyEffect(r.email, r.code)
    /\ UNCHANGED <<tables, calls>>

-----------------------------------------------------------------------------
(* create_lawyer_account                                                   *)

\* Validation of address, password and firm name.
CreateStart(k, e, oab) ==
    /\ calls[k] = Idle
    /\ \E pc \in {"exists_by_oab", "replied"} :
          calls' = [calls EXCEPT ![k] = [Idle EXCEPT
              !.pc = pc, !.op = "create_lawyer_account", !.email = e, !.oab = oab,
              !.result = IF pc = "replied" THEN "invalid" ELSE NULL]]
    /\ UNCHANGED <<auth, tables, abandoned>>

OabTaken(oab) == \E a \in Account : lawyers[a] # NULL /\ lawyers[a].oab_number = oab

ExistsByOab(k) ==
    /\ At(k, "exists_by_oab")
    /\ \/ OabTaken(calls[k].oab) /\ Reply(k, "oab_exists")
       \/ ~OabTaken(calls[k].oab) /\ Goto(k, "create_credential")
    /\ UNCHANGED <<auth, tables, abandoned>>

CreateCredential(k) ==
    LET e == calls[k].email IN
    /\ At(k, "create_credential")
    /\ \/ /\ Registered(e) # {}
          /\ Reply(k, RpcError["already_exists"])
          /\ UNCHANGED auth
       \/ \E a \in Account :
             /\ CreateCredentialEffect(e, a)
             /\ calls' = [calls EXCEPT ![k].pc = "create_lawyer", ![k].id = a]
    /\ UNCHANGED <<tables, abandoned>>

\* users.id and users.email, and lawyers.oab_number, are unique.
Conflict(k) ==
    \/ users[calls[k].id] # NULL
    \/ \E a \in Account : users[a] # NULL /\ users[a].email = calls[k].email
    \/ OabTaken(calls[k].oab)

\* Mutant of NewUser: the account starts out active.
NewUserActive(k) == [email |-> calls[k].email, status |-> "active"]

NewUser(k) == [email |-> calls[k].email, status |-> "pending_email_verification"]
NewLawyer(k) == [oab_number |-> calls[k].oab, firm_id |-> calls[k].id]

\* The lawyer to reply is the rows as inserted, whatever happens to them since.
CreatedGoto(k) ==
    calls' = [calls EXCEPT ![k].pc = "request_verification",
                           ![k].lawyer = FromDao(NewUser(k), NewLawyer(k))]

\* Mutant of CreateLawyer: the three rows are inserted without a transaction.
CreateLawyerUnprotected(k) ==
    LET a == calls[k].id IN
    /\ At(k, "create_lawyer")
    /\ firms' = firms \cup {a}
    /\ users' = [users EXCEPT ![a] = NewUser(k)]
    /\ \/ OabTaken(calls[k].oab) /\ Reply(k, "internal") /\ UNCHANGED lawyers
       \/ /\ ~OabTaken(calls[k].oab)
          /\ lawyers' = [lawyers EXCEPT ![a] = NewLawyer(k)]
          /\ CreatedGoto(k)
    /\ UNCHANGED <<auth, abandoned>>

\* Firm, user and lawyer in one transaction; a conflict rolls all three back,
\* and the acknowledgement of the commit can be lost.
CreateLawyer(k) ==
    LET a == calls[k].id IN
    /\ At(k, "create_lawyer")
    /\ \/ /\ Conflict(k)
          /\ Reply(k, "internal")
          /\ UNCHANGED tables
       \/ /\ ~Conflict(k)
          /\ firms' = firms \cup {a}
          /\ users' = [users EXCEPT ![a] = NewUser(k)]
          /\ lawyers' = [lawyers EXCEPT ![a] = NewLawyer(k)]
          /\ CreatedGoto(k) \/ Reply(k, "internal")
    /\ UNCHANGED <<auth, abandoned>>

\* Mutant of RequestVerification: its outcome is not looked at.
RequestVerificationUnchecked(k) ==
    /\ At(k, "request_verification")
    /\ RequestEffect(calls[k].email) \/ UNCHANGED auth
    /\ Reply(k, "ok")
    /\ UNCHANGED <<tables, abandoned>>

\* request_email_verification: ok with a new code, or because the account is
\* verified or has a code; an unknown address is an error.
RequestVerification(k) ==
    LET e == calls[k].email IN
    /\ At(k, "request_verification")
    /\ \/ RequestEffect(e) /\ Reply(k, "ok")
       \/ /\ \E a \in Registered(e) : a \in verified \/ HasCode(a)
          /\ Reply(k, "ok")
          /\ UNCHANGED auth
       \/ /\ Registered(e) = {}
          /\ Reply(k, RpcError["other"])
          /\ UNCHANGED auth
    /\ UNCHANGED <<tables, abandoned>>

-----------------------------------------------------------------------------
(* lawyer, request_new_email_verifcation_code, verify_email                *)

LookupStart(k, e, op) ==
    /\ calls[k] = Idle
    /\ op \in {"lawyer", "request_new_code"}
    /\ \E pc \in {"get_user", "replied"} :
          calls' = [calls EXCEPT ![k] = [Idle EXCEPT
              !.pc = pc, !.op = op, !.email = e,
              !.result = IF pc = "replied" THEN "invalid" ELSE NULL]]
    /\ UNCHANGED <<auth, tables, abandoned>>

UserByEmail(e) == {a \in Account : users[a] # NULL /\ users[a].email = e}

NotFoundReply(k) == IF calls[k].op = "lawyer" THEN "user_not_found" ELSE "invalid_credentials"

\* Mutant of GetUser: whether there is such a user is not looked at.
GetUserUnchecked(k) ==
    /\ At(k, "get_user")
    /\ \/ calls[k].op = "lawyer" /\ Reply(k, "ok")
       \/ calls[k].op = "request_new_code" /\ Goto(k, "request_verification")
    /\ UNCHANGED <<auth, tables, abandoned>>

\* get_lawyer reads users first ...
GetUser(k) ==
    /\ At(k, "get_user")
    /\ \/ /\ UserByEmail(calls[k].email) = {}
          /\ Reply(k, NotFoundReply(k))
       \/ \E a \in UserByEmail(calls[k].email) :
             calls' = [calls EXCEPT ![k].pc = "get_lawyer", ![k].id = a, ![k].user = users[a]]
    /\ UNCHANGED <<auth, tables, abandoned>>

\* ... then lawyers, whose row must be there.
GetLawyer(k) ==
    /\ At(k, "get_lawyer")
    /\ \/ /\ lawyers[calls[k].id] = NULL
          /\ Reply(k, "internal")
       \/ /\ lawyers[calls[k].id] # NULL
          /\ \/ /\ calls[k].op = "lawyer"
                /\ calls' = [calls EXCEPT ![k].pc = "replied", ![k].result = "ok",
                       ![k].lawyer = FromDao(calls[k].user, lawyers[calls[k].id])]
             \/ calls[k].op = "request_new_code" /\ Goto(k, "request_verification")
    /\ UNCHANGED <<auth, tables, abandoned>>

VerifyStart(k, e, t) ==
    /\ calls[k] = Idle
    /\ \E pc \in {"verify", "replied"} :
          calls' = [calls EXCEPT ![k] = [Idle EXCEPT
              !.pc = pc, !.op = "verify_email", !.email = e, !.code = t,
              !.result = IF pc = "replied" THEN "invalid" ELSE NULL]]
    /\ UNCHANGED <<auth, tables, abandoned>>

VerifyEmail(k) ==
    /\ At(k, "verify")
    /\ \/ VerifyEffect(calls[k].email, calls[k].code) /\ Reply(k, "ok")
       \/ Reply(k, RpcError["other"]) /\ UNCHANGED auth
    /\ UNCHANGED <<tables, abandoned>>

-----------------------------------------------------------------------------
(* email_verified, run by the consumer of core.email.verified              *)

\* Mutant of VerifiedRows: the UPDATE without its WHERE.
AllRows(a) == {b \in Account : users[b] # NULL}

\* UPDATE users ... WHERE id = $1
VerifiedRows(a) == {b \in Account : b = a /\ users[b] # NULL}

\* No row updated is an error, and the message goes unhandled.
EmailVerified(i) ==
    /\ i \in DOMAIN outbox
    /\ outbox[i].type = "EmailVerified"
    /\ users' = [b \in Account |-> IF b \in VerifiedRows(outbox[i].user_id)
                                   THEN [users[b] EXCEPT !.status = "email_verified"]
                                   ELSE users[b]]
    /\ UNCHANGED <<auth, lawyers, firms, calls, abandoned>>

-----------------------------------------------------------------------------

Return(k) ==
    /\ At(k, "replied")
    /\ calls' = [calls EXCEPT ![k] = Idle]
    /\ UNCHANGED <<auth, tables, abandoned>>

\* A query fails, or the transaction of create_lawyer does not commit.
DatabaseError(k) ==
    /\ \E pc \in {"exists_by_oab", "create_lawyer", "get_user", "get_lawyer"} : At(k, pc)
    /\ Reply(k, "internal")
    /\ UNCHANGED <<auth, tables, abandoned>>

\* The caller disconnects, or the process stops; the RPC it waits for goes on.
Dropped(k) ==
    /\ ~At(k, "idle") /\ ~At(k, "replied")
    /\ calls' = [calls EXCEPT ![k] = Idle]
    /\ \/ UNCHANGED abandoned
       \/ /\ \E pc \in {"create_credential", "request_verification", "verify"} : At(k, pc)
          /\ Cardinality(abandoned) < MaxAbandoned
          /\ abandoned' = abandoned \cup {RpcOf(k)}
    /\ UNCHANGED <<auth, tables>>

Start(k) ==
    \/ \E e \in Address, oab \in Oab : CreateStart(k, e, oab)
    \/ \E e \in Address, op \in Op : LookupStart(k, e, op)
    \/ \E e \in Address, t \in Code : VerifyStart(k, e, t)

Step(k) ==
    \/ ExistsByOab(k) \/ CreateCredential(k) \/ CreateLawyer(k)
    \/ RequestVerification(k)
    \/ GetUser(k) \/ GetLawyer(k)
    \/ VerifyEmail(k)
    \/ Return(k)

Next ==
    \/ \E k \in Call : Start(k) \/ Step(k) \/ RpcFails(k) \/ DatabaseError(k) \/ Dropped(k)
    \/ \E r \in abandoned : LateEffect(r)
    \/ \E i \in DOMAIN outbox : EmailVerified(i)

Spec == Init /\ [][Next]_vars

-----------------------------------------------------------------------------
(* Correctness                                                             *)

TypeOK ==
    /\ address \in [Account -> Address \cup {NULL}]
    /\ issued \subseteq Account \X Code
    /\ verified \subseteq Account
    /\ users \in [Account -> User \cup {NULL}]
    /\ lawyers \in [Account -> Lawyer \cup {NULL}]
    /\ firms \subseteq Account
    /\ calls \in [Call -> CallState]
    /\ abandoned \subseteq Rpc

\* A code is issued, and so an account confirmed and announced, only when the
\* account has its user: email_verified always finds the row it updates, also
\* for a credential whose sign-up failed half way.
CodesHaveUsers ==
    /\ \A a \in Account, t \in Code : <<a, t>> \in issued => users[a] # NULL
    /\ \A i \in DOMAIN outbox :
          outbox[i].type = "EmailVerified" => users[outbox[i].user_id] # NULL

\* The two databases agree on every user: it has its lawyer and its firm, the
\* credential of the same id holds the same address, and no OAB number has two
\* lawyers, whichever sign-ups overlap or fail half way.
AccountsComplete ==
    \A a \in Account : users[a] # NULL =>
        /\ lawyers[a] # NULL /\ lawyers[a].firm_id \in firms
        /\ address[a] = users[a].email
        /\ \A b \in Account : lawyers[b] # NULL /\ lawyers[b].oab_number = lawyers[a].oab_number
              => a = b

\* A sign-up that was answered ok left an account that can be used: its user,
\* and a code to confirm it with.
CreatedIsUsable ==
    \A k \in Call : calls[k].op = "create_lawyer_account" /\ calls[k].result = "ok" =>
        /\ users[calls[k].id] # NULL
        /\ HasCode(calls[k].id)

\* What an operation answered is still true when its caller reads it, whatever
\* ran since: an OAB number or an address it called taken is taken; an address
\* it called verified is, and one it sent a code to has a user and a code; the
\* lawyer it shows is the one stored, and verified only if the stored one is.
\* In particular no failure of an RPC or of a query is told as one of these.
AnswersAreTrue ==
    \A k \in Call : LET c == calls[k] IN
        /\ c.result = "oab_exists" => OabTaken(c.oab)
        /\ c.result = "email_exists" => Registered(c.email) # {}
        /\ c.result = "ok" /\ c.op = "verify_email" => Registered(c.email) \cap verified # {}
        /\ c.result = "ok" /\ c.op = "request_new_code" =>
              \E a \in Registered(c.email) : users[a] # NULL /\ HasCode(a)
        /\ c.result = "ok" /\ c.op \in {"lawyer", "create_lawyer_account"} =>
              LET shown == GqlLawyer(c.lawyer) IN
              /\ users[c.id] # NULL /\ shown.email = users[c.id].email /\ shown.email = c.email
              /\ lawyers[c.id] # NULL /\ shown.oab_number = lawyers[c.id].oab_number
              /\ shown.status = "EMAIL_VERIFIED" => users[c.id].status = "email_verified"

\* A user counts as verified only when the auth service has confirmed it.
StatusFollowsAuth ==
    \A a \in Account : users[a] # NULL /\ users[a].status = "email_verified" => a \in verified
=============================================================================
