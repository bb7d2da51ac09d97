------------------------- MODULE CoreServiceProofs -------------------------
(* Proofs about CoreService, for any number of operations, accounts,       *)
(* addresses, codes and OAB numbers.                                       *)
EXTENDS CoreRefinement, SequenceTheorems, TLAPS

AuthMessage == [type : {"EmailVerification"}, email : Address \cup {NULL}, token : Code]
               \cup [type : {"EmailVerified"}, user_id : Account]

\* What confirmo-auth keeps true by itself.
AuthOK ==
    /\ address \in [Account -> Address \cup {NULL}]
    /\ issued \subseteq Account \X Code
    /\ verified \subseteq Account
    /\ outbox \in Seq(AuthMessage)
    /\ \A a, b \in Account : address[a] = address[b] /\ address[a] # NULL => a = b
    /\ \A a \in verified : HasCode(a)
    /\ \A i \in DOMAIN outbox : outbox[i].type = "EmailVerified" => outbox[i].user_id \in verified

\* The first part of CodesHaveUsers; the second follows from it.
IssuedHaveUsers == \A a \in Account, t \in Code : <<a, t>> \in issued => users[a] # NULL

LawyersHaveUsers == \A a \in Account : lawyers[a] # NULL => users[a] # NULL

TablesOK ==
    /\ users \in [Account -> User \cup {NULL}]
    /\ lawyers \in [Account -> Lawyer \cup {NULL}]
    /\ firms \subseteq Account
    /\ LawyersHaveUsers
    /\ AccountsComplete
    /\ StatusFollowsAuth
    /\ IssuedHaveUsers

HasUser(e) == \E a \in Account : users[a] # NULL /\ users[a].email = e

\* The row of users the operation read is the stored one, or was before it was
\* verified.
UserRead(c) ==
    /\ c.id \in Account /\ users[c.id] # NULL /\ users[c.id].email = c.email
    /\ c.user \in User /\ c.user.email = c.email
    /\ c.user.status = "email_verified" => users[c.id].status = "email_verified"

\* So is the lawyer it has to reply.
Shows(c) ==
    /\ c.id \in Account /\ users[c.id] # NULL /\ users[c.id].email = c.email
    /\ lawyers[c.id] # NULL
    /\ c.lawyer \in Profile /\ c.lawyer.email = c.email
    /\ c.lawyer.oab_number = lawyers[c.id].oab_number
    /\ c.lawyer.status = "email_verified" => users[c.id].status = "email_verified"

\* What the reply r tells the caller of operation c.
Tells(c, r) ==
    /\ r = "oab_exists" => OabTaken(c.oab)
    /\ r = "email_exists" => \E a \in Account : address[a] = c.email /\ c.email # NULL
    /\ r = "ok" /\ c.op = "verify_email" =>
          \E a \in Account : address[a] = c.email /\ c.email # NULL /\ a \in verified
    /\ r = "ok" /\ c.op = "request_new_code" =>
          \E a \in Account : /\ address[a] = c.email /\ c.email # NULL
                            /\ users[a] # NULL /\ HasCode(a)
    /\ r = "ok" /\ c.op \in {"lawyer", "create_lawyer_account"} => Shows(c)
    /\ r = "ok" /\ c.op = "create_lawyer_account" => HasCode(c.id)

\* The replies that tell nothing about what is stored.
Failure == Result \ {"ok", "oab_exists", "email_exists"}

\* What an operation has learnt by the await it stands at still holds.
Fits(c) ==
    /\ c.pc # "replied" => c.result = NULL
    /\ c.pc \in {"exists_by_oab", "create_credential", "create_lawyer"} =>
          c.op = "create_lawyer_account" /\ c.email \in Address /\ c.oab \in Oab
    /\ c.pc = "create_lawyer" => c.id \in Account /\ address[c.id] = c.email
    /\ c.pc \in {"get_user", "get_lawyer"} =>
          c.op \in {"lawyer", "request_new_code"} /\ c.email \in Address
    /\ c.pc = "get_lawyer" => UserRead(c)
    /\ c.pc = "request_verification" =>
          /\ c.email \in Address /\ HasUser(c.email)
          /\ c.op \in {"create_lawyer_account", "request_new_code"}
          /\ c.op = "create_lawyer_account" => Shows(c)
    /\ c.pc = "verify" =>
          c.op = "verify_email" /\ c.email \in Address /\ c.code \in Code
    /\ Tells(c, c.result)

CallsOK ==
    /\ calls \in [Call -> CallState]
    /\ \A k \in Call : \A c \in CallState : calls[k] = c => Fits(c)

\* A failed request for a code was made for an address that has a user.
AbandonedOK ==
    /\ abandoned \subseteq Rpc
    /\ \A r \in abandoned : r.rpc = "request_email_verification" => HasUser(r.email)

Inv == AuthOK /\ TablesOK /\ CallsOK /\ AbandonedOK

-----------------------------------------------------------------------------
(* confirmo-auth                                                           *)

\* No step of confirmo-auth takes anything back.
AuthGrows ==
    /\ \A a \in Account : address[a] # NULL => address'[a] = address[a]
    /\ issued \subseteq issued'
    /\ verified \subseteq verified'

LEMMA RegisterStep ==
    ASSUME AuthOK, NEW a \in Account, NEW e \in Address, Auth!Register(a, e)
    PROVE  /\ AuthOK' /\ AuthGrows /\ UNCHANGED <<issued, verified, outbox>>
           /\ address'[a] = e
  <1>1. /\ address[a] = NULL /\ \A b \in Account : address[b] # e
        /\ address' = [address EXCEPT ![a] = e]
        /\ issued' = issued /\ verified' = verified /\ outbox' = outbox
    BY DEF Auth!Register
  <1>2. address \in [Account -> Address \cup {NULL}]
    BY DEF AuthOK
  <1>3. /\ address' \in [Account -> Address \cup {NULL}]
        /\ address'[a] = e /\ \A b \in Account : b # a => address'[b] = address[b]
    BY <1>1, <1>2
  <1>4. \A b, c \in Account : address'[b] = address'[c] /\ address'[b] # NULL => b = c
    BY <1>1, <1>3 DEF AuthOK
  <1>5. AuthOK'
    BY <1>1, <1>3, <1>4 DEF AuthOK, HasCode
  <1>6. AuthGrows
    BY <1>1, <1>3 DEF AuthGrows
  <1> QED
    BY <1>1, <1>3, <1>5, <1>6

LEMMA IssueStep ==
    ASSUME AuthOK, NEW a \in Account, NEW t \in Code, Auth!Issue(a, t)
    PROVE  /\ AuthOK' /\ AuthGrows /\ UNCHANGED <<address, verified>>
           /\ issued' = issued \cup {<<a, t>>}
  <1> PICK m : m = [type |-> "EmailVerification", email |-> address[a], token |-> t]
    OBVIOUS
  <1>1. /\ issued' = issued \cup {<<a, t>>}
        /\ outbox' = Append(outbox, m)
        /\ address' = address /\ verified' = verified
    BY DEF Auth!Issue
  <1>2. /\ outbox \in Seq(AuthMessage) /\ m \in AuthMessage /\ m.type = "EmailVerification"
    BY DEF AuthOK, AuthMessage
  <1>3. /\ outbox' \in Seq(AuthMessage) /\ DOMAIN outbox' = 1..(Len(outbox) + 1)
        /\ Len(outbox) \in Nat /\ DOMAIN outbox = 1..Len(outbox)
        /\ \A i \in DOMAIN outbox : outbox'[i] = outbox[i]
        /\ outbox'[Len(outbox) + 1] = m
    BY <1>1, <1>2, AppendProperties, LenProperties
  <1>4. \A i \in DOMAIN outbox' :
            outbox'[i].type = "EmailVerified" => outbox'[i].user_id \in verified'
    BY <1>1, <1>2, <1>3 DEF AuthOK
  <1>5. \A b \in verified' : HasCode(b)'
    BY <1>1 DEF AuthOK, HasCode
  <1>6. issued' \subseteq Account \X Code
    BY <1>1 DEF AuthOK
  <1>7. AuthOK'
    BY <1>1, <1>3, <1>4, <1>5, <1>6 DEF AuthOK, HasCode
  <1> QED
    BY <1>1, <1>7 DEF AuthGrows

LEMMA ConfirmStep ==
    ASSUME AuthOK, NEW a \in Account, NEW t \in Code, Auth!Confirm(a, t)
    PROVE  /\ AuthOK' /\ AuthGrows /\ UNCHANGED <<address, issued>>
  <1> PICK m : m = [type |-> "EmailVerified", user_id |-> a]
    OBVIOUS
  <1>1. /\ <<a, t>> \in issued
        /\ verified' = verified \cup {a}
        /\ outbox' = Append(outbox, m)
        /\ address' = address /\ issued' = issued
    BY DEF Auth!Confirm
  <1>2. /\ outbox \in Seq(AuthMessage) /\ m \in AuthMessage /\ m.user_id = a
    BY DEF AuthOK, AuthMessage
  <1>3. /\ outbox' \in Seq(AuthMessage) /\ DOMAIN outbox' = 1..(Len(outbox) + 1)
        /\ Len(outbox) \in Nat /\ DOMAIN outbox = 1..Len(outbox)
        /\ \A i \in DOMAIN outbox : outbox'[i] = outbox[i]
        /\ outbox'[Len(outbox) + 1] = m
    BY <1>1, <1>2, AppendProperties, LenProperties
  <1>4. \A i \in DOMAIN outbox' :
            outbox'[i].type = "EmailVerified" => outbox'[i].user_id \in verified'
    BY <1>1, <1>2, <1>3 DEF AuthOK
  <1>5. \A b \in verified' : HasCode(b)'
    BY <1>1 DEF AuthOK, HasCode
  <1>6. AuthOK'
    BY <1>1, <1>3, <1>4, <1>5 DEF AuthOK
  <1> QED
    BY <1>1, <1>6 DEF AuthGrows

\* A step of confirmo-auth keeps what the tables rely on, if a code that it
\* issues is of an account with its user.
LEMMA AuthKeepsTables ==
    ASSUME Inv, AuthGrows, UNCHANGED tables,
           \A a \in Account, t \in Code : <<a, t>> \in issued' => <<a, t>> \in issued \/ users[a] # NULL
    PROVE  TablesOK'
  <1>1. UNCHANGED <<users, lawyers, firms>>
    BY DEF tables
  <1>2. \A a \in Account : users[a] # NULL => users[a].email # NULL
    BY NullAssumption DEF Inv, TablesOK, User
  <1>3. AccountsComplete'
    BY <1>1, <1>2 DEF Inv, TablesOK, AccountsComplete, AuthGrows
  <1>4. StatusFollowsAuth' /\ IssuedHaveUsers'
    BY <1>1 DEF Inv, TablesOK, StatusFollowsAuth, IssuedHaveUsers, AuthGrows
  <1>5. LawyersHaveUsers'
    BY <1>1 DEF Inv, TablesOK, LawyersHaveUsers
  <1> QED
    BY <1>1, <1>3, <1>4, <1>5 DEF Inv, TablesOK

\* The registered account of an address with a user is that user.
LEMMA RegisteredUser ==
    ASSUME Inv, NEW e \in Address, NEW a \in Registered(e), NEW b \in Account,
           users[b] # NULL, users[b].email = e
    PROVE  a = b
  BY NullAssumption DEF Inv, AuthOK, TablesOK, AccountsComplete, Registered

LEMMA RequestEffectStep ==
    ASSUME Inv, NEW e \in Address, HasUser(e), RequestEffect(e), UNCHANGED tables
    PROVE  /\ AuthOK' /\ AuthGrows /\ TablesOK'
           /\ \E a \in Registered(e) : HasCode(a)'
  <1>1. PICK a \in Registered(e), t \in Code : Auth!Issue(a, t)
    BY DEF RequestEffect
  <1>2. a \in Account /\ users[a] # NULL
    BY RegisteredUser DEF HasUser, Registered
  <1>3. AuthOK' /\ AuthGrows /\ issued' = issued \cup {<<a, t>>}
    BY <1>1, <1>2, IssueStep DEF Inv
  <1>4. TablesOK'
    BY <1>2, <1>3, AuthKeepsTables
  <1> QED
    BY <1>3, <1>4 DEF HasCode

LEMMA VerifyEffectStep ==
    ASSUME Inv, NEW e \in Address, NEW t \in Code, VerifyEffect(e, t), UNCHANGED tables
    PROVE  /\ AuthOK' /\ AuthGrows /\ TablesOK'
           /\ \E a \in Account : address'[a] = e /\ a \in verified'
  <1>1. PICK a \in Account : address[a] = e /\ Auth!Confirm(a, t)
    BY DEF VerifyEffect, Registered
  <1>2. AuthOK' /\ AuthGrows /\ issued' = issued
    BY <1>1, ConfirmStep DEF Inv
  <1>3. address'[a] = e /\ a \in verified'
    BY <1>1 DEF Auth!Confirm
  <1> QED
    BY <1>2, <1>3, AuthKeepsTables

LEMMA CreateEffectStep ==
    ASSUME Inv, NEW e \in Address, NEW a \in Account, CreateCredentialEffect(e, a), UNCHANGED tables
    PROVE  AuthOK' /\ AuthGrows /\ TablesOK' /\ address'[a] = e
  <1>1. AuthOK' /\ AuthGrows /\ issued' = issued /\ address'[a] = e
    BY RegisterStep DEF Inv, CreateCredentialEffect
  <1> QED
    BY <1>1, AuthKeepsTables

LEMMA AuthUnchanged ==
    ASSUME Inv, UNCHANGED auth, UNCHANGED tables
    PROVE  AuthOK' /\ AuthGrows /\ TablesOK'
  <1>1. AuthOK' /\ AuthGrows
    BY DEF Inv, AuthOK, AuthGrows, auth, HasCode
  <1> QED
    BY <1>1, AuthKeepsTables DEF auth

-----------------------------------------------------------------------------
(* The operations in flight                                                *)

\* No user is removed, changes its address or stops being verified, and no
\* lawyer changes.
UsersGrow ==
    /\ \A a \in Account : users[a] # NULL =>
          /\ users'[a] # NULL /\ users'[a].email = users[a].email
          /\ users[a].status = "email_verified" => users'[a].status = "email_verified"
    /\ \A a \in Account : lawyers[a] # NULL => lawyers'[a] = lawyers[a]

Grows == AuthGrows /\ UsersGrow

LEMMA SameUsers ==
    ASSUME UNCHANGED tables
    PROVE  UsersGrow
  BY DEF tables, UsersGrow

LEMMA ShowsKept ==
    ASSUME UsersGrow, NEW c \in CallState
    PROVE  /\ UserRead(c) => UserRead(c)'
           /\ Shows(c) => Shows(c)'
  <1>1. UserRead(c) => UserRead(c)'
    BY DEF UsersGrow, UserRead
  <1>2. Shows(c) => Shows(c)'
    BY DEF UsersGrow, Shows
  <1> QED
    BY <1>1, <1>2

LEMMA TellsKept ==
    ASSUME Inv, Grows, NEW c \in CallState, NEW r, Tells(c, r)
    PROVE  Tells(c, r)'
  <1>1. OabTaken(c.oab) => OabTaken(c.oab)'
    BY DEF OabTaken, Grows, UsersGrow
  <1>2. \A a \in Account : HasCode(a) => HasCode(a)'
    BY DEF HasCode, Grows, AuthGrows
  <1>3. Shows(c) => Shows(c)'
    BY ShowsKept DEF Grows
  <1>4. \A a \in Account : address[a] = c.email /\ c.email # NULL => address'[a] = c.email
    BY DEF Grows, AuthGrows
  <1>5. \A a \in Account : users[a] # NULL => users'[a] # NULL
    BY DEF Grows, UsersGrow
  <1>6. \A a \in Account : a \in verified => a \in verified'
    BY DEF Grows, AuthGrows
  <1>7. Shows(c) => c.id \in Account
    BY DEF Shows
  <1> QED
    BY <1>1, <1>2, <1>3, <1>4, <1>5, <1>6, <1>7 DEF Tells

LEMMA FitsKept ==
    ASSUME Inv, Grows, NEW c \in CallState, Fits(c)
    PROVE  Fits(c)'
  <1>1. c.pc = "create_lawyer" => c.id \in Account /\ address'[c.id] = c.email
    BY NullAssumption DEF Fits, Grows, AuthGrows
  <1>2. ASSUME HasUser(c.email) PROVE HasUser(c.email)'
    BY <1>2 DEF HasUser, Grows, UsersGrow
  <1>3. (UserRead(c) => UserRead(c)') /\ (Shows(c) => Shows(c)')
    BY ShowsKept DEF Grows
  <1>4. Tells(c, c.result)'
    BY TellsKept DEF Fits
  <1> QED
    BY <1>1, <1>2, <1>3, <1>4 DEF Fits

\* The other operations are not disturbed by a step of operation k.
LEMMA CallStep ==
    ASSUME Inv, Grows, NEW k \in Call, NEW c \in CallState,
           calls' = [calls EXCEPT ![k] = c], Fits(c)'
    PROVE  CallsOK'
  <1>1. calls \in [Call -> CallState]
    BY DEF Inv, CallsOK
  <1>2. calls' \in [Call -> CallState]
    BY <1>1
  <1>3. ASSUME NEW j \in Call, NEW d \in CallState, calls'[j] = d PROVE Fits(d)'
    <2>1. CASE j = k
      BY <1>1, <1>3, <2>1
    <2>2. CASE j # k
      <3>1. calls[j] = d
        BY <1>1, <1>3, <2>2
      <3>2. Fits(d)
        BY <3>1 DEF Inv, CallsOK
      <3> QED
        BY <3>2, FitsKept
    <2> QED
      BY <2>1, <2>2
  <1> QED
    BY <1>2, <1>3 DEF CallsOK

\* The state of an operation, as a constant.
LEMMA OneCall ==
    ASSUME Inv, NEW k \in Call
    PROVE  \E c \in CallState : calls[k] = c /\ Fits(c)
  BY DEF Inv, CallsOK

LEMMA IdleFits == Idle \in CallState /\ Fits(Idle)'
  <1> PICK c : c = Idle
    OBVIOUS
  <1>1. c \in CallState
    BY DEF Idle, CallState, Pc
  <1>2. /\ c.pc = "idle" /\ c.op = NULL /\ c.result = NULL
    BY DEF Idle
  <1>4. Fits(c)'
    BY <1>2, NullAssumption DEF Fits, Tells, Op, Result
  <1> QED
    BY <1>1, <1>4

LEMMA ReturnStep ==
    ASSUME Inv, Grows, NEW k \in Call, calls' = [calls EXCEPT ![k] = Idle]
    PROVE  CallsOK'
  BY IdleFits, CallStep

LEMMA ReplyStep ==
    ASSUME Inv, Grows, NEW k \in Call, NEW r \in Result, Reply(k, r),
           NEW c \in CallState, calls[k] = c, Tells(c, r)'
    PROVE  CallsOK'
  <1> PICK d : d = [c EXCEPT !.pc = "replied", !.result = r]
    OBVIOUS
  <1>1. calls \in [Call -> CallState]
    BY DEF Inv, CallsOK
  <1>2. calls' = [calls EXCEPT ![k] = d]
    BY <1>1 DEF Reply
  <1>3. d \in CallState
    BY DEF CallState, Pc
  <1>4. /\ d.pc = "replied" /\ d.result = r /\ d.op = c.op /\ d.id = c.id
        /\ d.email = c.email /\ d.oab = c.oab /\ d.lawyer = c.lawyer
    BY DEF CallState
  <1>5. Tells(d, d.result)'
    BY <1>4 DEF Tells, Shows
  <1>6. Fits(d)'
    BY <1>4, <1>5 DEF Fits
  <1> QED
    BY <1>2, <1>3, <1>6, CallStep

LEMMA FailureStep ==
    ASSUME Inv, Grows, NEW k \in Call, NEW r \in Failure, Reply(k, r)
    PROVE  CallsOK'
  <1> PICK c \in CallState : calls[k] = c /\ Fits(c)
    BY OneCall
  <1>1. r \in Result /\ Tells(c, r)'
    BY DEF Failure, Tells
  <1> QED
    BY <1>1, ReplyStep

LEMMA AbandonedKept ==
    ASSUME Inv, UsersGrow, abandoned' \subseteq abandoned
    PROVE  AbandonedOK'
  <1>1. \A r \in Rpc : HasUser(r.email) => HasUser(r.email)'
    BY DEF HasUser, UsersGrow
  <1> QED
    BY <1>1 DEF Inv, AbandonedOK

\* A step of an operation that only reads: what is left to show is its own state.
LEMMA Quiet ==
    ASSUME Inv, UNCHANGED <<auth, tables, abandoned>>
    PROVE  AuthOK' /\ TablesOK' /\ AbandonedOK' /\ Grows
  BY AuthUnchanged, SameUsers, AbandonedKept DEF Grows

LEMMA StartInv ==
    ASSUME Inv, NEW k \in Call, NEW c \in CallState, UNCHANGED <<auth, tables, abandoned>>,
           calls' = [calls EXCEPT ![k] = c],
           \/ c.pc = "replied" /\ c.result = "invalid"
           \/ /\ c.result = NULL
              /\ \/ c.pc = "exists_by_oab" /\ c.op = "create_lawyer_account"
                    /\ c.email \in Address /\ c.oab \in Oab
                 \/ c.pc = "get_user" /\ c.op \in {"lawyer", "request_new_code"}
                    /\ c.email \in Address
                 \/ c.pc = "verify" /\ c.op = "verify_email"
                    /\ c.email \in Address /\ c.code \in Code
    PROVE  Inv'
  <1>1. Tells(c, c.result)'
    BY NullAssumption DEF Tells, Result
  <1>2. Fits(c)'
    BY <1>1 DEF Fits
  <1>3. CallsOK'
    BY <1>2, Quiet, CallStep
  <1> QED
    BY <1>3, Quiet DEF Inv

LEMMA CreateStartInv ==
    ASSUME Inv, NEW k \in Call, NEW e \in Address, NEW oab \in Oab, CreateStart(k, e, oab)
    PROVE  Inv'
  <1>1. PICK pc \in {"exists_by_oab", "replied"} :
          calls' = [calls EXCEPT ![k] = [Idle EXCEPT
              !.pc = pc, !.op = "create_lawyer_account", !.email = e, !.oab = oab,
              !.result = IF pc = "replied" THEN "invalid" ELSE NULL]]
    BY DEF CreateStart
  <1> PICK c : c = [Idle EXCEPT
              !.pc = pc, !.op = "create_lawyer_account", !.email = e, !.oab = oab,
              !.result = IF pc = "replied" THEN "invalid" ELSE NULL]
    OBVIOUS
  <1>2. c \in CallState /\ c.pc = pc /\ c.op = "create_lawyer_account" /\ c.email = e /\ c.oab = oab
        /\ c.result = IF pc = "replied" THEN "invalid" ELSE NULL
    BY DEF Idle, CallState, Pc, Op, Result
  <1>3. c.pc = "replied" \/ c.pc = "exists_by_oab"
    BY <1>2 DEF CreateStart
  <1>4. UNCHANGED <<auth, tables, abandoned>> /\ calls' = [calls EXCEPT ![k] = c]
    BY <1>1 DEF CreateStart
  <1> QED
    BY <1>2, <1>3, <1>4, StartInv

LEMMA LookupStartInv ==
    ASSUME Inv, NEW k \in Call, NEW e \in Address, NEW op \in Op, LookupStart(k, e, op)
    PROVE  Inv'
  <1>1. PICK pc \in {"get_user", "replied"} :
          calls' = [calls EXCEPT ![k] = [Idle EXCEPT
              !.pc = pc, !.op = op, !.email = e,
              !.result = IF pc = "replied" THEN "invalid" ELSE NULL]]
    BY DEF LookupStart
  <1> PICK c : c = [Idle EXCEPT
              !.pc = pc, !.op = op, !.email = e,
              !.result = IF pc = "replied" THEN "invalid" ELSE NULL]
    OBVIOUS
  <1>2. c \in CallState /\ c.pc = pc /\ c.op = op /\ c.email = e
        /\ c.result = IF pc = "replied" THEN "invalid" ELSE NULL
    BY DEF Idle, CallState, Pc, Op, Result
  <1>3. c.pc = "replied" \/ (c.pc = "get_user" /\ c.op \in {"lawyer", "request_new_code"})
    BY <1>2 DEF LookupStart
  <1>4. UNCHANGED <<auth, tables, abandoned>> /\ calls' = [calls EXCEPT ![k] = c]
    BY <1>1 DEF LookupStart
  <1> QED
    BY <1>2, <1>3, <1>4, StartInv

LEMMA VerifyStartInv ==
    ASSUME Inv, NEW k \in Call, NEW e \in Address, NEW t \in Code, VerifyStart(k, e, t)
    PROVE  Inv'
  <1>1. PICK pc \in {"verify", "replied"} :
          calls' = [calls EXCEPT ![k] = [Idle EXCEPT
              !.pc = pc, !.op = "verify_email", !.email = e, !.code = t,
              !.result = IF pc = "replied" THEN "invalid" ELSE NULL]]
    BY DEF VerifyStart
  <1> PICK c : c = [Idle EXCEPT
              !.pc = pc, !.op = "verify_email", !.email = e, !.code = t,
              !.result = IF pc = "replied" THEN "invalid" ELSE NULL]
    OBVIOUS
  <1>2. c \in CallState /\ c.pc = pc /\ c.op = "verify_email" /\ c.email = e /\ c.code = t
        /\ c.result = IF pc = "replied" THEN "invalid" ELSE NULL
    BY DEF Idle, CallState, Pc, Op, Result
  <1>3. c.pc = "replied" \/ c.pc = "verify"
    BY <1>2 DEF VerifyStart
  <1>4. UNCHANGED <<auth, tables, abandoned>> /\ calls' = [calls EXCEPT ![k] = c]
    BY <1>1 DEF VerifyStart
  <1> QED
    BY <1>2, <1>3, <1>4, StartInv

\* A reply that only tells what was read.
LEMMA QuietReply ==
    ASSUME Inv, NEW k \in Call, NEW r \in Result, Reply(k, r), UNCHANGED <<auth, tables, abandoned>>,
           NEW c \in CallState, calls[k] = c, Tells(c, r)
    PROVE  Inv'
  <1>1. Tells(c, r)'
    BY Quiet, TellsKept
  <1> QED
    BY <1>1, Quiet, ReplyStep DEF Inv

LEMMA QuietFailure ==
    ASSUME Inv, NEW k \in Call, NEW r \in Failure, Reply(k, r), UNCHANGED <<auth, tables, abandoned>>
    PROVE  Inv'
  BY Quiet, FailureStep DEF Inv

\* A step to another await, with what the operation has learnt by then.
LEMMA QuietGoto ==
    ASSUME Inv, NEW k \in Call, NEW c \in CallState, NEW d \in CallState,
           UNCHANGED <<auth, tables, abandoned>>,
           calls[k] = c, calls' = [calls EXCEPT ![k] = d], Fits(d)
    PROVE  Inv'
  BY Quiet, FitsKept, CallStep DEF Inv

LEMMA ExistsByOabInv ==
    ASSUME Inv, NEW k \in Call, ExistsByOab(k)
    PROVE  Inv'
  <1>1. CASE OabTaken(calls[k].oab) /\ Reply(k, "oab_exists")
    <2> PICK c \in CallState : calls[k] = c /\ Fits(c)
      BY OneCall
    <2>1. Tells(c, "oab_exists") /\ "oab_exists" \in Result
      BY <1>1 DEF Tells, Result
    <2> QED
      BY <1>1, <2>1, QuietReply DEF ExistsByOab
  <1>2. CASE Goto(k, "create_credential")
    <2> PICK c \in CallState : calls[k] = c /\ Fits(c)
      BY OneCall
    <2> PICK d : d = [c EXCEPT !.pc = "create_credential"]
      OBVIOUS
    <2>1. d \in CallState /\ d.pc = "create_credential" /\ d.op = c.op /\ d.email = c.email
          /\ d.oab = c.oab /\ d.result = c.result
      BY DEF CallState, Pc
    <2>2. c.pc = "exists_by_oab"
      BY DEF ExistsByOab, At
    <2>3. Fits(d)
      <3>1. d.result = NULL
        BY <2>1, <2>2 DEF Fits
      <3>2. Tells(d, d.result)
        BY <3>1, NullAssumption DEF Tells, Result
      <3> QED
        BY <2>1, <2>2, <3>1, <3>2 DEF Fits
    <2>4. calls' = [calls EXCEPT ![k] = d]
      BY <1>2 DEF Goto, Inv, CallsOK
    <2> QED
      BY <2>1, <2>3, <2>4, QuietGoto DEF ExistsByOab
  <1> QED
    BY <1>1, <1>2 DEF ExistsByOab

LEMMA GetUserInv ==
    ASSUME Inv, NEW k \in Call, GetUser(k)
    PROVE  Inv'
  <1> PICK c \in CallState : calls[k] = c /\ Fits(c)
    BY OneCall
  <1>1. c.pc = "get_user" /\ c.email \in Address /\ c.op \in {"lawyer", "request_new_code"}
        /\ c.result = NULL
    BY DEF GetUser, At, Fits
  <1>2. CASE Reply(k, NotFoundReply(k))
    <2>1. NotFoundReply(k) \in Failure
      BY DEF NotFoundReply, Failure, Result
    <2> QED
      BY <1>2, <2>1, QuietFailure DEF GetUser
  <1>3. ASSUME NEW a \in UserByEmail(c.email),
               calls' = [calls EXCEPT ![k].pc = "get_lawyer", ![k].id = a, ![k].user = users[a]]
        PROVE  Inv'
    <2>1. a \in Account /\ users[a] # NULL /\ users[a].email = c.email
      BY DEF UserByEmail
    <2>2. PICK u \in User : users[a] = u
      BY <2>1 DEF Inv, TablesOK
    <2> PICK d : d = [c EXCEPT !.pc = "get_lawyer", !.id = a, !.user = u]
      OBVIOUS
    <2>3. d \in CallState /\ d.pc = "get_lawyer" /\ d.op = c.op /\ d.email = c.email /\ d.id = a
          /\ d.result = NULL /\ d.user = u
      <3>1. "get_lawyer" \in Pc
        BY DEF Pc
      <3>2. d \in CallState
        BY <2>1, <3>1 DEF CallState
      <3>3. d.pc = "get_lawyer" /\ d.op = c.op /\ d.email = c.email /\ d.id = a
            /\ d.result = c.result /\ d.user = u
        BY DEF CallState
      <3> QED
        BY <1>1, <3>2, <3>3
    <2>4. UserRead(d) /\ Tells(d, d.result)
      BY <2>1, <2>2, <2>3, NullAssumption DEF UserRead, Tells, Result
    <2>5. Fits(d)
      BY <1>1, <2>3, <2>4 DEF Fits
    <2>6. calls' = [calls EXCEPT ![k] = d]
      BY <1>3, <2>2 DEF Inv, CallsOK
    <2> QED
      BY <2>3, <2>5, <2>6, QuietGoto DEF GetUser
  <1> QED
    BY <1>2, <1>3 DEF GetUser

\* The profile of a user row that was read and of the row of lawyers.
LEMMA ProfileOf ==
    ASSUME Inv, NEW u \in User, NEW l \in Lawyer
    PROVE  /\ FromDao(u, l) \in Profile
           /\ FromDao(u, l).email = u.email /\ FromDao(u, l).status = u.status
           /\ FromDao(u, l).oab_number = l.oab_number
  BY DEF FromDao, Profile, User, Lawyer

LEMMA GetLawyerInv ==
    ASSUME Inv, NEW k \in Call, GetLawyer(k)
    PROVE  Inv'
  <1> PICK c \in CallState : calls[k] = c /\ Fits(c)
    BY OneCall
  <1>1. c.pc = "get_lawyer" /\ c.email \in Address /\ c.op \in {"lawyer", "request_new_code"}
        /\ c.result = NULL /\ UserRead(c)
    BY DEF GetLawyer, At, Fits
  <1>2. CASE Reply(k, "internal")
    BY <1>2, QuietFailure DEF GetLawyer, Failure, Result
  <1>3. CASE lawyers[c.id] # NULL /\ c.op = "lawyer"
             /\ calls' = [calls EXCEPT ![k].pc = "replied", ![k].result = "ok",
                              ![k].lawyer = FromDao(calls[k].user, lawyers[calls[k].id])]
    <2>1. PICK l \in Lawyer : lawyers[c.id] = l
      BY <1>1, <1>3 DEF UserRead, Inv, TablesOK
    <2> PICK p : p = FromDao(c.user, l)
      OBVIOUS
    <2>2. p \in Profile /\ p.email = c.user.email /\ p.status = c.user.status
          /\ p.oab_number = l.oab_number
      BY <1>1, ProfileOf DEF UserRead
    <2> PICK d : d = [c EXCEPT !.pc = "replied", !.result = "ok", !.lawyer = p]
      OBVIOUS
    <2>3. "replied" \in Pc /\ "ok" \in Result
      BY DEF Pc, Result
    <2>4. d \in CallState /\ d.pc = "replied" /\ d.op = "lawyer" /\ d.email = c.email
          /\ d.id = c.id /\ d.result = "ok" /\ d.lawyer = p
      <3>1. d \in CallState
        BY <2>2, <2>3 DEF CallState
      <3>2. d.pc = "replied" /\ d.op = c.op /\ d.email = c.email
            /\ d.id = c.id /\ d.result = "ok" /\ d.lawyer = p
        BY DEF CallState
      <3> QED
        BY <1>3, <3>1, <3>2
    <2>5. Shows(d)
      BY <1>1, <1>3, <2>1, <2>2, <2>4 DEF Shows, UserRead
    <2>6. Tells(d, d.result)
      BY <2>4, <2>5 DEF Tells
    <2>7. Fits(d)
      BY <2>4, <2>6 DEF Fits
    <2>8. calls' = [calls EXCEPT ![k] = d]
      BY <1>3, <2>1 DEF Inv, CallsOK
    <2> QED
      BY <2>4, <2>7, <2>8, QuietGoto DEF GetLawyer
  <1>4. CASE c.op = "request_new_code" /\ Goto(k, "request_verification")
    <2> PICK d : d = [c EXCEPT !.pc = "request_verification"]
      OBVIOUS
    <2>1. d \in CallState /\ d.pc = "request_verification" /\ d.op = c.op /\ d.email = c.email
          /\ d.id = c.id /\ d.result = NULL
      BY <1>1 DEF CallState, Pc
    <2>2. HasUser(d.email) /\ Tells(d, d.result)
      BY <1>1, <2>1, NullAssumption DEF UserRead, HasUser, Tells, Result
    <2>3. Fits(d)
      BY <1>1, <1>4, <2>1, <2>2 DEF Fits
    <2>4. calls' = [calls EXCEPT ![k] = d]
      BY <1>4 DEF Goto, Inv, CallsOK
    <2> QED
      BY <2>1, <2>3, <2>4, QuietGoto DEF GetLawyer
  <1> QED
    BY <1>2, <1>3, <1>4 DEF GetLawyer

\* A failed RPC is told as a failure.
LEMMA OtherFails == RpcError["other"] \in Failure /\ RpcError["unavailable"] \in Failure
  BY DEF RpcError, Failure, Result

LEMMA CreateCredentialInv ==
    ASSUME Inv, NEW k \in Call, CreateCredential(k)
    PROVE  Inv'
  <1> PICK c \in CallState : calls[k] = c /\ Fits(c)
    BY OneCall
  <1>1. c.pc = "create_credential" /\ c.op = "create_lawyer_account" /\ c.result = NULL
        /\ c.email \in Address /\ c.oab \in Oab
    BY DEF CreateCredential, At, Fits
  <1>2. UNCHANGED tables /\ UNCHANGED abandoned
    BY DEF CreateCredential
  <1>3. CASE Registered(c.email) # {} /\ Reply(k, RpcError["already_exists"]) /\ UNCHANGED auth
    <2>1. RpcError["already_exists"] = "email_exists"
      BY DEF RpcError
    <2>2. Tells(c, "email_exists") /\ "email_exists" \in Result
      BY <1>1, <1>3, NullAssumption DEF Tells, Registered, Result
    <2> QED
      BY <1>2, <1>3, <2>1, <2>2, QuietReply
  <1>4. ASSUME NEW a \in Account, CreateCredentialEffect(c.email, a),
               calls' = [calls EXCEPT ![k].pc = "create_lawyer", ![k].id = a]
        PROVE  Inv'
    <2> PICK d : d = [c EXCEPT !.pc = "create_lawyer", !.id = a]
      OBVIOUS
    <2>1. d \in CallState /\ d.pc = "create_lawyer" /\ d.op = c.op /\ d.email = c.email
          /\ d.oab = c.oab /\ d.id = a /\ d.result = c.result
      BY DEF CallState, Pc
    <2>2. AuthOK' /\ AuthGrows /\ TablesOK' /\ address'[a] = c.email
      BY <1>1, <1>2, <1>4, CreateEffectStep
    <2>3. Grows
      BY <1>2, <2>2, SameUsers DEF Grows
    <2>4. Fits(d)'
      <3>1. d.result = NULL
        BY <1>1, <2>1
      <3>2. Tells(d, d.result)'
        BY <3>1, NullAssumption DEF Tells, Result
      <3> QED
        BY <1>1, <2>1, <2>2, <3>1, <3>2 DEF Fits
    <2>5. calls' = [calls EXCEPT ![k] = d]
      BY <1>4 DEF Inv, CallsOK
    <2>6. CallsOK'
      BY <2>1, <2>3, <2>4, <2>5, CallStep
    <2> QED
      BY <1>2, <2>2, <2>3, <2>6, AbandonedKept DEF Inv, Grows
  <1> QED
    BY <1>3, <1>4 DEF CreateCredential

\* The three rows appear together, under the id and the address of the
\* credential, and under an OAB number nobody else has.
LEMMA CreateLawyerTables ==
    ASSUME Inv, NEW a \in Account, NEW e \in Address, NEW oab \in Oab, address[a] = e,
           users[a] = NULL, ~OabTaken(oab), UNCHANGED auth,
           firms' = firms \cup {a},
           users' = [users EXCEPT ![a] = [email |-> e, status |-> "pending_email_verification"]],
           lawyers' = [lawyers EXCEPT ![a] = [oab_number |-> oab, firm_id |-> a]]
    PROVE  /\ TablesOK' /\ UsersGrow /\ AuthOK' /\ AuthGrows
           /\ users'[a] # NULL /\ users'[a].email = e
           /\ lawyers'[a] # NULL /\ lawyers'[a].oab_number = oab
  <1> PICK u, l : /\ u = [email |-> e, status |-> "pending_email_verification"]
                  /\ l = [oab_number |-> oab, firm_id |-> a]
    OBVIOUS
  <1>1. u \in User /\ l \in Lawyer /\ u # NULL /\ l # NULL /\ u.email = e
        /\ u.status = "pending_email_verification" /\ l.firm_id = a /\ l.oab_number = oab
    BY NullAssumption DEF User, Status, Lawyer
  <1>2. /\ users \in [Account -> User \cup {NULL}] /\ lawyers \in [Account -> Lawyer \cup {NULL}]
        /\ firms \subseteq Account
    BY DEF Inv, TablesOK
  <1>3. /\ users'[a] = u /\ lawyers'[a] = l
        /\ \A b \in Account : b # a => users'[b] = users[b] /\ lawyers'[b] = lawyers[b]
        /\ users' \in [Account -> User \cup {NULL}] /\ lawyers' \in [Account -> Lawyer \cup {NULL}]
    BY <1>1, <1>2
  <1>4. /\ UNCHANGED <<address, issued, verified, outbox>>
    BY DEF auth
  <1>5. AccountsComplete'
    <2> SUFFICES ASSUME NEW b \in Account, users'[b] # NULL
                 PROVE  /\ lawyers'[b] # NULL /\ lawyers'[b].firm_id \in firms'
                        /\ address[b] = users'[b].email
                        /\ \A x \in Account :
                              lawyers'[x] # NULL /\ lawyers'[x].oab_number = lawyers'[b].oab_number
                              => b = x
      BY <1>4 DEF AccountsComplete
    <2>1. CASE b = a
      BY <1>1, <1>3, <2>1 DEF OabTaken
    <2>2. CASE b # a
      <3>1. users[b] # NULL
        BY <1>3, <2>2
      <3>2. /\ lawyers[b] # NULL /\ lawyers[b].firm_id \in firms
            /\ address[b] = users[b].email
            /\ \A x \in Account :
                  lawyers[x] # NULL /\ lawyers[x].oab_number = lawyers[b].oab_number => b = x
        BY <3>1 DEF Inv, TablesOK, AccountsComplete
      <3>3. lawyers[b].oab_number # oab
        BY <3>2 DEF OabTaken
      <3> QED
        BY <1>1, <1>3, <2>2, <3>2, <3>3
    <2> QED
      BY <2>1, <2>2
  <1>6. StatusFollowsAuth'
    BY <1>1, <1>3, <1>4 DEF Inv, TablesOK, StatusFollowsAuth
  <1>7. IssuedHaveUsers'
    BY <1>1, <1>3, <1>4 DEF Inv, TablesOK, IssuedHaveUsers
  <1>8. lawyers[a] = NULL
    BY DEF Inv, TablesOK, LawyersHaveUsers
  <1>9. UsersGrow
    BY <1>3, <1>8 DEF UsersGrow
  <1>10. AuthOK' /\ AuthGrows
    BY <1>4 DEF Inv, AuthOK, AuthGrows, HasCode
  <1>11. LawyersHaveUsers'
    BY <1>1, <1>3 DEF Inv, TablesOK, LawyersHaveUsers
  <1> QED
    BY <1>1, <1>2, <1>3, <1>5, <1>6, <1>7, <1>9, <1>10, <1>11 DEF TablesOK

LEMMA CreateLawyerInv ==
    ASSUME Inv, NEW k \in Call, CreateLawyer(k)
    PROVE  Inv'
  <1> PICK c \in CallState : calls[k] = c /\ Fits(c)
    BY OneCall
  <1>1. c.pc = "create_lawyer" /\ c.op = "create_lawyer_account" /\ c.result = NULL
        /\ c.email \in Address /\ c.oab \in Oab /\ c.id \in Account /\ address[c.id] = c.email
    BY DEF CreateLawyer, At, Fits
  <1>2. UNCHANGED auth /\ UNCHANGED abandoned /\ "internal" \in Failure
    BY DEF CreateLawyer, Failure, Result
  <1>3. CASE Reply(k, "internal") /\ UNCHANGED tables
    BY <1>2, <1>3, QuietFailure
  <1>4. ASSUME ~Conflict(k),
               firms' = firms \cup {c.id},
               users' = [users EXCEPT ![c.id] = NewUser(k)],
               lawyers' = [lawyers EXCEPT ![c.id] = NewLawyer(k)],
               CreatedGoto(k) \/ Reply(k, "internal")
        PROVE  Inv'
    <2>1. users[c.id] = NULL /\ ~OabTaken(c.oab)
      BY <1>4 DEF Conflict
    <2>2. /\ NewUser(k) = [email |-> c.email, status |-> "pending_email_verification"]
          /\ NewLawyer(k) = [oab_number |-> c.oab, firm_id |-> c.id]
      BY DEF NewUser, NewLawyer
    <2>3. /\ TablesOK' /\ UsersGrow /\ AuthOK' /\ AuthGrows
          /\ users'[c.id] # NULL /\ users'[c.id].email = c.email
          /\ lawyers'[c.id] # NULL /\ lawyers'[c.id].oab_number = c.oab
      BY <1>1, <1>2, <1>4, <2>1, <2>2, CreateLawyerTables
    <2>4. Grows /\ AbandonedOK'
      BY <1>2, <2>3, AbandonedKept DEF Grows
    <2>5. CASE Reply(k, "internal")
      <3>1. CallsOK'
        BY <1>2, <2>4, <2>5, FailureStep
      <3> QED
        BY <2>3, <2>4, <3>1 DEF Inv
    <2>6. CASE CreatedGoto(k)
      <3> PICK p : p = FromDao(NewUser(k), NewLawyer(k))
        OBVIOUS
      <3>1. NewUser(k) \in User /\ NewLawyer(k) \in Lawyer
        BY <1>1, <2>2 DEF User, Status, Lawyer
      <3>2. p \in Profile /\ p.email = c.email /\ p.oab_number = c.oab
            /\ p.status = "pending_email_verification"
        BY <2>2, <3>1, ProfileOf
      <3> PICK d : d = [c EXCEPT !.pc = "request_verification", !.lawyer = p]
        OBVIOUS
      <3>3. d \in CallState /\ d.pc = "request_verification" /\ d.op = c.op /\ d.email = c.email
            /\ d.id = c.id /\ d.result = NULL /\ d.lawyer = p
        <4>1. "request_verification" \in Pc
          BY DEF Pc
        <4>2. d \in CallState
          BY <3>2, <4>1 DEF CallState
        <4>3. d.pc = "request_verification" /\ d.op = c.op /\ d.email = c.email
              /\ d.id = c.id /\ d.result = c.result /\ d.lawyer = p
          BY DEF CallState
        <4> QED
          BY <1>1, <4>2, <4>3
      <3>4. HasUser(d.email)'
        BY <1>1, <2>3, <3>3 DEF HasUser
      <3>5. Shows(d)'
        BY <1>1, <2>3, <3>2, <3>3 DEF Shows
      <3>6. Tells(d, d.result)'
        BY <3>3, NullAssumption DEF Tells, Result
      <3>7. Fits(d)'
        BY <1>1, <3>3, <3>4, <3>5, <3>6 DEF Fits
      <3>8. calls' = [calls EXCEPT ![k] = d]
        BY <2>6 DEF CreatedGoto, Inv, CallsOK
      <3>9. CallsOK'
        BY <2>4, <3>3, <3>7, <3>8, CallStep
      <3> QED
        BY <2>3, <2>4, <3>9 DEF Inv
    <2> QED
      BY <1>4, <2>5, <2>6
  <1> QED
    BY <1>3, <1>4 DEF CreateLawyer

LEMMA RequestVerificationInv ==
    ASSUME Inv, NEW k \in Call, RequestVerification(k)
    PROVE  Inv'
  <1> PICK c \in CallState : calls[k] = c /\ Fits(c)
    BY OneCall
  <1>1. /\ c.pc = "request_verification" /\ c.email \in Address /\ HasUser(c.email)
        /\ c.op \in {"create_lawyer_account", "request_new_code"}
        /\ c.op = "create_lawyer_account" => Shows(c)
    BY DEF RequestVerification, At, Fits
  <1>2. UNCHANGED tables /\ UNCHANGED abandoned
    BY DEF RequestVerification
  \* The account that has a code is the one this operation created or read.
  <1>3. ASSUME NEW a \in Registered(c.email), NEW t \in Code, <<a, t>> \in issued',
               AuthOK', AuthGrows, TablesOK', Reply(k, "ok")
        PROVE  Inv'
    <2>1. a \in Account /\ address[a] = c.email /\ c.email # NULL
      BY <1>1, NullAssumption DEF Registered
    <2>2. users[a] # NULL
      BY <1>1, <2>1, RegisteredUser DEF HasUser
    <2>3. Grows /\ AbandonedOK'
      BY <1>2, <1>3, SameUsers, AbandonedKept DEF Grows
    <2>4. c.op = "create_lawyer_account" => Shows(c)' /\ c.id = a
      <3>1. Shows(c) => c.id = a
        BY <1>1, RegisteredUser DEF Shows
      <3> QED
        BY <1>1, <2>3, <3>1, ShowsKept DEF Grows
    <2>5. address'[a] = c.email /\ users'[a] # NULL /\ HasCode(a)'
      BY <1>2, <1>3, <2>1, <2>2 DEF AuthGrows, tables, HasCode
    <2>6. Tells(c, "ok")' /\ "ok" \in Result
      BY <1>1, <2>1, <2>4, <2>5 DEF Tells, Result
    <2>7. CallsOK'
      BY <1>3, <2>3, <2>6, ReplyStep
    <2> QED
      BY <1>3, <2>3, <2>7 DEF Inv
  <1>4. CASE RequestEffect(c.email) /\ Reply(k, "ok")
    <2>1. /\ AuthOK' /\ AuthGrows /\ TablesOK'
          /\ \E a \in Registered(c.email) : HasCode(a)'
      BY <1>1, <1>2, <1>4, RequestEffectStep
    <2>2. PICK a \in Registered(c.email) : HasCode(a)'
      BY <2>1
    <2>3. PICK t \in Code : <<a, t>> \in issued'
      BY <2>2 DEF HasCode
    <2> QED
      BY <1>3, <1>4, <2>1, <2>3
  <1>5. CASE /\ \E a \in Registered(c.email) : a \in verified \/ HasCode(a)
             /\ Reply(k, "ok") /\ UNCHANGED auth
    <2>1. PICK a \in Registered(c.email) : a \in verified \/ HasCode(a)
      BY <1>5
    <2>2. PICK t \in Code : <<a, t>> \in issued
      BY <2>1 DEF HasCode, Inv, AuthOK
    <2>3. <<a, t>> \in issued'
      BY <1>5, <2>2 DEF auth
    <2> QED
      BY <1>2, <1>3, <1>5, <2>3, AuthUnchanged
  <1>6. CASE Reply(k, RpcError["other"]) /\ UNCHANGED auth
    BY <1>2, <1>6, OtherFails, QuietFailure
  <1> QED
    BY <1>4, <1>5, <1>6 DEF RequestVerification

LEMMA VerifyEmailInv ==
    ASSUME Inv, NEW k \in Call, VerifyEmail(k)
    PROVE  Inv'
  <1> PICK c \in CallState : calls[k] = c /\ Fits(c)
    BY OneCall
  <1>1. c.pc = "verify" /\ c.op = "verify_email" /\ c.email \in Address /\ c.code \in Code
    BY DEF VerifyEmail, At, Fits
  <1>2. UNCHANGED tables /\ UNCHANGED abandoned
    BY DEF VerifyEmail
  <1>3. CASE VerifyEffect(c.email, c.code) /\ Reply(k, "ok")
    <2>1. /\ AuthOK' /\ AuthGrows /\ TablesOK'
          /\ \E a \in Account : address'[a] = c.email /\ a \in verified'
      BY <1>1, <1>2, <1>3, VerifyEffectStep
    <2>2. Grows /\ AbandonedOK'
      BY <1>2, <2>1, SameUsers, AbandonedKept DEF Grows
    <2>3. Tells(c, "ok")' /\ "ok" \in Result
      BY <1>1, <2>1, NullAssumption DEF Tells, Result
    <2>4. CallsOK'
      BY <1>3, <2>2, <2>3, ReplyStep
    <2> QED
      BY <2>1, <2>2, <2>4 DEF Inv
  <1>4. CASE Reply(k, RpcError["other"]) /\ UNCHANGED auth
    BY <1>2, <1>4, OtherFails, QuietFailure
  <1> QED
    BY <1>3, <1>4 DEF VerifyEmail

-----------------------------------------------------------------------------
(* Failures, late effects and messages                                     *)

LEMMA ReturnInv ==
    ASSUME Inv, NEW k \in Call, Return(k)
    PROVE  Inv'
  BY Quiet, ReturnStep DEF Inv, Return

LEMMA DatabaseErrorInv ==
    ASSUME Inv, NEW k \in Call, DatabaseError(k)
    PROVE  Inv'
  BY QuietFailure DEF DatabaseError, Failure, Result

\* The RPC an operation waits for, when nobody waits for it any more.
LEMMA AbandonStep ==
    ASSUME Inv, NEW k \in Call, UNCHANGED tables,
           \E pc \in {"create_credential", "request_verification", "verify"} : At(k, pc),
           abandoned' = abandoned \cup {RpcOf(k)}
    PROVE  AbandonedOK'
  <1> PICK c \in CallState : calls[k] = c /\ Fits(c)
    BY OneCall
  <1> PICK r : r = RpcOf(k)
    OBVIOUS
  <1>1. r \in Rpc /\ (r.rpc = "request_email_verification" => HasUser(r.email))
    <2>1. CASE c.pc = "create_credential"
      <3>1. r = [rpc |-> "create_credential", email |-> c.email] /\ c.email \in Address
        BY <2>1 DEF RpcOf, At, Fits
      <3> QED
        BY <3>1 DEF Rpc
    <2>2. CASE c.pc = "request_verification"
      <3>1. r = [rpc |-> "request_email_verification", email |-> c.email]
            /\ c.email \in Address /\ HasUser(c.email)
        BY <2>2 DEF RpcOf, At, Fits
      <3> QED
        BY <3>1 DEF Rpc
    <2>3. CASE c.pc = "verify"
      <3>1. r = [rpc |-> "verify_email", email |-> c.email, code |-> c.code]
            /\ c.email \in Address /\ c.code \in Code
        BY <2>3 DEF RpcOf, At, Fits
      <3> QED
        BY <3>1 DEF Rpc
    <2> QED
      BY <2>1, <2>2, <2>3 DEF At
  <1>2. \A q \in Rpc : HasUser(q.email) => HasUser(q.email)'
    BY DEF HasUser, tables
  <1> QED
    BY <1>1, <1>2 DEF Inv, AbandonedOK

LEMMA RpcFailsInv ==
    ASSUME Inv, NEW k \in Call, RpcFails(k)
    PROVE  Inv'
  <1>1. PICK status \in {"unavailable", "other"} : Reply(k, RpcError[status])
    BY DEF RpcFails
  <1>2. UNCHANGED auth /\ UNCHANGED tables /\ AbandonedOK'
    BY AbandonStep DEF RpcFails
  <1>3. AuthOK' /\ TablesOK' /\ Grows
    BY <1>2, AuthUnchanged, SameUsers DEF Grows
  <1>4. CallsOK'
    BY <1>1, <1>3, OtherFails, FailureStep
  <1> QED
    BY <1>2, <1>3, <1>4 DEF Inv

LEMMA DroppedInv ==
    ASSUME Inv, NEW k \in Call, Dropped(k)
    PROVE  Inv'
  <1>1. UNCHANGED auth /\ UNCHANGED tables /\ calls' = [calls EXCEPT ![k] = Idle]
    BY DEF Dropped
  <1>2. AuthOK' /\ TablesOK' /\ Grows
    BY <1>1, AuthUnchanged, SameUsers DEF Grows
  <1>3. AbandonedOK'
    BY <1>1, SameUsers, AbandonedKept, AbandonStep DEF Dropped
  <1>4. CallsOK'
    BY <1>1, <1>2, ReturnStep
  <1> QED
    BY <1>2, <1>3, <1>4 DEF Inv

LEMMA CallsKept ==
    ASSUME Inv, Grows, UNCHANGED calls
    PROVE  CallsOK'
  <1>1. ASSUME NEW k \in Call, NEW c \in CallState, calls[k] = c PROVE Fits(c)'
    BY <1>1, FitsKept DEF Inv, CallsOK
  <1> QED
    BY <1>1 DEF Inv, CallsOK

LEMMA LateEffectInv ==
    ASSUME Inv, NEW r \in abandoned, LateEffect(r)
    PROVE  Inv'
  <1>1. UNCHANGED tables /\ UNCHANGED calls /\ abandoned' \subseteq abandoned /\ r \in Rpc
    BY DEF LateEffect, Inv, AbandonedOK
  <1>2. r.email \in Address
    BY <1>1 DEF Rpc
  <1>3. AuthOK' /\ AuthGrows /\ TablesOK'
    <2>1. CASE r.rpc = "create_credential" /\ \E a \in Account : CreateCredentialEffect(r.email, a)
      BY <1>1, <1>2, <2>1, CreateEffectStep
    <2>2. CASE r.rpc = "request_email_verification" /\ RequestEffect(r.email)
      BY <1>1, <1>2, <2>2, RequestEffectStep DEF Inv, AbandonedOK
    <2>3. CASE r.rpc = "verify_email" /\ VerifyEffect(r.email, r.code)
      <3>1. r.code \in Code
        BY <1>1, <2>3 DEF Rpc
      <3> QED
        BY <1>1, <1>2, <2>3, <3>1, VerifyEffectStep
    <2> QED
      BY <2>1, <2>2, <2>3 DEF LateEffect
  <1>4. Grows
    BY <1>1, <1>3, SameUsers DEF Grows
  <1> QED
    BY <1>1, <1>3, <1>4, CallsKept, AbandonedKept DEF Inv, Grows

LEMMA EmailVerifiedInv ==
    ASSUME Inv, NEW i \in DOMAIN outbox, EmailVerified(i)
    PROVE  Inv'
  <1> PICK a : a = outbox[i].user_id
    OBVIOUS
  <1>1. a \in verified /\ a \in Account
    BY DEF EmailVerified, Inv, AuthOK
  <1>2. /\ UNCHANGED <<address, issued, verified, outbox, lawyers, firms, calls, abandoned>>
        /\ users' = [b \in Account |-> IF b \in VerifiedRows(a)
                                       THEN [users[b] EXCEPT !.status = "email_verified"]
                                       ELSE users[b]]
    BY DEF EmailVerified, auth
  <1>3. users \in [Account -> User \cup {NULL}]
    BY DEF Inv, TablesOK
  <1>4. ASSUME NEW b \in Account
        PROVE  /\ users'[b] \in User \cup {NULL}
               /\ users'[b] # NULL <=> users[b] # NULL
               /\ users[b] # NULL => users'[b].email = users[b].email
               /\ users[b] # NULL /\ users[b].status = "email_verified" =>
                     users'[b].status = "email_verified"
               /\ b # a => users'[b] = users[b]
    <2> PICK u : u = [users[b] EXCEPT !.status = "email_verified"]
      OBVIOUS
    <2>1. CASE b \in VerifiedRows(a)
      <3>1. users[b] # NULL /\ users[b] \in User /\ users'[b] = u /\ b = a
        BY <1>2, <1>3, <2>1 DEF VerifiedRows
      <3>2. u \in User /\ u.email = users[b].email /\ u.status = "email_verified"
        BY <3>1 DEF User, Status
      <3> QED
        BY <3>1, <3>2, NullAssumption
    <2>2. CASE b \notin VerifiedRows(a)
      BY <1>2, <1>3, <2>2
    <2> QED
      BY <2>1, <2>2
  <1>5. users' \in [Account -> User \cup {NULL}]
    BY <1>2, <1>4
  <1>6. AuthOK' /\ AuthGrows
    BY <1>2 DEF Inv, AuthOK, AuthGrows, HasCode
  <1>7. UsersGrow
    BY <1>2, <1>4 DEF UsersGrow
  <1>8. AccountsComplete'
    BY <1>2, <1>4 DEF Inv, TablesOK, AccountsComplete
  <1>9. StatusFollowsAuth'
    BY <1>1, <1>2, <1>4 DEF Inv, TablesOK, StatusFollowsAuth
  <1>10. IssuedHaveUsers'
    BY <1>2, <1>4 DEF Inv, TablesOK, IssuedHaveUsers
  <1>11. TablesOK'
    <2>1. LawyersHaveUsers'
      BY <1>2, <1>4 DEF Inv, TablesOK, LawyersHaveUsers
    <2> QED
      BY <1>2, <1>5, <1>8, <1>9, <1>10, <2>1 DEF Inv, TablesOK
  <1>12. CallsOK' /\ AbandonedOK'
    BY <1>2, <1>6, <1>7, CallsKept, AbandonedKept DEF Grows
  <1> QED
    BY <1>6, <1>11, <1>12 DEF Inv

LEMMA InitInv == Init => Inv
  <1> SUFFICES ASSUME Init PROVE Inv
    OBVIOUS
  <1>1. AuthOK
    BY DEF Init, Auth!Init, AuthOK
  <1>2. TablesOK
    BY <1>1 DEF Init, Auth!Init, TablesOK, AccountsComplete, StatusFollowsAuth, IssuedHaveUsers,
              LawyersHaveUsers
  <1>3. CallsOK
    <2>1. Idle \in CallState
      BY IdleFits
    <2>2. Fits(Idle)
      <3> PICK c : c = Idle
        OBVIOUS
      <3>1. c.pc = "idle" /\ c.op = NULL /\ c.result = NULL
        BY DEF Idle
      <3>3. Fits(c)
        BY <3>1, NullAssumption DEF Fits, Tells, Op, Result
      <3> QED
        BY <3>3
    <2> QED
      BY <2>1, <2>2 DEF Init, CallsOK
  <1>4. AbandonedOK
    BY DEF Init, AbandonedOK
  <1> QED
    BY <1>1, <1>2, <1>3, <1>4 DEF Inv

LEMMA StepInv == Inv /\ [Next]_vars => Inv'
  <1> SUFFICES ASSUME Inv, [Next]_vars PROVE Inv'
    OBVIOUS
  <1>1. ASSUME NEW k \in Call, Start(k) PROVE Inv'
    BY <1>1, CreateStartInv, LookupStartInv, VerifyStartInv DEF Start
  <1>2. ASSUME NEW k \in Call, Step(k) PROVE Inv'
    BY <1>2, ExistsByOabInv, CreateCredentialInv, CreateLawyerInv, RequestVerificationInv,
       GetUserInv, GetLawyerInv, VerifyEmailInv, ReturnInv DEF Step
  <1>3. ASSUME NEW k \in Call, RpcFails(k) \/ DatabaseError(k) \/ Dropped(k) PROVE Inv'
    BY <1>3, RpcFailsInv, DatabaseErrorInv, DroppedInv
  <1>4. CASE UNCHANGED vars
    <2>1. UNCHANGED <<auth, tables, abandoned>> /\ UNCHANGED calls
      BY <1>4 DEF vars
    <2> QED
      BY <2>1, Quiet, CallsKept DEF Inv
  <1> QED
    BY <1>1, <1>2, <1>3, <1>4, LateEffectInv, EmailVerifiedInv DEF Next

-----------------------------------------------------------------------------

\* Every reachable state of the core service is well typed.
THEOREM TypeCorrect == Spec => []TypeOK
  <1>1. Inv => TypeOK
    BY DEF Inv, AuthOK, TablesOK, CallsOK, AbandonedOK, TypeOK
  <1> QED
    BY InitInv, StepInv, <1>1, PTL DEF Spec

\* Codes go only to accounts with a user, so email_verified always finds the row
\* it updates: a code is requested after the user's transaction or after a read
\* of the user, also when the request outlives its caller.
THEOREM NoCodeWithoutUser == Spec => []CodesHaveUsers
  <1>1. Inv => CodesHaveUsers
    BY DEF Inv, AuthOK, TablesOK, IssuedHaveUsers, HasCode, CodesHaveUsers
  <1> QED
    BY InitInv, StepInv, <1>1, PTL DEF Spec

\* The two databases agree on every account, and a user is never without its
\* lawyer and firm, for any number of overlapping, failing and retried sign-ups.
THEOREM NoPartialAccount == Spec => []AccountsComplete
  <1>1. Inv => AccountsComplete
    BY DEF Inv, TablesOK
  <1> QED
    BY InitInv, StepInv, <1>1, PTL DEF Spec

\* The ok of a sign-up means a user and a code to confirm it with.
THEOREM OkAccountIsUsable == Spec => []CreatedIsUsable
  <1>1. Inv => CreatedIsUsable
    <2> SUFFICES ASSUME Inv, NEW k \in Call,
                        calls[k].op = "create_lawyer_account", calls[k].result = "ok"
                 PROVE  users[calls[k].id] # NULL /\ HasCode(calls[k].id)
      BY DEF CreatedIsUsable
    <2> PICK c \in CallState : calls[k] = c /\ Fits(c)
      BY OneCall
    <2> QED
      BY DEF Fits, Tells, Shows
  <1> QED
    BY InitInv, StepInv, <1>1, PTL DEF Spec

\* What an operation answered is still true when its caller reads it: nothing
\* it tells of is ever taken back, and a failure is never told as one of these.
THEOREM AnswersStayTrue == Spec => []AnswersAreTrue
  <1>1. ASSUME NEW c \in CallState, Inv, Shows(c)
        PROVE  LET shown == GqlLawyer(c.lawyer) IN
               /\ shown.email = users[c.id].email /\ shown.email = c.email
               /\ shown.oab_number = lawyers[c.id].oab_number
               /\ shown.status = "EMAIL_VERIFIED" => users[c.id].status = "email_verified"
    <2> PICK p \in Profile : p = c.lawyer
      BY <1>1 DEF Shows
    <2>1. /\ GqlLawyer(p).email = p.email /\ GqlLawyer(p).oab_number = p.oab_number
          /\ GqlLawyer(p).status = GqlStatus[p.status]
      BY DEF GqlLawyer, Profile
    <2>2. p.status = "email_verified" \/ GqlStatus[p.status] = "PENDING_EMAIL_VERIFICATION"
      BY DEF Profile, Status, GqlStatus
    <2> QED
      BY <1>1, <2>1, <2>2 DEF Shows
  <1>2. Inv => AnswersAreTrue
    <2> SUFFICES ASSUME Inv, NEW k \in Call, NEW c \in CallState, calls[k] = c, Tells(c, c.result)
                 PROVE  /\ c.result = "oab_exists" => OabTaken(c.oab)
                        /\ c.result = "email_exists" => Registered(c.email) # {}
                        /\ c.result = "ok" /\ c.op = "verify_email" =>
                              Registered(c.email) \cap verified # {}
                        /\ c.result = "ok" /\ c.op = "request_new_code" =>
                              \E a \in Registered(c.email) : users[a] # NULL /\ HasCode(a)
                        /\ c.result = "ok" /\ c.op \in {"lawyer", "create_lawyer_account"} =>
                              Shows(c)
      BY <1>1, OneCall DEF AnswersAreTrue, Fits, Shows
    <2> QED
      BY DEF Tells, Registered
  <1> QED
    BY InitInv, StepInv, <1>2, PTL DEF Spec

\* A user counts as verified only after confirmo-auth confirmed its address.
THEOREM StatusIsEarned == Spec => []StatusFollowsAuth
  <1>1. Inv => StatusFollowsAuth
    BY DEF Inv, TablesOK
  <1> QED
    BY InitInv, StepInv, <1>1, PTL DEF Spec
-----------------------------------------------------------------------------
(* The life of an account                                                  *)

\* Each stage includes those before it.
LEMMA StagesNest ==
    ASSUME Inv, NEW a \in Account
    PROVE  /\ a \in verified => HasCode(a)
           /\ HasCode(a) => users[a] # NULL
           /\ users[a] # NULL => address[a] # NULL
           /\ users[a] # NULL /\ users[a].status = "email_verified" => a \in verified
  <1>1. (a \in verified => HasCode(a)) /\ (HasCode(a) => users[a] # NULL)
    BY DEF Inv, AuthOK, TablesOK, IssuedHaveUsers, HasCode
  <1>2. users[a] # NULL => address[a] # NULL
    <2>1. users[a] # NULL => users[a] \in User
      BY DEF Inv, TablesOK
    <2>2. users[a] # NULL => address[a] \in Address
      BY <2>1 DEF Inv, TablesOK, AccountsComplete, User
    <2> QED
      BY <2>2, NullAssumption
  <1>3. users[a] # NULL /\ users[a].status = "email_verified" => a \in verified
    BY DEF Inv, TablesOK, StatusFollowsAuth
  <1> QED
    BY <1>1, <1>2, <1>3

\* What was stored of all accounts but a is as it was.
OthersSame(a) ==
    \A b \in Account : b # a =>
        /\ users'[b] = users[b] /\ address'[b] = address[b]
        /\ b \in verified' <=> b \in verified
        /\ HasCode(b)' <=> HasCode(b)

LEMMA LifeAdvances ==
    ASSUME NEW a \in Account, OthersSame(a),
           Stage(a)' = Stage(a) \/ (Stage(a) \in DOMAIN Life!After /\ Stage(a)' = Life!After[Stage(a)])
    PROVE  [Life!Next]_Stages
  <1>1. \A b \in Account : b # a => Stage(b)' = Stage(b)
    BY DEF OthersSame, Stage
  <1>2. CASE Stage(a)' = Stage(a)
    <2>1. \A b \in Account : Stage(b)' = Stage(b)
      BY <1>1, <1>2
    <2>2. Stages' = Stages
      BY <2>1 DEF Stages
    <2> QED
      BY <2>2
  <1>3. CASE Stage(a) \in DOMAIN Life!After /\ Stage(a)' = Life!After[Stage(a)]
    <2>1. Stages' = [Stages EXCEPT ![a] = Life!After[Stages[a]]]
      BY <1>1, <1>3 DEF Stages
    <2>2. Life!Advance(a)
      BY <1>3, <2>1 DEF Life!Advance, Stages
    <2> QED
      BY <2>2 DEF Life!Next
  <1> QED
    BY <1>2, <1>3

LEMMA RegisterLife ==
    ASSUME Inv, NEW a \in Account, NEW e \in Address, Auth!Register(a, e), UNCHANGED users
    PROVE  [Life!Next]_Stages
  <1>1. /\ address[a] = NULL /\ UNCHANGED <<issued, verified>>
        /\ address' = [address EXCEPT ![a] = e]
        /\ address \in [Account -> Address \cup {NULL}]
    BY DEF Auth!Register, Inv, AuthOK
  <1>2. OthersSame(a)
    BY <1>1 DEF OthersSame, HasCode
  <1>3. Stage(a) = "none"
    BY <1>1, StagesNest DEF Stage
  <1>4. Stage(a)' = "registered"
    <2>1. address'[a] # NULL /\ users'[a] = NULL /\ a \notin verified' /\ ~HasCode(a)'
      BY <1>1, StagesNest, NullAssumption DEF HasCode
    <2> QED
      BY <2>1 DEF Stage
  <1> QED
    BY <1>2, <1>3, <1>4, LifeAdvances DEF Life!After

LEMMA IssueLife ==
    ASSUME Inv, NEW a \in Account, NEW t \in Code, Auth!Issue(a, t), UNCHANGED users,
           users[a] # NULL
    PROVE  [Life!Next]_Stages
  <1>1. UNCHANGED <<address, verified>> /\ issued' = issued \cup {<<a, t>>}
    BY DEF Auth!Issue
  <1>2. OthersSame(a) /\ HasCode(a)'
    BY <1>1 DEF OthersSame, HasCode
  <1>3. CASE HasCode(a)
    BY <1>1, <1>2, <1>3, LifeAdvances DEF Stage
  <1>4. CASE ~HasCode(a)
    <2>1. Stage(a) = "user" /\ Stage(a)' = "coded"
      BY <1>1, <1>2, <1>4, StagesNest DEF Stage
    <2> QED
      BY <1>2, <2>1, LifeAdvances DEF Life!After
  <1> QED
    BY <1>3, <1>4

LEMMA ConfirmLife ==
    ASSUME Inv, NEW a \in Account, NEW t \in Code, Auth!Confirm(a, t), UNCHANGED users
    PROVE  [Life!Next]_Stages
  <1>1. /\ <<a, t>> \in issued /\ a \notin verified
        /\ UNCHANGED <<address, issued>> /\ verified' = verified \cup {a}
    BY DEF Auth!Confirm
  <1>2. t \in Code /\ HasCode(a)
    BY <1>1 DEF HasCode
  <1>3. OthersSame(a)
    BY <1>1 DEF OthersSame, HasCode
  <1>4. Stage(a) = "coded" /\ Stage(a)' = "confirmed"
    BY <1>1, <1>2, StagesNest DEF Stage
  <1> QED
    BY <1>3, <1>4, LifeAdvances DEF Life!After

\* The transaction of create_lawyer adds the user of a registered address.
LEMMA CreateLawyerLife ==
    ASSUME Inv, NEW k \in Call, CreateLawyer(k)
    PROVE  [Life!Next]_Stages
  <1>1. PICK c \in CallState : c = calls[k]
    BY DEF Inv, CallsOK
  <1>2. c.pc = "create_lawyer" /\ Fits(c) /\ UNCHANGED <<address, issued, verified>>
    BY <1>1 DEF CreateLawyer, At, Inv, CallsOK, auth
  <1>3. PICK a \in Account : a = c.id /\ address[a] = c.email /\ c.email \in Address
    BY <1>2 DEF Fits
  <1>4. CASE UNCHANGED users
    <2>1. \A b \in Account : Stage(b)' = Stage(b)
      BY <1>2, <1>4 DEF Stage, HasCode
    <2> QED
      BY <2>1 DEF Stages
  <1>5. CASE ~Conflict(k) /\ users' = [users EXCEPT ![a] = NewUser(k)]
    <2>1. users[a] = NULL
      BY <1>1, <1>3, <1>5 DEF Conflict
    <2>2. /\ users'[a].status = "pending_email_verification" /\ users'[a] # NULL
          /\ \A b \in Account : b # a => users'[b] = users[b]
      <3>1. users \in [Account -> User \cup {NULL}] /\ NewUser(k) \in User
        BY <1>1, <1>3 DEF Inv, TablesOK, NewUser, User, Status
      <3> QED
        BY <1>5, <3>1, NullAssumption DEF NewUser
    <2>3. OthersSame(a)
      BY <1>2, <2>2 DEF OthersSame, HasCode
    <2>4. Stage(a) = "registered" /\ Stage(a)' = "user"
      <3>1. address[a] # NULL /\ ~HasCode(a) /\ a \notin verified
        BY <1>3, <2>1, StagesNest, NullAssumption
      <3>2. ~HasCode(a)' /\ a \notin verified'
        BY <1>2, <3>1 DEF HasCode
      <3> QED
        BY <2>1, <2>2, <3>1, <3>2 DEF Stage
    <2> QED
      BY <2>3, <2>4, LifeAdvances DEF Life!After
  <1> QED
    BY <1>1, <1>3, <1>4, <1>5 DEF CreateLawyer, tables

\* The message finds its user confirmed, or verified already.
LEMMA EmailVerifiedLife ==
    ASSUME Inv, NEW i \in DOMAIN outbox, EmailVerified(i)
    PROVE  [Life!Next]_Stages
  <1>1. PICK a : a = outbox[i].user_id
    OBVIOUS
  <1>2. a \in verified /\ a \in Account
    BY <1>1 DEF EmailVerified, Inv, AuthOK
  <1>3. /\ UNCHANGED <<address, issued, verified>>
        /\ users' = [b \in Account |-> IF b \in VerifiedRows(a)
                                       THEN [users[b] EXCEPT !.status = "email_verified"]
                                       ELSE users[b]]
    BY <1>1 DEF EmailVerified, auth
  <1>4. users[a] \in User
    BY <1>2, StagesNest DEF Inv, TablesOK
  <1>5. users'[a].status = "email_verified" /\ users'[a] # NULL
    <2> PICK u : u = [users[a] EXCEPT !.status = "email_verified"]
      OBVIOUS
    <2>1. u \in User /\ u.status = "email_verified"
      BY <1>4 DEF User, Status
    <2>2. a \in VerifiedRows(a)
      BY <1>2, <1>4, NullAssumption DEF VerifiedRows
    <2> QED
      BY <1>2, <1>3, <2>1, <2>2, NullAssumption
  <1>6. OthersSame(a)
    <2>1. \A b \in Account : b # a => users'[b] = users[b]
      BY <1>3 DEF VerifiedRows, Inv, TablesOK
    <2> QED
      BY <1>3, <2>1 DEF OthersSame, HasCode
  <1>7. Stage(a) \in {"confirmed", "verified"} /\ Stage(a)' = "verified"
    BY <1>2, <1>5 DEF Stage
  <1> QED
    BY <1>2, <1>6, <1>7, LifeAdvances DEF Life!After

\* A request for a code issues it to an account with its user.
LEMMA RequestEffectLife ==
    ASSUME Inv, NEW e \in Address, HasUser(e), RequestEffect(e), UNCHANGED users
    PROVE  [Life!Next]_Stages
  <1>1. PICK a \in Registered(e), t \in Code : Auth!Issue(a, t)
    BY DEF RequestEffect
  <1>2. a \in Account /\ users[a] # NULL
    BY RegisteredUser DEF HasUser, Registered
  <1> QED
    BY <1>1, <1>2, IssueLife

LEMMA VerifyEffectLife ==
    ASSUME Inv, NEW e \in Address, NEW t \in Code, VerifyEffect(e, t), UNCHANGED users
    PROVE  [Life!Next]_Stages
  <1>1. PICK a \in Account : Auth!Confirm(a, t)
    BY DEF VerifyEffect, Registered
  <1> QED
    BY <1>1, ConfirmLife

\* The same stages, whatever happens to operations, lawyers and firms.
LEMMA SameLife ==
    ASSUME UNCHANGED <<auth, users>>
    PROVE  [Life!Next]_Stages
  <1>1. \A b \in Account : Stage(b)' = Stage(b)
    BY DEF Stage, HasCode, auth
  <1> QED
    BY <1>1 DEF Stages

LEMMA RpcLife ==
    ASSUME Inv, NEW k \in Call,
           CreateCredential(k) \/ RequestVerification(k) \/ VerifyEmail(k)
    PROVE  [Life!Next]_Stages
  <1>1. PICK c \in CallState : c = calls[k] /\ Fits(c)
    BY DEF Inv, CallsOK
  <1>2. UNCHANGED users
    BY DEF CreateCredential, RequestVerification, VerifyEmail, tables
  <1>3. CASE UNCHANGED auth
    BY <1>2, <1>3, SameLife
  <1>4. CASE CreateCredential(k)
    <2>1. c.email \in Address
      BY <1>1, <1>4 DEF CreateCredential, At, Fits
    <2> QED
      BY <1>1, <1>2, <1>3, <1>4, <2>1, RegisterLife
      DEF CreateCredential, CreateCredentialEffect
  <1>5. CASE RequestVerification(k)
    <2>1. c.email \in Address /\ HasUser(c.email)
      BY <1>1, <1>5 DEF RequestVerification, At, Fits
    <2> QED
      BY <1>1, <1>2, <1>3, <1>5, <2>1, RequestEffectLife DEF RequestVerification
  <1>6. CASE VerifyEmail(k)
    <2>1. c.email \in Address /\ c.code \in Code
      BY <1>1, <1>6 DEF VerifyEmail, At, Fits
    <2> QED
      BY <1>1, <1>2, <1>3, <1>6, <2>1, VerifyEffectLife DEF VerifyEmail
  <1> QED
    BY <1>4, <1>5, <1>6

LEMMA LateEffectLife ==
    ASSUME Inv, NEW r \in abandoned, LateEffect(r)
    PROVE  [Life!Next]_Stages
  <1>1. UNCHANGED users /\ r \in Rpc
    BY DEF LateEffect, tables, Inv, AbandonedOK
  <1>2. ASSUME NEW a \in Account, CreateCredentialEffect(r.email, a)
        PROVE  [Life!Next]_Stages
    BY <1>1, <1>2, RegisterLife DEF CreateCredentialEffect, Rpc
  <1>3. CASE r.rpc = "request_email_verification" /\ RequestEffect(r.email)
    BY <1>1, <1>3, RequestEffectLife DEF Inv, AbandonedOK, Rpc
  <1>4. CASE r.rpc = "verify_email" /\ VerifyEffect(r.email, r.code)
    BY <1>1, <1>4, VerifyEffectLife DEF Rpc
  <1> QED
    BY <1>2, <1>3, <1>4 DEF LateEffect

LEMMA StepLife == Inv /\ [Next]_vars => [Life!Next]_Stages
  <1> SUFFICES ASSUME Inv, [Next]_vars PROVE [Life!Next]_Stages
    OBVIOUS
  <1>1. ASSUME NEW k \in Call, Start(k) PROVE UNCHANGED <<auth, users>>
    BY <1>1 DEF Start, CreateStart, LookupStart, VerifyStart, tables
  <1>2. ASSUME NEW k \in Call,
               ExistsByOab(k) \/ GetUser(k) \/ GetLawyer(k) \/ Return(k)
               \/ RpcFails(k) \/ DatabaseError(k) \/ Dropped(k)
        PROVE  UNCHANGED <<auth, users>>
    BY <1>2 DEF ExistsByOab, GetUser, GetLawyer, Return, RpcFails, DatabaseError, Dropped, tables
  <1>3. UNCHANGED vars => UNCHANGED <<auth, users>>
    BY DEF vars, tables
  <1> QED
    BY <1>1, <1>2, <1>3, SameLife, RpcLife, CreateLawyerLife, LateEffectLife, EmailVerifiedLife
    DEF Next, Step

\* An account goes through its stages one by one, in two databases and by four
\* operations and a message that overlap, fail, repeat and come late: none is
\* skipped, none taken back, and no step moves two accounts.
THEOREM LifeInOrder == Spec => LifeSpec
  <1>1. Init => Life!Init
    <2> SUFFICES ASSUME Init PROVE Life!Init
      OBVIOUS
    <2>1. \A a \in Account : Stage(a) = "none"
      BY DEF Init, Auth!Init, Stage, HasCode
    <2> QED
      BY <2>1 DEF Life!Init, Stages
  <1> QED
    BY <1>1, InitInv, StepInv, StepLife, PTL DEF Spec, LifeSpec, Life!Spec
=============================================================================
