------------------------- MODULE EmailVerification -------------------------
(***************************************************************************)
(* What confirmo-auth promises its callers and the services downstream of  *)
(* its outbox, with every operation in one step: addresses are registered  *)
(* once, codes are issued together with the mail that carries them, and a  *)
(* code that was issued confirms its account once, with one announcement.  *)
(***************************************************************************)
EXTENDS Sequences

CONSTANTS Account, Address, Code, NULL

VARIABLES
    address,   \* account -> its address, or NULL
    issued,    \* the <<account, code>> pairs ever issued
    verified,  \* the accounts whose address is confirmed
    outbox     \* what the services downstream are told, in order

vars == <<address, issued, verified, outbox>>

Init ==
    /\ address = [a \in Account |-> NULL]
    /\ issued = {}
    /\ verified = {}
    /\ outbox = <<>>

Register(a, e) ==
    /\ address[a] = NULL
    /\ \A b \in Account : address[b] # e
    /\ address' = [address EXCEPT ![a] = e]
    /\ UNCHANGED <<issued, verified, outbox>>

Issue(a, t) ==
    /\ address[a] # NULL
    /\ <<a, t>> \notin issued
    /\ issued' = issued \cup {<<a, t>>}
    /\ outbox' = Append(outbox,
          [type |-> "EmailVerification", email |-> address[a], token |-> t])
    /\ UNCHANGED <<address, verified>>

Confirm(a, t) ==
    /\ <<a, t>> \in issued
    /\ a \notin verified
    /\ verified' = verified \cup {a}
    /\ outbox' = Append(outbox, [type |-> "EmailVerified", user_id |-> a])
    /\ UNCHANGED <<address, issued>>

Next ==
    \/ \E a \in Account, e \in Address : Register(a, e)
    \/ \E a \in Account, t \in Code : Issue(a, t) \/ Confirm(a, t)

Spec == Init /\ [][Next]_vars
=============================================================================
