--------------------------- MODULE AuthRefinement ---------------------------
(* The overlapping handlers of AuthService implement the one-step          *)
(* operations of EmailVerification.                                        *)
EXTENDS AuthService

\* The registered address of each credential.
AddressOf == [c \in CredId |-> IF credentials[c] = NULL THEN NULL ELSE credentials[c].email]

\* The <<credential, code>> pairs of the stored codes.
IssuedCodes ==
    {p \in CredId \X Code : \E v \in VerId :
        /\ verifications[v] # NULL
        /\ verifications[v].credential_id = p[1]
        /\ verifications[v].code = Hash(p[2])}

VerifiedAccounts == {c \in CredId : credentials[c] # NULL /\ credentials[c].email_verified}

Abstract == INSTANCE EmailVerification WITH
    Account <- CredId, Address <- ValidEmail,
    address <- AddressOf, issued <- IssuedCodes, verified <- VerifiedAccounts

\* Each step of each handler, whatever the calls in between have done, is one
\* step of EmailVerification or leaves its state alone: registering is atomic
\* despite the query before it, and a code confirms an account once however
\* many verify_email calls hold a copy of its row.
AbstractSpec == Abstract!Spec
=============================================================================
