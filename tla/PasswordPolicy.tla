--------------------------- MODULE PasswordPolicy ---------------------------
(***************************************************************************)
(* validate_password of confirmo-utils, which both services run on the     *)
(* password of a sign-up: a check of the length, one pass over the bytes   *)
(* that notes the kinds it meets, and the verdict.                         *)
(*                                                                         *)
(* A password is the sequence of its bytes in UTF-8, and a byte is its     *)
(* kind: a character outside ASCII is a "lead" byte and the "cont" bytes   *)
(* that continue it, and counts as often for the length.                   *)
(***************************************************************************)
EXTENDS Integers, Sequences, FiniteSets

CONSTANTS
    Password,   \* the inputs
    MinLength,  \* 8
    NULL

VARIABLES
    password,   \* the input
    i,          \* the bytes the loop has gone through
    found,      \* which of has_lower, has_upper, has_digit, has_special are set
    result      \* what validate_password returns, or NULL

vars == <<password, i, found, result>>

Byte == {"lower", "upper", "digit", "symbol", "lead", "cont"}
Kind == {"lower", "upper", "digit", "special"}
Error == {"TooShort", "MissingLowercase", "MissingUppercase", "MissingDigit",
          "MissingSpecialChar"}

\* What the theorems assume of the constants.
PasswordAssumption ==
    /\ Password \subseteq Seq(Byte) /\ MinLength \in Nat
    /\ NULL \notin Error /\ NULL # "Ok"

\* The branches of the loop: what is not an ASCII letter or digit is special, a
\* byte of a character outside ASCII as well.
KindOf(b) == IF b \in {"lower", "upper", "digit"} THEN b ELSE "special"

Init ==
    /\ password \in Password
    /\ i = 0 /\ found = {} /\ result = NULL

\* password.len() < 8, in bytes
TooShort == Len(password) < MinLength

CheckLength ==
    /\ i = 0 /\ result = NULL
    /\ TooShort
    /\ result' = "TooShort"
    /\ UNCHANGED <<password, i, found>>

\* One byte of the loop.
Scan ==
    /\ result = NULL /\ ~TooShort
    /\ i < Len(password)
    /\ i' = i + 1
    /\ found' = found \cup {KindOf(password[i + 1])}
    /\ UNCHANGED <<password, result>>

\* The tests after the loop, in their order.
Verdict ==
    IF "lower" \notin found THEN "MissingLowercase"
    ELSE IF "upper" \notin found THEN "MissingUppercase"
    ELSE IF "digit" \notin found THEN "MissingDigit"
    ELSE IF "special" \notin found THEN "MissingSpecialChar"
    ELSE "Ok"

Decide ==
    /\ result = NULL /\ ~TooShort
    /\ i = Len(password)
    /\ result' = Verdict
    /\ UNCHANGED <<password, i, found>>

Next == CheckLength \/ Scan \/ Decide

Spec == Init /\ [][Next]_vars

-----------------------------------------------------------------------------
(* Correctness                                                             *)

TypeOK ==
    /\ password \in Seq(Byte)
    /\ i \in 0..Len(password)
    /\ found \subseteq Kind
    /\ result \in Error \cup {"Ok", NULL}

\* A character is the byte it begins with.
Characters == Cardinality({n \in 1..Len(password) : password[n] # "cont"})

Has(kinds) == \E n \in 1..Len(password) : password[n] \in kinds

\* The demands on a password, as the messages of PasswordError put them: each by
\* what it says of the whole input, the length in characters.
Demand == [TooShort |-> Characters >= MinLength,
           MissingLowercase |-> Has({"lower"}),
           MissingUppercase |-> Has({"upper"}),
           MissingDigit |-> Has({"digit"}),
           MissingSpecialChar |-> Has({"symbol", "lead", "cont"})]

\* An error names a demand that is not met, and a password is accepted if and only
\* if it meets every demand, whatever the order of its bytes; but of one with
\* characters outside ASCII the length is not promised.
VerdictIsRight ==
    /\ result \in Error => ~Demand[result]
    /\ result = "Ok" => \A e \in Error : Demand[e] \/ (e = "TooShort" /\ Has({"cont"}))

\* An accepted password has MinLength characters, as the message of TooShort says.
AcceptedIsLongEnough == result = "Ok" => Demand["TooShort"]
=============================================================================
