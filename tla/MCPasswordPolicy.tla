-------------------------- MODULE MCPasswordPolicy --------------------------
(* A TLC instance of PasswordPolicy, of passwords of MaxLength bytes that   *)
(* are well-formed UTF-8.                                                   *)
EXTENDS PasswordPolicy

CONSTANT MaxLength  \* the length of the passwords, in bytes

\* A lead byte has one to three bytes to continue it, other bytes have none.
WellFormed(s) ==
    /\ \A n \in DOMAIN s : s[n] = "cont" =>
          /\ \E m \in 1..(n - 1) : n - m <= 3 /\ s[m] = "lead"
          /\ s[n - 1] \in {"lead", "cont"}
    /\ \A n \in DOMAIN s : s[n] = "lead" => n < Len(s) /\ s[n + 1] = "cont"

\* Those that begin with a letter of each case and a digit: enough for the real
\* minimum of 8.
MCPassword ==
    {s \in {<<"lower", "upper", "digit">> \o rest :
                rest \in [1..(MaxLength - 3) -> {"lower", "lead", "cont"}]} : WellFormed(s)}
=============================================================================
