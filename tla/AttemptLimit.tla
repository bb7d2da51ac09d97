---------------------------- MODULE AttemptLimit ----------------------------
(* AuthService with the wrong guesses of each code counted as they are     *)
(* answered, next to the attempt_count the service keeps itself.           *)
EXTENDS AuthService, Combinatorics

VARIABLE guesses  \* code id -> wrong guesses whose caller was told so

\* A wrong guess is answered when the call that compared it replies not_found.
AnswersGuess(k) ==
    /\ calls[k].pc = "verify_reject"
    /\ calls[k].row.attempt_count <= MaxAttempts
    /\ calls[k].row.code # Hash(calls[k].token)
    /\ calls'[k].status = "not_found"

GuessInit == Init /\ guesses = [v \in VerId |-> 0]

GuessNext ==
    /\ Next
    /\ guesses' = [v \in VerId |->
          guesses[v] + Cardinality({k \in Call : calls[k].ver = v /\ AnswersGuess(k)})]

GuessSpec == GuessInit /\ [][GuessNext]_<<vars, guesses>>

\* No code answers more than MAXIMUM_EMAIL_VERIFICATION_ATTEMPTS wrong guesses:
\* verify_email stores each attempt before it answers.
GuessLimit == \A v \in VerId : guesses[v] <= MaxAttempts

\* What is left of the limit when N calls overlap: a call that holds an old copy
\* of the row writes an old count back, and the calls after it start over from
\* there.  The guesses on one code are as many as the ways to rewind the count,
\* the binomial (N + limit over limit) less one, and no more.
GuessBound ==
    \A v \in VerId :
        guesses[v] <= choose(MaxAttempts + Cardinality(Call), MaxAttempts) - 1
=============================================================================
