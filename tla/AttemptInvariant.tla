-------------------------- MODULE AttemptInvariant --------------------------
(* Why the guesses on a code are bounded when calls overlap: what the calls *)
(* can still store as its attempt_count.                                   *)
EXTENDS AttemptLimit, AuthInvariant

Verifying == {"verify_check", "verify_reject", "verify_update",
              "verify_credential", "verify_commit"}

\* Call k holds a copy of row v, whose count it will write back.
Holds(k, v) == calls[k].pc \in Verifying /\ calls[k].ver = v

Count(v) == IF verifications[v] = NULL THEN 0 ELSE verifications[v].attempt_count

\* The calls that can come to store t or less: those that hold such a copy, and
\* all calls while the stored count is below t.
CanStore(v, t) ==
    {k \in Call : Count(v) < t \/ (Holds(k, v) /\ calls[k].row.attempt_count <= t)}

Room(v) == [t \in 1..MaxAttempts |-> Cardinality(CanStore(v, t))]

\* The stairs of m steps and height n: the functions that never go down.
Stairs(m, n) == {f \in [1..m -> 0..n] : \A i, j \in 1..m : i <= j => f[i] <= f[j]}

AllRooms == Stairs(MaxAttempts, Cardinality(Call))

\* q comes after p in the dictionary.
Above(p, q) ==
    \E t \in 1..MaxAttempts : p[t] < q[t] /\ \A s \in 1..(t - 1) : p[s] <= q[s]

\* What the room for code v was before and will not be again.
RoomsAbove(v) == {q \in AllRooms : Above(Room(v), q)}

\* Each answered guess takes the room further down the dictionary, and nothing
\* takes it up.
RoomInv ==
    /\ guesses \in [VerId -> Nat]
    /\ \A v \in VerId : guesses[v] <= Cardinality(RoomsAbove(v))
    /\ \A k \in Call : calls[k].pc \in Verifying =>
          calls[k].row.attempt_count >= 1 /\ calls[k].status = NULL
=============================================================================
