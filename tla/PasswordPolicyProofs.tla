------------------------ MODULE PasswordPolicyProofs ------------------------
(* Proofs about PasswordPolicy, for passwords of any length and any minimum. *)
EXTENDS PasswordPolicy, FiniteSetTheorems, TLAPS

\* The flags that are set are the kinds of the bytes the loop has gone through.
FoundSoFar == found = {KindOf(password[n]) : n \in 1..i}

\* The verdict has been taken on all the bytes, or on the length alone.
DecidedOnAll ==
    \/ result = NULL
    \/ result = "TooShort" /\ TooShort
    \/ result = Verdict /\ ~TooShort /\ i = Len(password)

Inv == TypeOK /\ FoundSoFar /\ DecidedOnAll

LEMMA KindOfType == \A b \in Byte : KindOf(b) \in Kind
  BY DEF Byte, Kind, KindOf

LEMMA VerdictType == Verdict \in Error \cup {"Ok"} /\ Verdict # "TooShort"
  BY DEF Verdict, Error

LEMMA InitInv ==
    ASSUME PasswordAssumption
    PROVE  Init => Inv
  <1> SUFFICES ASSUME Init PROVE Inv
    OBVIOUS
  <1>1. password \in Seq(Byte) /\ Len(password) \in Nat
    BY DEF PasswordAssumption, Init
  <1>2. TypeOK
    BY <1>1 DEF Init, TypeOK
  <1>3. FoundSoFar /\ DecidedOnAll
    BY DEF Init, FoundSoFar, DecidedOnAll
  <1> QED
    BY <1>2, <1>3 DEF Inv

LEMMA ScanInv == Inv /\ Scan => Inv'
  <1> SUFFICES ASSUME Inv, Scan PROVE Inv'
    OBVIOUS
  <1> USE DEF Inv
  <1>1. /\ password \in Seq(Byte) /\ i \in Nat /\ Len(password) \in Nat
        /\ i + 1 \in 1..Len(password) /\ UNCHANGED <<password, result>>
    BY DEF TypeOK, Scan
  <1>2. password[i + 1] \in Byte
    BY <1>1
  <1>3. TypeOK'
    BY <1>1, <1>2, KindOfType DEF TypeOK, Scan
  <1>4. FoundSoFar'
    <2>1. 1..(i + 1) = 1..i \cup {i + 1}
      BY <1>1
    <2>2. {KindOf(password[n]) : n \in 1..(i + 1)}
            = {KindOf(password[n]) : n \in 1..i} \cup {KindOf(password[i + 1])}
      BY <2>1
    <2> QED
      BY <1>1, <2>2 DEF FoundSoFar, Scan
  <1>5. DecidedOnAll'
    BY <1>1 DEF DecidedOnAll, Scan
  <1> QED
    BY <1>3, <1>4, <1>5

LEMMA StepInv == Inv /\ [Next]_vars => Inv'
  <1> SUFFICES ASSUME Inv, [Next]_vars PROVE Inv'
    OBVIOUS
  <1> USE DEF Inv
  <1>1. CASE CheckLength
    BY <1>1 DEF CheckLength, TypeOK, FoundSoFar, DecidedOnAll, TooShort, Error
  <1>2. CASE Scan
    BY <1>2, ScanInv
  <1>3. CASE Decide
    <2>1. /\ UNCHANGED <<password, i, found>> /\ result' = Verdict
          /\ ~TooShort /\ i = Len(password)
      BY <1>3 DEF Decide
    <2>2. TypeOK'
      BY <2>1, VerdictType DEF TypeOK
    <2>3. FoundSoFar' /\ DecidedOnAll'
      BY <2>1 DEF FoundSoFar, DecidedOnAll, Verdict, TooShort
    <2> QED
      BY <2>2, <2>3
  <1>4. CASE UNCHANGED vars
    BY <1>4 DEF vars, TypeOK, FoundSoFar, DecidedOnAll, Verdict, TooShort
  <1> QED
    BY <1>1, <1>2, <1>3, <1>4 DEF Next

\* Every reachable state is well typed.
THEOREM TypeCorrect ==
    ASSUME PasswordAssumption
    PROVE  Spec => []TypeOK
  <1>1. Inv => TypeOK
    BY DEF Inv
  <1> QED
    BY InitInv, StepInv, <1>1, PTL DEF Spec

-----------------------------------------------------------------------------
(* The verdict                                                             *)

\* What the loop has found on all the bytes decides which demands are met.
LEMMA KindsAreDemands ==
    ASSUME TypeOK, FoundSoFar, i = Len(password)
    PROVE  /\ "lower" \in found <=> Has({"lower"})
           /\ "upper" \in found <=> Has({"upper"})
           /\ "digit" \in found <=> Has({"digit"})
           /\ "special" \in found <=> Has({"symbol", "lead", "cont"})
  <1>1. \A n \in 1..i : password[n] \in Byte
    BY DEF TypeOK
  <1>2. \A k : k \in found <=> \E n \in 1..i : KindOf(password[n]) = k
    BY DEF FoundSoFar
  <1>3. \A b \in Byte : /\ KindOf(b) = "lower" <=> b \in {"lower"}
                        /\ KindOf(b) = "upper" <=> b \in {"upper"}
                        /\ KindOf(b) = "digit" <=> b \in {"digit"}
                        /\ KindOf(b) = "special" <=> b \in {"symbol", "lead", "cont"}
    BY DEF KindOf, Byte
  <1>4. \A n \in 1..i :
            /\ KindOf(password[n]) = "lower" <=> password[n] \in {"lower"}
            /\ KindOf(password[n]) = "upper" <=> password[n] \in {"upper"}
            /\ KindOf(password[n]) = "digit" <=> password[n] \in {"digit"}
            /\ KindOf(password[n]) = "special" <=> password[n] \in {"symbol", "lead", "cont"}
    BY <1>1, <1>3
  <1> QED
    BY <1>2, <1>4 DEF Has

\* There are as many characters as bytes at most, and as many without a byte that
\* continues one.
LEMMA CharactersAreBytes ==
    ASSUME TypeOK
    PROVE  /\ Characters \in Nat /\ Characters <= Len(password)
           /\ Has({"cont"}) \/ Characters = Len(password)
  <1> DEFINE bytes == 1..Len(password)
             first == {n \in bytes : password[n] # "cont"}
  <1>1. Len(password) \in Nat /\ first \subseteq bytes
    BY DEF TypeOK
  <1>2. IsFiniteSet(bytes) /\ Cardinality(bytes) = Len(password)
    <2> DEFINE n == Len(password)
    <2>1. n \in Nat /\ 1 \in Int /\ n \in Int
      BY <1>1
    <2> HIDE DEF n
    <2>2. /\ IsFiniteSet(1..n)
          /\ Cardinality(1..n) = IF 1 > n THEN 0 ELSE n - 1 + 1
      BY <2>1, FS_Interval
    <2>3. Cardinality(1..n) = n
      BY <2>1, <2>2
    <2> QED
      BY <2>2, <2>3 DEF n
  <1>3. Cardinality(first) \in Nat /\ Cardinality(first) <= Cardinality(bytes)
    BY <1>1, <1>2, FS_Subset, FS_CardinalityType
  <1>4. Has({"cont"}) \/ first = bytes
    BY DEF Has
  <1> QED
    BY <1>2, <1>3, <1>4 DEF Characters

LEMMA InvVerdict ==
    ASSUME PasswordAssumption
    PROVE  Inv => VerdictIsRight
  <1> SUFFICES ASSUME Inv PROVE VerdictIsRight
    OBVIOUS
  <1> USE DEF Inv
  <1>1. Len(password) \in Nat /\ MinLength \in Nat /\ NULL \notin Error /\ NULL # "Ok"
    BY DEF PasswordAssumption, TypeOK
  <1>2. CASE result = NULL
    BY <1>1, <1>2 DEF VerdictIsRight
  <1>3. CASE result = "TooShort" /\ TooShort
    <2>1. Demand[result] = (Characters >= MinLength)
      BY <1>3 DEF Demand
    <2>2. ~(Characters >= MinLength)
      BY <1>1, <1>3, CharactersAreBytes DEF TooShort
    <2> QED
      BY <1>3, <2>1, <2>2 DEF VerdictIsRight
  <1>4. CASE result = Verdict /\ ~TooShort /\ i = Len(password)
    <2>1. /\ "lower" \in found <=> Demand.MissingLowercase
          /\ "upper" \in found <=> Demand.MissingUppercase
          /\ "digit" \in found <=> Demand.MissingDigit
          /\ "special" \in found <=> Demand.MissingSpecialChar
      BY <1>4, KindsAreDemands DEF Demand
    <2>2. Demand.TooShort \/ Has({"cont"})
      <3>1. Demand.TooShort = (Characters >= MinLength)
        BY Zenon DEF Demand
      <3>2. Characters >= MinLength \/ Has({"cont"})
        BY <1>1, <1>4, CharactersAreBytes DEF TooShort
      <3> QED
        BY <3>1, <3>2
    <2>3. result = "Ok" =>
             \A e \in Error : Demand[e] \/ (e = "TooShort" /\ Has({"cont"}))
      <3>1. result = "Ok" => {"lower", "upper", "digit", "special"} \subseteq found
        BY <1>4 DEF Verdict
      <3> QED
        BY <2>1, <2>2, <3>1 DEF Error
    <2>4. result \in Error => ~Demand[result]
      BY <1>4, <2>1 DEF Verdict, Error
    <2> QED
      BY <2>3, <2>4 DEF VerdictIsRight
  <1> QED
    BY <1>2, <1>3, <1>4 DEF DecidedOnAll

\* An error of validate_password is true of the password, and what it accepts meets
\* its demands, except for the length when there are characters outside ASCII: for
\* every input and every minimum.
THEOREM VerdictCorrect ==
    ASSUME PasswordAssumption
    PROVE  Spec => []VerdictIsRight
  BY InitInv, StepInv, InvVerdict, PTL DEF Spec
=============================================================================
