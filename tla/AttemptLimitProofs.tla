------------------------- MODULE AttemptLimitProofs -------------------------
(* How many wrong guesses on one code are answered, for any number of      *)
(* calls.  What the calls can still store as the attempt_count of a code   *)
(* makes a function, its Room.  Each answered guess takes the Room further *)
(* down in the order of a dictionary and no other step takes it up, so the *)
(* guesses are fewer than the Rooms there are, which a binomial counts.    *)
EXTENDS AuthServiceProofs, AttemptInvariant, FiniteSetTheorems, FunctionTheorems,
        WellFoundedInduction

-----------------------------------------------------------------------------
(* Induction over the naturals                                             *)

\* The principle of the least element, as WFMin gives it.
LEMMA LeastElement ==
    ASSUME NEW S \in SUBSET Nat, S # {}
    PROVE  \E n \in S : \A m \in S : n <= m
  <1> DEFINE R == {ss \in Nat \X Nat : ss[1] < ss[2]}
  <1>1. IsWellFoundedOn(R, Nat)
    BY NatLessThanWellFounded, Zenon DEF OpToRel
  <1> HIDE DEF R
  <1>2. PICK n \in S : \A m \in S : ~(<<m, n>> \in R)
    BY <1>1, WFMin
  <1>3. \A m \in S : ~(m < n)
    BY <1>2 DEF R
  <1> QED
    BY <1>3

\* Induction for a set in place of a predicate.
LEMMA SetInduction ==
    ASSUME NEW S, 0 \in S, \A n \in Nat : n \in S => n + 1 \in S
    PROVE  Nat \subseteq S
  <1> DEFINE T == {n \in Nat : n \notin S}
  <1> SUFFICES ASSUME T # {} PROVE FALSE
    OBVIOUS
  <1>1. PICK n \in T : \A m \in T : n <= m
    <2>1. T \in SUBSET Nat
      OBVIOUS
    <2> HIDE DEF T
    <2> QED
    BY <2>1, LeastElement
  <1>2. n # 0 /\ n - 1 \in Nat
    OBVIOUS
  <1>3. n - 1 \in S
    BY <1>1, <1>2
  <1> QED
    BY <1>2, <1>3

-----------------------------------------------------------------------------
(* factorial                                                               *)

\* The recursive definition of factorial has a solution: the finite tables of its
\* values agree with each other, and together make up the function.
Table(n, g) == g \in [0..n -> Nat] /\ g[0] = 1 /\ \A i \in 1..n : g[i] = i * g[i - 1]

LEMMA TablesExist == \A n \in Nat : \E g : Table(n, g)
  <1> DEFINE S == {n \in Nat : \E g : Table(n, g)}
  <1>1. 0 \in S
    <2>1. Table(0, [i \in 0..0 |-> 1])
      BY DEF Table
    <2> QED
      BY <2>1
  <1>2. ASSUME NEW n \in Nat, n \in S PROVE n + 1 \in S
    <2>1. PICK g : Table(n, g)
      BY <1>2
    <2> DEFINE h == [i \in 0..(n + 1) |-> IF i = n + 1 THEN (n + 1) * g[n] ELSE g[i]]
    <2>2. g[n] \in Nat /\ (n + 1) * g[n] \in Nat
      BY <2>1 DEF Table
    <2>3. h \in [0..(n + 1) -> Nat]
      BY <2>1, <2>2 DEF Table
    <2>4. h[0] = 1 /\ h[n + 1] = (n + 1) * g[n] /\ \A i \in 0..n : h[i] = g[i]
      BY <2>1 DEF Table
    <2> HIDE DEF h
    <2>5. ASSUME NEW i \in 1..(n + 1) PROVE h[i] = i * h[i - 1]
      <3>1. CASE i = n + 1
        BY <2>4, <3>1
      <3>2. CASE i # n + 1
        <4>1. i \in 1..n /\ i - 1 \in 0..n
          BY <3>2
        <4>2. g[i] = i * g[i - 1]
          BY <2>1, <4>1 DEF Table
        <4> QED
          BY <2>4, <4>1, <4>2
      <3> QED
        BY <3>1, <3>2
    <2>6. Table(n + 1, h)
      BY <2>3, <2>4, <2>5 DEF Table
    <2> QED
      BY <2>6
  <1> HIDE DEF S
  <1>3. Nat \subseteq S
    BY <1>1, <1>2, SetInduction
  <1> QED
    BY <1>3 DEF S

LEMMA TablesAgree ==
    ASSUME NEW n \in Nat, NEW m \in Nat, NEW g, NEW h, Table(n, g), Table(m, h)
    PROVE  \A i \in Nat : i <= n /\ i <= m => g[i] = h[i]
  <1> DEFINE S == {i \in Nat : i <= n /\ i <= m => g[i] = h[i]}
  <1>1. 0 \in S
    BY DEF Table
  <1>2. ASSUME NEW i \in Nat, i \in S PROVE i + 1 \in S
    <2> SUFFICES ASSUME i + 1 <= n, i + 1 <= m PROVE g[i + 1] = h[i + 1]
      OBVIOUS
    <2>1. g[i] = h[i] /\ i + 1 \in 1..n /\ i + 1 \in 1..m /\ (i + 1) - 1 = i
      BY <1>2
    <2>2. g[i + 1] = (i + 1) * g[i] /\ h[i + 1] = (i + 1) * h[i]
      BY <2>1 DEF Table
    <2> QED
      BY <2>1, <2>2
  <1> HIDE DEF S
  <1>3. Nat \subseteq S
    BY <1>1, <1>2, SetInduction
  <1> QED
    BY <1>3 DEF S

LEMMA FactorialSolution ==
    \E f : f = [n \in Nat |-> IF n = 0 THEN 1 ELSE n * f[n - 1]]
  <1> DEFINE G(n) == CHOOSE g : Table(n, g)
             f == [n \in Nat |-> G(n)[n]]
  <1>1. \A n \in Nat : Table(n, G(n))
    BY TablesExist
  <1> HIDE DEF G
  <1>2. \A n \in Nat : f[n] = G(n)[n]
    OBVIOUS
  <1>3. DOMAIN f = Nat /\ f = [n \in Nat |-> f[n]]
    OBVIOUS
  <1> HIDE DEF f
  <1>4. f[0] = 1
    BY <1>1, <1>2 DEF Table
  <1>5. ASSUME NEW n \in Nat, n # 0 PROVE f[n] = n * f[n - 1]
    <2>1. n - 1 \in Nat /\ n - 1 <= n /\ n \in 1..n
      BY <1>5
    <2>2. G(n)[n] = n * G(n)[n - 1]
      BY <1>1, <2>1 DEF Table
    <2>3. G(n)[n - 1] = G(n - 1)[n - 1]
      BY <1>1, <2>1, TablesAgree
    <2> QED
      BY <1>2, <2>1, <2>2, <2>3
  <1>6. \A n \in Nat : f[n] = IF n = 0 THEN 1 ELSE n * f[n - 1]
    BY <1>4, <1>5
  <1>7. f = [n \in Nat |-> IF n = 0 THEN 1 ELSE n * f[n - 1]]
    BY <1>3, <1>6
  <1> QED
    BY <1>7

LEMMA FactorialDef ==
    /\ factorial[0] = 1
    /\ \A n \in Nat : factorial[n + 1] = (n + 1) * factorial[n]
  <1>1. factorial = [n \in Nat |-> IF n = 0 THEN 1 ELSE n * factorial[n - 1]]
    BY FactorialSolution DEF factorial
  <1>2. \A n \in Nat : factorial[n] = IF n = 0 THEN 1 ELSE n * factorial[n - 1]
    BY <1>1
  <1> QED
    BY <1>2

LEMMA FactorialPositive == \A n \in Nat : factorial[n] \in Nat /\ factorial[n] > 0
  <1> DEFINE S == {n \in Nat : factorial[n] \in Nat /\ factorial[n] > 0}
  <1>1. 0 \in S
    BY FactorialDef
  <1>2. ASSUME NEW n \in Nat, n \in S PROVE n + 1 \in S
    <2>1. factorial[n + 1] = (n + 1) * factorial[n]
      BY FactorialDef
    <2>2. PICK x \in Nat : x = factorial[n] /\ x > 0
      BY <1>2
    <2>3. (n + 1) * x \in Nat /\ (n + 1) * x > 0
      BY <2>2
    <2> QED
      BY <2>1, <2>2, <2>3
  <1> HIDE DEF S
  <1>3. Nat \subseteq S
    BY <1>1, <1>2, SetInduction
  <1> QED
    BY <1>3 DEF S

-----------------------------------------------------------------------------
(* How many stairs there are                                               *)

LEMMA StairsWithoutSteps ==
    ASSUME NEW n \in Nat
    PROVE  IsFiniteSet(Stairs(0, n)) /\ Cardinality(Stairs(0, n)) = 1
  <1> DEFINE none == [i \in 1..0 |-> 0]
  <1>1. Stairs(0, n) = {none}
    <2>1. ASSUME NEW f \in Stairs(0, n) PROVE f = none
      <3>1. f = [i \in 1..0 |-> f[i]] /\ 1..0 = {}
        BY DEF Stairs
      <3> QED
        BY <3>1
    <2>2. none \in Stairs(0, n)
      BY DEF Stairs
    <2> QED
      BY <2>1, <2>2
  <1> QED
    BY <1>1, FS_Singleton

LEMMA StairsOfNoHeight ==
    ASSUME NEW m \in Nat
    PROVE  IsFiniteSet(Stairs(m, 0)) /\ Cardinality(Stairs(m, 0)) = 1
  <1> DEFINE flat == [i \in 1..m |-> 0]
  <1>1. Stairs(m, 0) = {flat}
    <2>1. ASSUME NEW f \in Stairs(m, 0) PROVE f = flat
      <3>1. f = [i \in 1..m |-> f[i]] /\ \A i \in 1..m : f[i] = 0
        BY DEF Stairs
      <3> QED
        BY <3>1
    <2>2. flat \in Stairs(m, 0)
      BY DEF Stairs
    <2> QED
      BY <2>1, <2>2
  <1> QED
    BY <1>1, FS_Singleton

\* The stairs that end at the top are those of one step less.
LEMMA StairsToTheTop ==
    ASSUME NEW m \in Nat, NEW n \in Nat, IsFiniteSet(Stairs(m, n))
    PROVE  LET top == {f \in Stairs(m + 1, n) : f[m + 1] = n}
           IN  IsFiniteSet(top) /\ Cardinality(top) = Cardinality(Stairs(m, n))
  <1> DEFINE top == {f \in Stairs(m + 1, n) : f[m + 1] = n}
             Raise(f) == [i \in 1..(m + 1) |-> IF i = m + 1 THEN n ELSE f[i]]
             raise == [f \in Stairs(m, n) |-> Raise(f)]
  <1>1. ASSUME NEW f \in Stairs(m, n) PROVE Raise(f) \in top
    <2>1. f \in [1..m -> 0..n] /\ \A i, j \in 1..m : i <= j => f[i] <= f[j]
      BY DEF Stairs
    <2>2. Raise(f) \in [1..(m + 1) -> 0..n] /\ Raise(f)[m + 1] = n
      BY <2>1
    <2>3. ASSUME NEW i \in 1..(m + 1), NEW j \in 1..(m + 1), i <= j
          PROVE  Raise(f)[i] <= Raise(f)[j]
      BY <2>1, <2>3
    <2> QED
      BY <2>2, <2>3 DEF Stairs
  <1>2. ASSUME NEW f \in Stairs(m, n), NEW g \in Stairs(m, n), Raise(f) = Raise(g)
        PROVE  f = g
    <2>1. f \in [1..m -> 0..n] /\ g \in [1..m -> 0..n]
      BY DEF Stairs
    <2>2. ASSUME NEW i \in 1..m PROVE f[i] = g[i]
      <3>1. i \in 1..(m + 1) /\ i # m + 1
        OBVIOUS
      <3>2. Raise(f)[i] = f[i] /\ Raise(g)[i] = g[i]
        BY <3>1
      <3> QED
        BY <1>2, <3>2
    <2> QED
      BY <2>1, <2>2
  <1>3. ASSUME NEW t \in top PROVE \E f \in Stairs(m, n) : Raise(f) = t
    <2> DEFINE f == [i \in 1..m |-> t[i]]
    <2>1. /\ t \in [1..(m + 1) -> 0..n] /\ t[m + 1] = n
          /\ \A i, j \in 1..(m + 1) : i <= j => t[i] <= t[j]
      BY DEF Stairs
    <2>2. f \in Stairs(m, n)
      BY <2>1 DEF Stairs
    <2>3. Raise(f) = [i \in 1..(m + 1) |-> t[i]]
      BY <2>1
    <2>4. Raise(f) = t
      BY <2>1, <2>3
    <2> QED
      BY <2>2, <2>4
  <1>4. raise \in [Stairs(m, n) -> top] /\ \A f \in Stairs(m, n) : raise[f] = Raise(f)
    BY <1>1
  <1> HIDE DEF top, Raise, raise
  <1>5. raise \in Bijection(Stairs(m, n), top)
    <2>1. \A t \in top : \E f \in Stairs(m, n) : raise[f] = t
      BY <1>3, <1>4
    <2>2. \A f, g \in Stairs(m, n) : raise[f] = raise[g] => f = g
      BY <1>2, <1>4
    <2> QED
      BY <1>4, <2>1, <2>2 DEF Bijection, Injection, Surjection, IsInjective
  <1>6. ExistsBijection(Stairs(m, n), top)
    BY <1>5 DEF ExistsBijection
  <1> QED
    BY <1>6, FS_Bijection DEF top

\* Pascal's rule.
LEMMA StairsRule ==
    ASSUME NEW m \in Nat, NEW n \in Nat,
           IsFiniteSet(Stairs(m, n + 1)), IsFiniteSet(Stairs(m + 1, n))
    PROVE  /\ IsFiniteSet(Stairs(m + 1, n + 1))
           /\ Cardinality(Stairs(m + 1, n + 1))
                 = Cardinality(Stairs(m, n + 1)) + Cardinality(Stairs(m + 1, n))
  <1> DEFINE top == {f \in Stairs(m + 1, n + 1) : f[m + 1] = n + 1}
  <1>1. IsFiniteSet(top) /\ Cardinality(top) = Cardinality(Stairs(m, n + 1))
    BY StairsToTheTop
  <1>2. Stairs(m + 1, n + 1) \subseteq top \cup Stairs(m + 1, n)
    <2> SUFFICES ASSUME NEW f \in Stairs(m + 1, n + 1), f[m + 1] # n + 1
                 PROVE  f \in Stairs(m + 1, n)
      OBVIOUS
    <2>1. /\ f \in [1..(m + 1) -> 0..(n + 1)] /\ m + 1 \in 1..(m + 1)
          /\ \A i, j \in 1..(m + 1) : i <= j => f[i] <= f[j]
      BY DEF Stairs
    <2>2. \A i \in 1..(m + 1) : f[i] \in 0..n
      BY <2>1
    <2>3. f \in [1..(m + 1) -> 0..n]
      BY <2>1, <2>2
    <2> QED
      BY <2>1, <2>3 DEF Stairs
  <1>3. Stairs(m + 1, n) \subseteq Stairs(m + 1, n + 1)
    BY DEF Stairs
  <1>4. top \cap Stairs(m + 1, n) = {}
    BY DEF Stairs
  <1>5. Stairs(m + 1, n + 1) = top \cup Stairs(m + 1, n)
    BY <1>2, <1>3
  <1> HIDE DEF top
  <1>6. /\ IsFiniteSet(Stairs(m + 1, n + 1))
        /\ Cardinality(Stairs(m + 1, n + 1))
              = Cardinality(top) + Cardinality(Stairs(m + 1, n)) - Cardinality({})
    <2> DEFINE low == Stairs(m + 1, n)
    <2>1. IsFiniteSet(low) /\ top \cap low = {} /\ Stairs(m + 1, n + 1) = top \cup low
      BY <1>4, <1>5
    <2> HIDE DEF low
    <2>2. /\ IsFiniteSet(top \cup low)
          /\ Cardinality(top \cup low)
                = Cardinality(top) + Cardinality(low) - Cardinality(top \cap low)
      BY <1>1, <2>1, FS_Union
    <2> QED
      BY <2>1, <2>2 DEF low
  <1>7. Cardinality(Stairs(m, n + 1)) \in Nat /\ Cardinality(Stairs(m + 1, n)) \in Nat
    BY FS_CardinalityType
  <1> QED
    BY <1>1, <1>6, <1>7, FS_EmptySet

\* What is to be shown of a set of stairs: how many there are.
Counted(m, n) ==
    /\ IsFiniteSet(Stairs(m, n))
    /\ Cardinality(Stairs(m, n)) * (factorial[m] * factorial[n]) = factorial[m + n]

LEMMA CountingStep ==
    ASSUME NEW m \in Nat, NEW n \in Nat, Counted(m, n + 1), Counted(m + 1, n)
    PROVE  Counted(m + 1, n + 1)
  <1>1. PICK x \in Nat, y \in Nat, fm \in Nat, fn \in Nat, f \in Nat :
           /\ x = Cardinality(Stairs(m, n + 1)) /\ y = Cardinality(Stairs(m + 1, n))
           /\ fm = factorial[m] /\ fn = factorial[n] /\ f = factorial[m + n + 1]
    <2>1. Cardinality(Stairs(m, n + 1)) \in Nat /\ Cardinality(Stairs(m + 1, n)) \in Nat
      BY FS_CardinalityType DEF Counted
    <2>2. m + n + 1 \in Nat
      OBVIOUS
    <2>3. factorial[m] \in Nat /\ factorial[n] \in Nat /\ factorial[m + n + 1] \in Nat
      BY <2>2, FactorialPositive
    <2> QED
      BY <2>1, <2>3
  <1>2. /\ factorial[m + 1] = (m + 1) * fm /\ factorial[n + 1] = (n + 1) * fn
        /\ factorial[(m + 1) + (n + 1)] = (m + n + 2) * f
    <2>1. (m + n + 1) + 1 = (m + 1) + (n + 1) /\ m + n + 1 \in Nat
      OBVIOUS
    <2> QED
      BY <1>1, <2>1, FactorialDef
  <1>3. m + (n + 1) = m + n + 1 /\ (m + 1) + n = m + n + 1
    OBVIOUS
  <1>4. x * (fm * ((n + 1) * fn)) = f /\ y * (((m + 1) * fm) * fn) = f
    BY <1>1, <1>2, <1>3 DEF Counted
  <1>5. /\ IsFiniteSet(Stairs(m + 1, n + 1))
        /\ Cardinality(Stairs(m + 1, n + 1)) = x + y
    BY <1>1, StairsRule DEF Counted
  <1>6. (x + y) * (((m + 1) * fm) * ((n + 1) * fn))
           = (m + 1) * (x * (fm * ((n + 1) * fn))) + (n + 1) * (y * (((m + 1) * fm) * fn))
    OBVIOUS
  <1>7. (x + y) * (((m + 1) * fm) * ((n + 1) * fn)) = (m + n + 2) * f
    BY <1>4, <1>6
  <1> QED
    BY <1>2, <1>5, <1>7 DEF Counted

LEMMA CountingBase ==
    ASSUME NEW n \in Nat
    PROVE  Counted(0, n) /\ Counted(n, 0)
  <1>1. PICK f \in Nat : f = factorial[n]
    BY FactorialPositive
  <1>2. 1 * (1 * f) = f /\ 1 * (f * 1) = f /\ 0 + n = n /\ n + 0 = n
    OBVIOUS
  <1> QED
    BY <1>1, <1>2, FactorialDef, StairsWithoutSteps, StairsOfNoHeight DEF Counted

LEMMA StairsCounted == \A m, n \in Nat : Counted(m, n)
  <1> DEFINE S == {m \in Nat : \A n \in Nat : Counted(m, n)}
  <1>1. 0 \in S
    BY CountingBase
  <1>2. ASSUME NEW m \in Nat, m \in S PROVE m + 1 \in S
    <2> DEFINE T == {n \in Nat : Counted(m + 1, n)}
    <2>1. 0 \in T
      BY CountingBase
    <2>2. ASSUME NEW n \in Nat, n \in T PROVE n + 1 \in T
      BY <1>2, <2>2, CountingStep
    <2> HIDE DEF T
    <2>3. Nat \subseteq T
      BY <2>1, <2>2, SetInduction
    <2> QED
      BY <2>3 DEF T
  <1> HIDE DEF S
  <1>3. Nat \subseteq S
    BY <1>1, <1>2, SetInduction
  <1> QED
    BY <1>3 DEF S

\* There are as many stairs as the binomial of m + n over m says.
LEMMA StairsBinomial ==
    ASSUME NEW m \in Nat, NEW n \in Nat
    PROVE  IsFiniteSet(Stairs(m, n)) /\ Cardinality(Stairs(m, n)) = choose(m + n, m)
  <1>1. Counted(m, n)
    BY StairsCounted
  <1>2. PICK x \in Nat, fm \in Nat, fn \in Nat :
           /\ x = Cardinality(Stairs(m, n))
           /\ fm = factorial[m] /\ fn = factorial[n] /\ fm > 0 /\ fn > 0
    BY <1>1, FactorialPositive, FS_CardinalityType DEF Counted
  <1>3. (m + n) - m = n
    OBVIOUS
  <1>4. fm * fn \in Nat /\ fm * fn > 0
    BY <1>2
  <1>5. PICK d \in Nat : d = fm * fn /\ d > 0
    BY <1>4
  <1>6. (x * d) \div d = x
    BY <1>5
  <1> QED
    BY <1>1, <1>2, <1>3, <1>5, <1>6 DEF Counted, choose

-----------------------------------------------------------------------------
(* The order of the Rooms                                                  *)

LEMMA BoundIsNat == MaxAttempts \in Nat /\ I32Max \in Nat /\ MaxAttempts < I32Max
  BY ConstantsAssumption

LEMMA AboveIrreflexive ==
    ASSUME NEW p \in [1..MaxAttempts -> Int]
    PROVE  ~Above(p, p)
  BY DEF Above

LEMMA AboveTransitive ==
    ASSUME NEW p \in [1..MaxAttempts -> Int], NEW q \in [1..MaxAttempts -> Int],
           NEW r \in [1..MaxAttempts -> Int],
           Above(p, q) \/ \A t \in 1..MaxAttempts : p[t] <= q[t],
           Above(q, r)
    PROVE  Above(p, r)
  <1>1. PICK t \in 1..MaxAttempts : q[t] < r[t] /\ \A s \in 1..(t - 1) : q[s] <= r[s]
    BY DEF Above
  <1>2. CASE \A u \in 1..MaxAttempts : p[u] <= q[u]
    <2>1. p[t] < r[t]
      BY <1>1, <1>2
    <2>2. ASSUME NEW s \in 1..(t - 1) PROVE p[s] <= r[s]
      BY <1>1, <1>2, BoundIsNat
    <2> QED
      BY <2>1, <2>2 DEF Above
  <1>3. CASE Above(p, q)
    <2>1. PICK u \in 1..MaxAttempts : p[u] < q[u] /\ \A s \in 1..(u - 1) : p[s] <= q[s]
      BY <1>3 DEF Above
    <2> DEFINE m == IF u <= t THEN u ELSE t
    <2>2. m \in 1..MaxAttempts /\ p[m] < r[m]
      BY <1>1, <2>1
    <2>3. ASSUME NEW s \in 1..(m - 1) PROVE p[s] <= r[s]
      <3>1. s \in 1..(u - 1) /\ s \in 1..(t - 1) /\ s \in 1..MaxAttempts
        BY BoundIsNat
      <3> QED
        BY <1>1, <2>1, <3>1
    <2> HIDE DEF m
    <2> QED
      BY <2>2, <2>3 DEF Above
  <1> QED
    BY <1>2, <1>3

-----------------------------------------------------------------------------
(* The Room of a state                                                     *)

\* The copy that a verify_email call holds is a row of the table's type.
LEMMA HeldRow ==
    ASSUME Inv, NEW k \in Call, calls[k].pc \in Verifying
    PROVE  /\ calls[k] \in CallState /\ calls[k].ver \in VerId
           /\ verifications[calls[k].ver] # NULL
           /\ calls[k].row \in Verification /\ calls[k].row.attempt_count \in Nat
  BY ConstantsAssumption
     DEF Verifying, Inv, TypeInv, TypeOK, CallsKnow, CallKnows, CopyOf, Verification

LEMMA CountIsNat ==
    ASSUME Inv, NEW v \in VerId
    PROVE  Count(v) \in 0..I32Max
  BY ConstantsAssumption DEF Count, Inv, TypeInv, TypeOK, Verification

LEMMA RoomType ==
    ASSUME Inv, IsFiniteSet(Call), NEW v \in VerId
    PROVE  Room(v) \in AllRooms /\ Room(v) \in [1..MaxAttempts -> Int]
  <1> DEFINE N == Cardinality(Call)
  <1>1. N \in Nat
    BY FS_CardinalityType
  <1>2. ASSUME NEW t \in 1..MaxAttempts
        PROVE  IsFiniteSet(CanStore(v, t)) /\ Cardinality(CanStore(v, t)) \in 0..N
    <2>1. CanStore(v, t) \in SUBSET Call
      BY DEF CanStore
    <2> QED
      BY <1>1, <2>1, FS_Subset, FS_CardinalityType
  <1>3. ASSUME NEW i \in 1..MaxAttempts, NEW j \in 1..MaxAttempts, i <= j
        PROVE  Cardinality(CanStore(v, i)) <= Cardinality(CanStore(v, j))
    <2>1. Count(v) \in Int /\ \A k \in Call : Holds(k, v) => calls[k].row.attempt_count \in Int
      BY CountIsNat, HeldRow DEF Holds
    <2>2. CanStore(v, i) \in SUBSET CanStore(v, j)
      BY <1>3, <2>1 DEF CanStore
    <2> QED
      BY <1>2, <2>2, FS_Subset
  <1> HIDE DEF N
  <1>4. Room(v) \in [1..MaxAttempts -> 0..N]
    BY <1>2 DEF Room
  <1>5. Room(v) \in Stairs(MaxAttempts, N)
    BY <1>3, <1>4 DEF Stairs, Room
  <1>6. 0..N \subseteq Int
    BY <1>1
  <1> QED
    BY <1>4, <1>5, <1>6 DEF AllRooms, N

LEMMA NextRoomType ==
    ASSUME IsFiniteSet(Call), NEW v \in VerId
    PROVE  Room(v)' \in [1..MaxAttempts -> Int]
  <1>1. ASSUME NEW t \in 1..MaxAttempts PROVE Cardinality(CanStore(v, t)') \in Int
    <2>1. CanStore(v, t)' \in SUBSET Call
      BY DEF CanStore
    <2>2. IsFiniteSet(CanStore(v, t)')
      BY <2>1, FS_Subset
    <2> QED
      BY <2>2, FS_CardinalityType
  <1> QED
    BY <1>1 DEF Room

LEMMA AllRoomsCounted ==
    ASSUME IsFiniteSet(Call)
    PROVE  /\ IsFiniteSet(AllRooms)
           /\ Cardinality(AllRooms) = choose(MaxAttempts + Cardinality(Call), MaxAttempts)
  BY StairsBinomial, BoundIsNat, FS_CardinalityType DEF AllRooms

\* The Rooms above that of a state, without that Room itself, are at least one
\* less than all of them.
LEMMA RoomsAboveBounded ==
    ASSUME Inv, IsFiniteSet(Call), NEW v \in VerId
    PROVE  /\ IsFiniteSet(RoomsAbove(v)) /\ Cardinality(RoomsAbove(v)) \in Nat
           /\ Cardinality(RoomsAbove(v)) <= Cardinality(AllRooms) - 1
  <1>1. RoomsAbove(v) \in SUBSET AllRooms
    BY DEF RoomsAbove
  <1>2. IsFiniteSet(AllRooms) /\ IsFiniteSet(RoomsAbove(v))
    BY <1>1, AllRoomsCounted, FS_Subset
  <1>3. Room(v) \in AllRooms /\ Room(v) \notin RoomsAbove(v)
    BY RoomType, AboveIrreflexive DEF RoomsAbove
  <1>4. /\ Cardinality(RoomsAbove(v)) \in Nat /\ Cardinality(AllRooms) \in Nat
        /\ Cardinality(RoomsAbove(v)) <= Cardinality(AllRooms)
        /\ Cardinality(RoomsAbove(v)) # Cardinality(AllRooms)
    BY <1>1, <1>2, <1>3, FS_Subset, FS_CardinalityType
  <1> QED
    BY <1>2, <1>4

-----------------------------------------------------------------------------
(* What a step does to the Room                                            *)

\* The Room of v does not grow in any place.
NoMoreRoom(v) == \A t \in 1..MaxAttempts : Room(v)'[t] <= Room(v)[t]

LEMMA FewerCanStore ==
    ASSUME IsFiniteSet(Call), NEW v \in VerId, NEW t \in 1..MaxAttempts,
           CanStore(v, t)' \subseteq CanStore(v, t)
    PROVE  /\ Room(v)'[t] <= Room(v)[t]
           /\ CanStore(v, t)' # CanStore(v, t) => Room(v)'[t] < Room(v)[t]
  <1>1. CanStore(v, t) \in SUBSET Call /\ CanStore(v, t)' \in SUBSET CanStore(v, t)
    BY DEF CanStore
  <1>2. IsFiniteSet(CanStore(v, t)) /\ IsFiniteSet(CanStore(v, t)')
    BY <1>1, FS_Subset
  <1>3. /\ Cardinality(CanStore(v, t)') \in Nat /\ Cardinality(CanStore(v, t)) \in Nat
        /\ Cardinality(CanStore(v, t)') <= Cardinality(CanStore(v, t))
        /\ Cardinality(CanStore(v, t)) = Cardinality(CanStore(v, t)')
              => CanStore(v, t) = CanStore(v, t)'
    BY <1>1, <1>2, FS_Subset, FS_CardinalityType
  <1>4. /\ Room(v)[t] = Cardinality(CanStore(v, t))
        /\ Room(v)'[t] = Cardinality(CanStore(v, t)')
    BY DEF Room
  <1> QED
    BY <1>3, <1>4

\* A call that writes its copy back, of a count within the limit, takes the
\* Room down: the place of that count loses this call, and no lower place
\* gains one.
LEMMA WritingTakesRoom ==
    ASSUME Inv, IsFiniteSet(Call), NEW k \in Call, NEW v \in VerId, Holds(k, v),
           calls[k].row.attempt_count >= 1,
           Count(v)' = calls[k].row.attempt_count,
           ~Holds(k, v)', \A j \in Call : j # k => calls'[j] = calls[j]
    PROVE  IF calls[k].row.attempt_count <= MaxAttempts THEN Above(Room(v)', Room(v))
                                                        ELSE NoMoreRoom(v)
  <1>1. PICK h \in Nat : h = calls[k].row.attempt_count /\ h >= 1 /\ Count(v)' = h
    BY HeldRow DEF Holds
  <1>2. \A j \in Call : Holds(j, v)' =>
           j # k /\ Holds(j, v) /\ calls'[j].row.attempt_count = calls[j].row.attempt_count
    BY DEF Holds
  <1>3. \A t \in Nat : h <= t => k \in CanStore(v, t)
    BY <1>1 DEF CanStore
  <1>4. ASSUME NEW t \in 1..MaxAttempts, t <= h PROVE CanStore(v, t)' \subseteq CanStore(v, t) \ {k}
    BY <1>1, <1>2, <1>4 DEF CanStore
  <1>5. \A t \in 1..MaxAttempts : t <= h => Room(v)'[t] <= Room(v)[t]
    BY <1>4, FewerCanStore
  <1>6. CASE h <= MaxAttempts
    <2>1. h \in 1..MaxAttempts
      BY <1>1, <1>6, BoundIsNat
    <2>2. CanStore(v, h)' \subseteq CanStore(v, h) /\ CanStore(v, h)' # CanStore(v, h)
      BY <1>1, <1>3, <1>4, <2>1
    <2>3. Room(v)'[h] < Room(v)[h]
      BY <2>1, <2>2, FewerCanStore
    <2>4. \A t \in 1..(h - 1) : Room(v)'[t] <= Room(v)[t]
      BY <1>1, <1>5, <1>6, BoundIsNat
    <2>5. Above(Room(v)', Room(v))
      BY <2>1, <2>3, <2>4 DEF Above
    <2> QED
      BY <1>1, <1>6, <2>5
  <1>7. CASE ~(h <= MaxAttempts)
    <2>1. NoMoreRoom(v)
      BY <1>1, <1>5, <1>7, BoundIsNat DEF NoMoreRoom
    <2> QED
      BY <1>1, <1>7, <2>1
  <1> QED
    BY <1>6, <1>7

\* Nobody who could not store t comes to hold a copy of t or less, and the
\* stored count does not go down: the Room does not grow.
LEMMA KeepingRoom ==
    ASSUME Inv, IsFiniteSet(Call), NEW v \in VerId, NEW n \in Nat, Count(v)' = n, n >= Count(v),
           \A j \in Call : Holds(j, v)' =>
              \/ calls'[j].row.attempt_count = SaturatingInc(Count(v))
              \/ Holds(j, v) /\ calls'[j].row.attempt_count = calls[j].row.attempt_count
    PROVE  NoMoreRoom(v)
  <1> SUFFICES ASSUME NEW t \in 1..MaxAttempts
               PROVE  CanStore(v, t)' \subseteq CanStore(v, t)
    BY FewerCanStore DEF NoMoreRoom
  <1>1. Count(v) \in 0..I32Max
    BY CountIsNat
  <1>2. SaturatingInc(Count(v)) <= t => Count(v) < t
    BY <1>1, BoundIsNat DEF SaturatingInc
  <1> QED
    BY <1>1, <1>2 DEF CanStore

-----------------------------------------------------------------------------
(* The invariant                                                           *)

\* The guesses of one code stay below the Rooms above its own.
LEMMA GuessesStayBelow ==
    ASSUME Inv, RoomInv, IsFiniteSet(Call), NEW v \in VerId,
           \/ guesses'[v] = guesses[v] /\ NoMoreRoom(v)
           \/ guesses'[v] \in {guesses[v], guesses[v] + 1} /\ Above(Room(v)', Room(v))
    PROVE  guesses'[v] \in Nat /\ guesses'[v] <= Cardinality(RoomsAbove(v)')
  <1>1. guesses[v] \in Nat /\ guesses[v] <= Cardinality(RoomsAbove(v))
    BY DEF RoomInv
  <1>2. /\ IsFiniteSet(RoomsAbove(v)) /\ Cardinality(RoomsAbove(v)) \in Nat
        /\ IsFiniteSet(AllRooms)
    BY RoomsAboveBounded, AllRoomsCounted
  <1>3. /\ Room(v)' \in [1..MaxAttempts -> Int]
        /\ Room(v) \in [1..MaxAttempts -> Int] /\ Room(v) \in AllRooms
    BY NextRoomType, RoomType
  <1>4. AllRooms \subseteq [1..MaxAttempts -> Int]
    <2>1. Cardinality(Call) \in Nat
      BY FS_CardinalityType
    <2>2. 0..Cardinality(Call) \subseteq Int
      BY <2>1
    <2> QED
      BY <2>2 DEF AllRooms, Stairs
  <1>5. RoomsAbove(v) \in SUBSET (RoomsAbove(v)')
    <2> SUFFICES ASSUME NEW q \in AllRooms, Above(Room(v), q) PROVE Above(Room(v)', q)
      BY DEF RoomsAbove, AllRooms
    <2>1. Above(Room(v)', Room(v)) \/ \A t \in 1..MaxAttempts : Room(v)'[t] <= Room(v)[t]
      BY DEF NoMoreRoom
    <2> QED
      BY <1>3, <1>4, <2>1, AboveTransitive
  <1>6. IsFiniteSet(RoomsAbove(v)') /\ Cardinality(RoomsAbove(v)') \in Nat
    <2>1. RoomsAbove(v)' \in SUBSET AllRooms
      BY DEF RoomsAbove, AllRooms
    <2> QED
      BY <1>2, <2>1, FS_Subset, FS_CardinalityType
  <1>7. Cardinality(RoomsAbove(v)) <= Cardinality(RoomsAbove(v)')
    BY <1>5, <1>6, FS_Subset
  <1>8. CASE guesses'[v] = guesses[v]
    BY <1>1, <1>2, <1>6, <1>7, <1>8
  <1>9. CASE guesses'[v] = guesses[v] + 1 /\ Above(Room(v)', Room(v))
    <2>1. Room(v) \in RoomsAbove(v)' /\ Room(v) \notin RoomsAbove(v)
      BY <1>3, <1>9, AboveIrreflexive DEF RoomsAbove, AllRooms
    <2>2. Cardinality(RoomsAbove(v)) # Cardinality(RoomsAbove(v)')
      BY <1>5, <1>6, <2>1, FS_Subset
    <2> QED
      BY <1>1, <1>2, <1>6, <1>7, <1>9, <2>2
  <1> QED
    BY <1>8, <1>9

-----------------------------------------------------------------------------
(* The steps                                                               *)

\* A step of call k answers at most the guess of k, and only on its code.
LEMMA OneAnswer ==
    ASSUME RoomInv, GuessNext, NEW k \in Call, \A j \in Call : j # k => calls'[j] = calls[j]
    PROVE  \A v \in VerId :
              guesses'[v] = IF calls[k].ver = v /\ AnswersGuess(k) THEN guesses[v] + 1
                                                                ELSE guesses[v]
  <1>1. ASSUME NEW j \in Call, j # k PROVE ~AnswersGuess(j)
    <2>1. calls[j].pc \in Verifying => calls[j].status = NULL
      BY DEF RoomInv
    <2>2. NULL # "not_found" /\ "verify_reject" \in Verifying
      BY NullAssumption DEF Status, Verifying
    <2> QED
      BY <1>1, <2>1, <2>2 DEF AnswersGuess
  <1> TAKE v \in VerId
  <1> DEFINE answered == {j \in Call : calls[j].ver = v /\ AnswersGuess(j)}
  <1>2. answered = IF calls[k].ver = v /\ AnswersGuess(k) THEN {k} ELSE {}
    BY <1>1
  <1>3. guesses'[v] = guesses[v] + Cardinality(answered) /\ guesses[v] \in Nat
    BY DEF GuessNext, RoomInv
  <1>4. Cardinality({k}) = 1 /\ Cardinality({}) = 0
    BY FS_Singleton, FS_EmptySet
  <1> HIDE DEF answered
  <1>5. CASE calls[k].ver = v /\ AnswersGuess(k)
    BY <1>2, <1>3, <1>4, <1>5
  <1>6. CASE ~(calls[k].ver = v /\ AnswersGuess(k))
    BY <1>2, <1>3, <1>4, <1>6
  <1> QED
    BY <1>5, <1>6

\* A step of one call that writes no copy back: a reply, a move to the next
\* await, a new copy of a row, or a new row.
LEMMA OneCallRoom ==
    ASSUME Inv, RoomInv, GuessNext, IsFiniteSet(Call),
           NEW k \in Call, NEW call, calls' = [calls EXCEPT ![k] = call],
           \A v \in VerId : verifications'[v] # verifications[v] =>
              verifications[v] = NULL /\ verifications'[v] \in Verification,
           \/ /\ call.pc \notin Verifying
              /\ calls[k].pc = "verify_reject" => call.status # "not_found"
           \/ /\ call.pc \in Verifying /\ call.status = NULL
              /\ calls[k].pc # "verify_reject" /\ call.row.attempt_count >= 1
              /\ \A v \in VerId : call.ver = v =>
                    \/ call.row.attempt_count = SaturatingInc(Count(v))
                    \/ Holds(k, v) /\ call.row.attempt_count = calls[k].row.attempt_count
    PROVE  RoomInv'
  <1>1. calls'[k] = call /\ \A j \in Call : j # k => calls'[j] = calls[j]
    BY DEF Inv, TypeInv, TypeOK
  <1>2. ~AnswersGuess(k)
    BY <1>1 DEF AnswersGuess
  <1>3. \A v \in VerId : guesses'[v] = guesses[v]
    BY <1>1, <1>2, OneAnswer
  <1>4. ASSUME NEW v \in VerId PROVE NoMoreRoom(v)
    <2>1. Count(v)' \in Nat /\ Count(v)' >= Count(v)
      <3>1. CASE verifications'[v] = verifications[v]
        BY <3>1, CountIsNat DEF Count
      <3>2. CASE verifications'[v] # verifications[v]
        <4>1. Count(v) = 0 /\ Count(v)' = verifications'[v].attempt_count
          BY <3>2, NullAssumption DEF Count
        <4>2. verifications'[v].attempt_count \in Nat
          BY <3>2, ConstantsAssumption DEF Verification
        <4> QED
          BY <4>1, <4>2
      <3> QED
        BY <3>1, <3>2
    <2>2. PICK n \in Nat : n = Count(v)' /\ n >= Count(v)
      BY <2>1
    <2>3. ASSUME NEW j \in Call, Holds(j, v)'
          PROVE  \/ calls'[j].row.attempt_count = SaturatingInc(Count(v))
                 \/ Holds(j, v) /\ calls'[j].row.attempt_count = calls[j].row.attempt_count
      BY <1>1, <2>3 DEF Holds
    <2> QED
      BY <2>2, <2>3, KeepingRoom
  <1>5. \A v \in VerId : guesses'[v] \in Nat /\ guesses'[v] <= Cardinality(RoomsAbove(v)')
    BY <1>3, <1>4, GuessesStayBelow
  <1>6. guesses' \in [VerId -> Nat]
    BY <1>5 DEF GuessNext
  <1>7. \A j \in Call : calls'[j].pc \in Verifying =>
           calls'[j].row.attempt_count >= 1 /\ calls'[j].status = NULL
    BY <1>1 DEF RoomInv
  <1> QED
    BY <1>5, <1>6, <1>7 DEF RoomInv

\* A step that writes the copy of its call back and replies.
LEMMA WriteBackRoom ==
    ASSUME Inv, RoomInv, GuessNext, IsFiniteSet(Call), NEW k \in Call,
           VerifyReject(k) \/ VerifyCommit(k)
    PROVE  RoomInv'
  <1>1. /\ calls[k].pc \in {"verify_reject", "verify_commit"}
        /\ verifications' = WriteBack(calls[k])
        /\ \E status : Reply(k, "verify", calls[k].email, status)
    BY DEF VerifyReject, VerifyCommit
  <1>2. calls'[k].pc = "replied" /\ \A j \in Call : j # k => calls'[j] = calls[j]
    BY <1>1 DEF Reply, Replied, Idle, Inv, TypeInv, TypeOK
  <1>3. PICK w \in VerId : /\ w = calls[k].ver /\ Holds(k, w) /\ verifications[w] # NULL
                           /\ verifications[w] \in Verification
    BY <1>1, HeldRow DEF Holds, Verifying, Inv, TypeInv, TypeOK
  <1>4. calls[k].row.attempt_count \in Nat /\ calls[k].row.attempt_count >= 1
    BY <1>3, HeldRow DEF Holds, RoomInv
  <1>5. Count(w)' = calls[k].row.attempt_count
    <2>1. verifications'[w] = [verifications[w] EXCEPT
                                  !.used = calls[k].row.used,
                                  !.attempt_count = calls[k].row.attempt_count]
      BY <1>1, <1>3 DEF WriteBack, Inv, TypeInv, TypeOK
    <2>2. verifications'[w].attempt_count = calls[k].row.attempt_count
      BY <1>3, <2>1 DEF Verification
    <2>3. verifications'[w] # NULL
      BY <1>1, <1>3, WritingBack DEF Inv
    <2> QED
      BY <2>2, <2>3 DEF Count
  <1>6. ~Holds(k, w)'
    BY <1>2 DEF Holds, Verifying
  <1>7. IF calls[k].row.attempt_count <= MaxAttempts THEN Above(Room(w)', Room(w))
                                                     ELSE NoMoreRoom(w)
    BY <1>2, <1>3, <1>4, <1>5, <1>6, WritingTakesRoom
  <1>8. ASSUME NEW v \in VerId, v # w PROVE NoMoreRoom(v)
    <2>1. verifications'[v] = verifications[v]
      BY <1>1, <1>3, <1>8, WritingBack DEF Inv
    <2>2. PICK n \in Nat : n = Count(v)' /\ n >= Count(v)
      BY <2>1, CountIsNat DEF Count
    <2>3. \A j \in Call : Holds(j, v)' =>
             Holds(j, v) /\ calls'[j].row.attempt_count = calls[j].row.attempt_count
      BY <1>2 DEF Holds, Verifying
    <2> QED
      BY <2>2, <2>3, KeepingRoom
  <1>9. ASSUME NEW v \in VerId
        PROVE  guesses'[v] \in Nat /\ guesses'[v] <= Cardinality(RoomsAbove(v)')
    <2>1. guesses'[v] = IF calls[k].ver = v /\ AnswersGuess(k) THEN guesses[v] + 1
                                                              ELSE guesses[v]
      BY <1>2, OneAnswer
    <2>2. CASE v = w
      <3>1. CASE calls[k].row.attempt_count <= MaxAttempts
        BY <1>7, <2>1, <2>2, <3>1, GuessesStayBelow
      <3>2. CASE ~(calls[k].row.attempt_count <= MaxAttempts)
        <4>1. guesses'[v] = guesses[v]
          BY <2>1, <3>2 DEF AnswersGuess
        <4> QED
          BY <1>7, <2>2, <3>2, <4>1, GuessesStayBelow
      <3> QED
        BY <3>1, <3>2
    <2>3. CASE v # w
      BY <1>3, <1>8, <2>1, <2>3, GuessesStayBelow
    <2> QED
      BY <2>2, <2>3
  <1>10. guesses' \in [VerId -> Nat]
    BY <1>9 DEF GuessNext
  <1>11. \A j \in Call : calls'[j].pc \in Verifying =>
           calls'[j].row.attempt_count >= 1 /\ calls'[j].status = NULL
    BY <1>2 DEF RoomInv, Verifying
  <1> QED
    BY <1>9, <1>10, <1>11 DEF RoomInv

LEMMA RepliedRoom ==
    ASSUME Inv, RoomInv, GuessNext, IsFiniteSet(Call),
           NEW k \in Call, NEW op, NEW e, NEW status, Reply(k, op, e, status),
           UNCHANGED verifications, calls[k].pc = "verify_reject" => status # "not_found"
    PROVE  RoomInv'
  <1>1. /\ Replied(op, e, status).pc = "replied"
        /\ Replied(op, e, status).status = status
    BY DEF Replied, Idle
  <1> QED
    BY <1>1, OneCallRoom DEF Reply, Verifying

\* The moves of a verify_email call keep its copy.
LEMMA MovedRoom ==
    ASSUME Inv, RoomInv, GuessNext, IsFiniteSet(Call), NEW k \in Call, NEW pc \in Verifying,
           calls[k].pc \in Verifying, calls[k].pc # "verify_reject",
           calls' = [calls EXCEPT ![k].pc = pc], UNCHANGED verifications
    PROVE  RoomInv'
  <1> DEFINE moved == [calls[k] EXCEPT !.pc = pc]
  <1>1. /\ moved.pc = pc /\ moved.ver = calls[k].ver /\ moved.status = calls[k].status
        /\ moved.row = calls[k].row /\ calls' = [calls EXCEPT ![k] = moved]
    BY DEF Inv, TypeInv, TypeOK, CallState
  <1>2. moved.status = NULL /\ moved.row.attempt_count >= 1
    BY <1>1 DEF RoomInv
  <1>3. \A v \in VerId : moved.ver = v =>
           Holds(k, v) /\ moved.row.attempt_count = calls[k].row.attempt_count
    BY <1>1 DEF Holds
  <1> HIDE DEF moved
  <1> QED
    BY <1>1, <1>2, <1>3, OneCallRoom

LEMMA CreateStartRoom ==
    ASSUME Inv, RoomInv, GuessNext, IsFiniteSet(Call),
           NEW k \in Call, NEW e, NEW strong, CreateStart(k, e, strong)
    PROVE  RoomInv'
  <1> DEFINE started == [Idle EXCEPT !.pc = "create_insert", !.op = "create", !.email = e]
  <1>1. started.pc \notin Verifying /\ Idle.pc = "idle"
    BY DEF Idle, Verifying
  <1> HIDE DEF started
  <1>2. calls[k] = Idle /\ UNCHANGED verifications
    BY DEF CreateStart, tables
  <1>3. (\E status : Reply(k, "create", e, status)) \/ calls' = [calls EXCEPT ![k] = started]
    BY DEF CreateStart, started
  <1> QED
    BY <1>1, <1>2, <1>3, OneCallRoom, RepliedRoom

LEMMA RequestStartRoom ==
    ASSUME Inv, RoomInv, GuessNext, IsFiniteSet(Call),
           NEW k \in Call, NEW e, RequestStart(k, e)
    PROVE  RoomInv'
  <1> DEFINE started(c) == [Idle EXCEPT !.pc = "request_latest", !.op = "request",
                                        !.email = e, !.cred = c]
  <1>1. Idle.pc = "idle" /\ \A c : started(c).pc \notin Verifying
    BY DEF Idle, Verifying
  <1> HIDE DEF started
  <1>2. calls[k] = Idle /\ UNCHANGED verifications
    BY DEF RequestStart, tables
  <1>3. \/ \E status : Reply(k, "request", e, status)
        \/ \E c : calls' = [calls EXCEPT ![k] = started(c)]
    BY DEF RequestStart, started
  <1> QED
    BY <1>1, <1>2, <1>3, OneCallRoom, RepliedRoom

\* The copy counts one more than the row: a call that starts finds room above
\* the stored count, where every call had it.
LEMMA VerifyStartRoom ==
    ASSUME Inv, RoomInv, GuessNext, IsFiniteSet(Call),
           NEW k \in Call, NEW e, NEW token, VerifyStart(k, e, token)
    PROVE  RoomInv'
  <1> DEFINE counted(v) == [verifications[v] EXCEPT !.attempt_count = SaturatingInc(@)]
             started(v) == [Idle EXCEPT
                 !.pc = "verify_check", !.op = "verify",
                 !.email = e, !.token = token, !.ver = v, !.row = counted(v)]
  <1>1. calls[k] = Idle /\ UNCHANGED verifications /\ Idle.pc = "idle"
    BY DEF VerifyStart, tables, Idle
  <1>2. ASSUME NEW v \in VerId, Active(v), calls' = [calls EXCEPT ![k] = started(v)]
        PROVE  RoomInv'
    <2>1. verifications[v] \in Verification /\ Count(v) = verifications[v].attempt_count
      BY <1>2 DEF Active, Count, Inv, TypeInv, TypeOK
    <2>2. counted(v).attempt_count = SaturatingInc(Count(v))
      BY <2>1 DEF Verification
    <2>3. SaturatingInc(Count(v)) >= 1
      BY CountIsNat, BoundIsNat DEF SaturatingInc
    <2> HIDE DEF counted
    <2>4. /\ started(v).pc = "verify_check" /\ started(v).ver = v
          /\ started(v).status = NULL /\ started(v).row = counted(v)
      BY DEF Idle
    <2> HIDE DEF started
    <2> QED
      BY <1>1, <1>2, <2>2, <2>3, <2>4, OneCallRoom DEF Verifying
  <1>3. \/ \E status : Reply(k, "verify", e, status)
        \/ \E v \in VerId : Active(v) /\ calls' = [calls EXCEPT ![k] = started(v)]
    BY DEF VerifyStart, Newest, ActiveByEmail
  <1> HIDE DEF started
  <1> QED
    BY <1>1, <1>2, <1>3, RepliedRoom

LEMMA RequestLatestRoom ==
    ASSUME Inv, RoomInv, GuessNext, IsFiniteSet(Call), NEW k \in Call, RequestLatest(k)
    PROVE  RoomInv'
  <1> DEFINE new(token) == [code |-> Hash(token), credential_id |-> calls[k].cred,
                            attempt_count |-> 0, used |-> FALSE,
                            expires_at |-> clock + CodeLifetime, created_at |-> 0]
             drawn(token) == [calls[k] EXCEPT !.pc = "request_insert",
                                              !.token = token, !.row = new(token)]
  <1>1. calls[k].pc = "request_latest" /\ UNCHANGED verifications
    BY DEF RequestLatest, tables
  <1>2. \/ Reply(k, "request", calls[k].email, "ok")
        \/ \E token \in Code : calls' = [calls EXCEPT ![k] = drawn(token)]
    BY DEF RequestLatest
  <1> HIDE DEF new
  <1>3. \A token : drawn(token).pc = "request_insert"
    BY DEF Inv, TypeInv, TypeOK, CallState
  <1> HIDE DEF drawn
  <1> QED
    BY <1>1, <1>2, <1>3, OneCallRoom, RepliedRoom DEF Verifying

LEMMA RequestInsertRoom ==
    ASSUME Inv, RoomInv, GuessNext, IsFiniteSet(Call), NEW k \in Call, RequestInsert(k)
    PROVE  RoomInv'
  <1> DEFINE stamped == [calls[k].row EXCEPT !.created_at = clock]
             inserted == [calls[k] EXCEPT !.pc = "request_commit", !.row = stamped]
  <1>1. calls[k].pc = "request_insert" /\ UNCHANGED verifications
    BY DEF RequestInsert, tables
  <1>2. \/ Reply(k, "request", calls[k].email, "internal")
        \/ calls' = [calls EXCEPT ![k] = inserted]
    BY DEF RequestInsert
  <1> HIDE DEF stamped
  <1>3. inserted.pc = "request_commit"
    BY DEF Inv, TypeInv, TypeOK, CallState
  <1> HIDE DEF inserted
  <1> QED
    BY <1>1, <1>2, <1>3, OneCallRoom, RepliedRoom DEF Verifying

\* A new row has any count: before it, the count was 0.
LEMMA RequestCommitRoom ==
    ASSUME Inv, RoomInv, GuessNext, IsFiniteSet(Call), NEW k \in Call, RequestCommit(k)
    PROVE  RoomInv'
  <1>1. calls[k].pc = "request_commit" /\ calls[k].row \in Verification
    BY DEF RequestCommit, Inv, TypeInv, CallsKnow, CallKnows
  <1>2. PICK w \in VerId : /\ verifications[w] = NULL
                           /\ verifications' = [verifications EXCEPT ![w] = calls[k].row]
    BY DEF RequestCommit
  <1>3. \A v \in VerId : verifications'[v] # verifications[v] =>
           verifications[v] = NULL /\ verifications'[v] \in Verification
    BY <1>1, <1>2 DEF Inv, TypeInv, TypeOK
  <1>4. PICK status : Reply(k, "request", calls[k].email, status)
    BY DEF RequestCommit
  <1> DEFINE reply == Replied("request", calls[k].email, status)
  <1>5. reply.pc = "replied" /\ calls' = [calls EXCEPT ![k] = reply]
    BY <1>4 DEF Reply, Replied, Idle
  <1> HIDE DEF reply
  <1> QED
    BY <1>1, <1>3, <1>5, OneCallRoom DEF Verifying

LEMMA VerifyCheckRoom ==
    ASSUME Inv, RoomInv, GuessNext, IsFiniteSet(Call), NEW k \in Call, VerifyCheck(k)
    PROVE  RoomInv'
  <1> DEFINE used == [calls[k].row EXCEPT !.used = TRUE]
             accepted == [calls[k] EXCEPT !.pc = "verify_update", !.row = used]
  <1>1. calls[k].pc = "verify_check" /\ calls[k].pc \in Verifying /\ UNCHANGED verifications
    BY DEF VerifyCheck, Verifying, tables
  <1>2. Goto(k, "verify_reject") \/ calls' = [calls EXCEPT ![k] = accepted]
    BY DEF VerifyCheck
  <1>3. used.attempt_count = calls[k].row.attempt_count
    BY <1>1, HeldRow DEF Verification
  <1> HIDE DEF used
  <1>4. /\ accepted.pc = "verify_update" /\ accepted.ver = calls[k].ver
        /\ accepted.status = calls[k].status /\ accepted.row = used
    BY DEF Inv, TypeInv, TypeOK, CallState
  <1> HIDE DEF accepted
  <1>5. accepted.status = NULL /\ accepted.row.attempt_count >= 1
    BY <1>1, <1>3, <1>4 DEF RoomInv
  <1>6. \A v \in VerId : accepted.ver = v =>
           Holds(k, v) /\ accepted.row.attempt_count = calls[k].row.attempt_count
    BY <1>1, <1>3, <1>4 DEF Holds
  <1>7. CASE calls' = [calls EXCEPT ![k] = accepted]
    BY <1>1, <1>4, <1>5, <1>6, <1>7, OneCallRoom DEF Verifying
  <1>8. CASE Goto(k, "verify_reject")
    BY <1>1, <1>8, MovedRoom DEF Goto, Verifying
  <1> QED
    BY <1>2, <1>7, <1>8

LEMMA StepRoom ==
    ASSUME Inv, RoomInv, GuessNext, IsFiniteSet(Call), NEW k \in Call, Step(k)
    PROVE  RoomInv'
  <1>1. CreateInsert(k) => RoomInv'
    BY RepliedRoom DEF CreateInsert
  <1>2. VerifyUpdate(k) => RoomInv'
    BY MovedRoom DEF VerifyUpdate, Goto, Verifying, tables
  <1>3. VerifyCredential(k) => RoomInv'
    BY MovedRoom, RepliedRoom DEF VerifyCredential, Goto, Verifying, tables
  <1>4. Return(k) => RoomInv'
    BY OneCallRoom DEF Return, Idle, Verifying, tables
  <1> QED
    BY <1>1, <1>2, <1>3, <1>4, RequestLatestRoom, RequestInsertRoom, RequestCommitRoom,
       VerifyCheckRoom, WriteBackRoom DEF Step

LEMMA NextRoom ==
    ASSUME Inv, RoomInv, GuessNext, IsFiniteSet(Call)
    PROVE  RoomInv'
  <1>1. ASSUME NEW k \in Call, Start(k) PROVE RoomInv'
    <2>1. ASSUME NEW op, NEW e, StartFails(k, op, e) PROVE RoomInv'
      BY <2>1, RepliedRoom DEF StartFails, Idle, tables
    <2> QED
      BY <1>1, <2>1, CreateStartRoom, RequestStartRoom, VerifyStartRoom DEF Start
  <1>2. ASSUME NEW k \in Call, DatabaseError(k) PROVE RoomInv'
    BY <1>2, RepliedRoom DEF DatabaseError, tables
  <1>3. ASSUME NEW k \in Call, Dropped(k) PROVE RoomInv'
    <2>1. Idle.pc \notin Verifying /\ Idle.status # "not_found"
      BY NullAssumption DEF Idle, Verifying, Status
    <2> QED
      BY <1>3, <2>1, OneCallRoom DEF Dropped, tables
  <1>4. CASE Tick
    <2>1. calls' = calls /\ verifications' = verifications
      BY <1>4 DEF Tick, tables
    <2>2. \A k \in Call : ~AnswersGuess(k)
      <3>1. NULL # "not_found" /\ "verify_reject" \in Verifying
        BY NullAssumption DEF Status, Verifying
      <3> QED
        BY <2>1, <3>1 DEF AnswersGuess, RoomInv
    <2>3. guesses' = guesses
      <3>1. \A v \in VerId : {k \in Call : calls[k].ver = v /\ AnswersGuess(k)} = {}
        BY <2>2
      <3>2. \A v \in VerId : guesses'[v] = guesses[v]
        BY <3>1, FS_EmptySet DEF GuessNext, RoomInv
      <3> QED
        BY <3>2 DEF GuessNext, RoomInv
    <2> QED
      BY <2>1, <2>3 DEF RoomInv, RoomsAbove, Room, CanStore, Count, Holds
  <1> QED
    BY <1>1, <1>2, <1>3, <1>4, StepRoom DEF GuessNext, Next

LEMMA InitRoom ==
    ASSUME GuessInit, IsFiniteSet(Call)
    PROVE  Inv /\ RoomInv
  <1>1. Inv
    BY InitInv DEF GuessInit
  <1>2. \A v \in VerId : guesses[v] = 0 /\ Cardinality(RoomsAbove(v)) \in Nat
    BY <1>1, RoomsAboveBounded DEF GuessInit
  <1>3. \A k \in Call : calls[k].pc \notin Verifying
    BY DEF GuessInit, Init, Idle, Verifying
  <1> QED
    BY <1>1, <1>2, <1>3 DEF RoomInv, GuessInit

LEMMA RoomInvariance ==
    ASSUME IsFiniteSet(Call)
    PROVE  GuessSpec => [](Inv /\ RoomInv)
  <1>1. GuessInit => Inv /\ RoomInv
    BY InitRoom
  <1>2. Inv /\ RoomInv /\ [GuessNext]_<<vars, guesses>> => (Inv /\ RoomInv)'
    <2> SUFFICES ASSUME Inv, RoomInv, [GuessNext]_<<vars, guesses>> PROVE Inv' /\ RoomInv'
      OBVIOUS
    <2>1. Inv'
      BY NextInv DEF GuessNext
    <2>2. CASE UNCHANGED <<vars, guesses>>
      BY <2>1, <2>2 DEF RoomInv, RoomsAbove, Room, CanStore, Count, Holds, vars, tables
    <2> QED
      BY <2>1, <2>2, NextRoom
  <1> QED
    BY <1>1, <1>2, PTL DEF GuessSpec

\* Under any overlap of verify_email calls no code answers more wrong guesses
\* than the binomial of the calls in flight and the limit, less one.
THEOREM GuessesBounded ==
    ASSUME IsFiniteSet(Call)
    PROVE  GuessSpec => []GuessBound
  <1>1. Inv /\ RoomInv => GuessBound
    <2> SUFFICES ASSUME Inv, RoomInv, NEW v \in VerId
                 PROVE  guesses[v]
                          <= choose(MaxAttempts + Cardinality(Call), MaxAttempts) - 1
      BY DEF GuessBound
    <2>1. guesses[v] \in Nat /\ guesses[v] <= Cardinality(RoomsAbove(v))
      BY DEF RoomInv
    <2>2. /\ Cardinality(RoomsAbove(v)) \in Nat
          /\ Cardinality(RoomsAbove(v)) <= Cardinality(AllRooms) - 1
      BY RoomsAboveBounded
    <2>3. /\ Cardinality(AllRooms) \in Nat
          /\ Cardinality(AllRooms) = choose(MaxAttempts + Cardinality(Call), MaxAttempts)
      BY AllRoomsCounted, FS_CardinalityType
    <2> QED
      BY <2>1, <2>2, <2>3
  <1> QED
    BY <1>1, RoomInvariance, PTL

\* The binomial less one is the limit itself for one call, and 0 without any.
LEMMA BoundOfOneCall ==
    ASSUME \A j, k \in Call : j = k
    PROVE  /\ IsFiniteSet(Call)
           /\ choose(MaxAttempts + Cardinality(Call), MaxAttempts) - 1 <= MaxAttempts
  <1> DEFINE M == MaxAttempts
  <1>1. PICK f \in Nat : f = factorial[M] /\ f > 0
    BY FactorialPositive, BoundIsNat
  <1>2. factorial[0] = 1 /\ factorial[1] = 1 /\ factorial[M + 1] = (M + 1) * f
    BY <1>1, FactorialDef, BoundIsNat
  <1>3. CASE Call = {}
    <2>1. Cardinality(Call) = 0 /\ IsFiniteSet(Call)
      BY <1>3, FS_EmptySet
    <2>2. M + 0 = M /\ M - M = 0 /\ f * 1 = f /\ f \div f = 1
      BY <1>1, BoundIsNat
    <2>3. choose(M + 0, M) = 1
      BY <1>1, <1>2, <2>2 DEF choose
    <2> QED
      BY <2>1, <2>3, BoundIsNat
  <1>4. CASE Call # {}
    <2>1. PICK k : Call = {k}
      BY <1>4
    <2>2. Cardinality(Call) = 1 /\ IsFiniteSet(Call)
      BY <2>1, FS_Singleton
    <2>3. (M + 1) - M = 1 /\ f * 1 = f /\ ((M + 1) * f) \div f = M + 1
      BY <1>1, BoundIsNat
    <2>4. choose(M + 1, M) = M + 1
      BY <1>1, <1>2, <2>3 DEF choose
    <2> QED
      BY <2>2, <2>4, BoundIsNat
  <1> QED
    BY <1>3, <1>4

\* With one call at a time, each in flight until its last statement has taken
\* effect or is given up, no code answers more wrong guesses than the limit,
\* through any failures of the database, dropped calls and expiries.
THEOREM LimitWhenSequential ==
    ASSUME \A j, k \in Call : j = k
    PROVE  GuessSpec => []GuessLimit
  <1>1. Inv /\ RoomInv /\ GuessBound => GuessLimit
    <2> SUFFICES ASSUME RoomInv, GuessBound, NEW v \in VerId PROVE guesses[v] <= MaxAttempts
      BY DEF GuessLimit
    <2>1. choose(MaxAttempts + Cardinality(Call), MaxAttempts) \in Nat
      BY BoundOfOneCall, AllRoomsCounted, FS_CardinalityType
    <2> QED
      BY <2>1, BoundOfOneCall, BoundIsNat DEF RoomInv, GuessBound
  <1>2. GuessSpec => []GuessBound
    BY BoundOfOneCall, GuessesBounded
  <1>3. GuessSpec => [](Inv /\ RoomInv)
    BY BoundOfOneCall, RoomInvariance
  <1> QED
    BY <1>1, <1>2, <1>3, PTL
=============================================================================
