------------------------------ MODULE SumsProofs ------------------------------
(***************************************************************************)
(* Induction and recursion over the natural numbers, sums, maxima, and     *)
(* counting: what the proofs of the other modules need of numbers.         *)
(*                                                                         *)
(* The induction principle is stated on a set of naturals: a failing n     *)
(* gives a finite set of failing numbers that the predecessor maps into    *)
(* itself one to one, hence onto, though nothing is mapped to n.           *)
(***************************************************************************)
EXTENDS Layouts, FiniteSetTheorems, FunctionTheorems, TLAPS

(* A set of naturals with 0 and, with each number, the next one, is Nat.   *)
LEMMA SetInduction ==
  ASSUME NEW S \in SUBSET Nat, 0 \in S, \A n \in S : n + 1 \in S
  PROVE  S = Nat
<1>1. SUFFICES ASSUME NEW n \in Nat, n \notin S PROVE FALSE
  OBVIOUS
<1> DEFINE T == {k \in 0 .. n : k \notin S}
           f == [k \in T |-> k - 1]
<1>2. IsFiniteSet(T)
  <2>1. IsFiniteSet(0 .. n) BY FS_Interval
  <2>2. T \in SUBSET (0 .. n) OBVIOUS
  <2> QED BY <2>1, <2>2, FS_Subset
<1>3. f \in Injection(T, T)
  <2>1. \A k \in T : k - 1 \in T
    <3>1. SUFFICES ASSUME NEW k \in T PROVE k - 1 \in T OBVIOUS
    <3>2. k # 0 OBVIOUS
    <3>3. k - 1 \in 0 .. n BY <3>2
    <3>4. k - 1 \notin S
      <4>1. (k - 1) + 1 = k OBVIOUS
      <4> QED BY <4>1
    <3> QED BY <3>3, <3>4
  <2>2. f \in [T -> T] BY <2>1
  <2>3. \A a, b \in T : f[a] = f[b] => a = b OBVIOUS
  <2> HIDE DEF f, T
  <2> QED BY <2>2, <2>3 DEF Injection, IsInjective
<1>4. f \in Surjection(T, T)
  <2> HIDE DEF f, T
  <2> QED BY <1>2, <1>3, FS_Injection
<1>5. n \in T BY <1>1
<1>6. \E k \in T : f[k] = n
  <2> HIDE DEF f, T
  <2> QED BY <1>4, <1>5 DEF Surjection
<1> QED BY <1>6

(* A set of naturals that is not empty has a least number.                 *)
LEMMA LeastExists ==
  ASSUME NEW S \in SUBSET Nat, S # {}
  PROVE  \E m \in S : \A n \in S : m <= n
<1> SUFFICES ASSUME \A m \in S : \E n \in S : ~(m <= n) PROVE FALSE OBVIOUS
<1> DEFINE T == {n \in Nat : \A k \in 0 .. n : k \notin S}
<1>1. 0 \in T OBVIOUS
<1>2. ASSUME NEW n \in T PROVE n + 1 \in T
  <2>1. n + 1 \notin S
    <3>1. SUFFICES ASSUME n + 1 \in S PROVE FALSE OBVIOUS
    <3>2. PICK k \in S : ~(n + 1 <= k) BY <3>1
    <3>3. k \in 0 .. n BY <3>2
    <3> QED BY <3>3
  <2>2. \A k \in 0 .. (n + 1) : k \in 0 .. n \/ k = n + 1 OBVIOUS
  <2> QED BY <2>1, <2>2
<1>3. T = Nat
  <2> HIDE DEF T
  <2>1. T \in SUBSET Nat BY DEF T
  <2> QED BY <1>1, <1>2, <2>1, SetInduction
<1>4. PICK s \in S : TRUE OBVIOUS
<1>5. s \in T BY <1>3
<1> QED BY <1>4, <1>5

(* One of finitely many natural numbers is the largest.                    *)
LEMMA MaxExists ==
  ASSUME NEW n \in Nat, NEW f \in [0 .. n -> Nat]
  PROVE  \E m \in 0 .. n : \A k \in 0 .. n : f[k] <= f[m]
<1> DEFINE S == {b \in Nat : b <= n => \E m \in 0 .. b : \A k \in 0 .. b : f[k] <= f[m]}
<1>1. 0 \in S OBVIOUS
<1>2. ASSUME NEW b \in S PROVE b + 1 \in S
  <2>1. SUFFICES ASSUME b + 1 <= n
        PROVE \E m \in 0 .. (b + 1) : \A k \in 0 .. (b + 1) : f[k] <= f[m]
    OBVIOUS
  <2>2. PICK m \in 0 .. b : \A k \in 0 .. b : f[k] <= f[m] BY <2>1
  <2>3. CASE f[b + 1] <= f[m]
    BY <2>1, <2>2, <2>3
  <2>4. CASE ~(f[b + 1] <= f[m])
    <3>1. \A k \in 0 .. (b + 1) : f[k] <= f[b + 1]
      <4>1. f[b + 1] \in Nat /\ f[m] \in Nat BY <2>1
      <4>2. TAKE k \in 0 .. (b + 1)
      <4>3. f[k] \in Nat BY <2>1
      <4>4. k = b + 1 \/ k \in 0 .. b BY <2>1
      <4> QED BY <4>1, <4>3, <4>4, <2>2, <2>4
    <3> QED BY <3>1
  <2> QED BY <2>3, <2>4
<1>3. n \in S
  <2> HIDE DEF S
  <2>1. S \in SUBSET Nat BY DEF S
  <2> QED BY <1>1, <1>2, <2>1, SetInduction
<1> QED BY <1>3

(* MaxOf is the largest of the numbers that the ranks 0 .. n contribute.   *)
LEMMA MaxOfFamily ==
  ASSUME NEW n \in Nat, NEW f \in [0 .. n -> Nat]
  PROVE  LET S == {f[k] : k \in 0 .. n}
         IN  MaxOf(S) \in Nat /\ \A k \in 0 .. n : f[k] <= MaxOf(S)
<1> DEFINE S == {f[k] : k \in 0 .. n}
<1>1. \E m \in S : \A x \in S : x <= m BY MaxExists
<1>2. MaxOf(S) \in S /\ \A x \in S : x <= MaxOf(S)
  <2> HIDE DEF S
  <2> QED BY <1>1 DEF MaxOf
<1> QED BY <1>2

------------------------------------------------------------------------------
(* The table of the partial sums of f, from the empty sum to the sum of    *)
(* its first n elements.                                                   *)
IsTable(t, f, n) ==
  t = [k \in 0 .. n |-> IF k = 0 THEN 0 ELSE t[k - 1] + f[k - 1]]

(* The values of a table satisfy its recursion.                            *)
LEMMA TableEntry ==
  ASSUME NEW f, NEW n \in Nat, NEW t, IsTable(t, f, n)
  PROVE  /\ DOMAIN t = 0 .. n
         /\ t[0] = 0
         /\ \A k \in 0 .. (n - 1) : t[k + 1] = t[k] + f[k]
<1> DEFINE u == [k \in 0 .. n |-> IF k = 0 THEN 0 ELSE t[k - 1] + f[k - 1]]
<1>1. t = u BY DEF IsTable
<1>2. u[0] = 0 OBVIOUS
<1>3. ASSUME NEW k \in 0 .. (n - 1) PROVE u[k + 1] = t[k] + f[k]
  <2>1. k + 1 \in 0 .. n /\ k + 1 # 0 /\ (k + 1) - 1 = k OBVIOUS
  <2> QED BY <2>1
<1>4. DOMAIN u = 0 .. n OBVIOUS
<1> HIDE DEF u
<1> QED BY <1>1, <1>2, <1>3, <1>4

(* What satisfies the recursion is a table.                                *)
LEMMA TableIntro ==
  ASSUME NEW f, NEW n \in Nat, NEW t, t = [k \in 0 .. n |-> t[k]], t[0] = 0,
         \A k \in 0 .. (n - 1) : t[k + 1] = t[k] + f[k]
  PROVE  IsTable(t, f, n)
<1>1. ASSUME NEW k \in 0 .. n PROVE t[k] = IF k = 0 THEN 0 ELSE t[k - 1] + f[k - 1]
  <2>1. CASE k = 0 BY <2>1
  <2>2. CASE k # 0
    <3>1. k - 1 \in 0 .. (n - 1) /\ (k - 1) + 1 = k BY <2>2
    <3>2. t[(k - 1) + 1] = t[k - 1] + f[k - 1] BY <3>1
    <3> QED BY <3>1, <3>2, <2>2
  <2> QED BY <2>1, <2>2
<1> QED BY <1>1 DEF IsTable

(* Two tables agree as far as both go.                                     *)
LEMMA TableUnique ==
  ASSUME NEW f, NEW n \in Nat, NEW m \in Nat, n <= m, NEW t, NEW u,
         IsTable(t, f, n), IsTable(u, f, m)
  PROVE  \A k \in 0 .. n : t[k] = u[k]
<1> DEFINE S == {k \in Nat : k <= n => t[k] = u[k]}
<1>1. 0 \in S
  <2>1. t[0] = 0 BY TableEntry
  <2>2. u[0] = 0 BY TableEntry
  <2> QED BY <2>1, <2>2
<1>2. ASSUME NEW k \in S PROVE k + 1 \in S
  <2>1. SUFFICES ASSUME k + 1 <= n PROVE t[k + 1] = u[k + 1] OBVIOUS
  <2>2. t[k] = u[k] BY <2>1
  <2>3. k \in 0 .. (n - 1) /\ k \in 0 .. (m - 1) BY <2>1
  <2>4. t[k + 1] = t[k] + f[k] BY <2>3, TableEntry
  <2>5. u[k + 1] = u[k] + f[k] BY <2>3, TableEntry
  <2> QED BY <2>2, <2>4, <2>5
<1>3. S = Nat
  <2> HIDE DEF S
  <2>1. S \in SUBSET Nat BY DEF S
  <2> QED BY <1>1, <1>2, <2>1, SetInduction
<1> QED BY <1>3

(* There is a table of any length.                                         *)
LEMMA TableExists ==
  ASSUME NEW f
  PROVE  \A n \in Nat : \E t : IsTable(t, f, n)
<1> DEFINE S == {n \in Nat : \E t : IsTable(t, f, n)}
<1>1. 0 \in S
  <2> DEFINE t == [k \in 0 .. 0 |-> 0]
  <2>1. IsTable(t, f, 0)
    <3>1. t = [k \in 0 .. 0 |-> t[k]] /\ t[0] = 0 OBVIOUS
    <3>2. \A k \in 0 .. (0 - 1) : t[k + 1] = t[k] + f[k] OBVIOUS
    <3> HIDE DEF t
    <3> QED BY <3>1, <3>2, TableIntro
  <2> QED BY <2>1
<1>2. ASSUME NEW n \in S PROVE n + 1 \in S
  <2>1. PICK t : IsTable(t, f, n) OBVIOUS
  <2> DEFINE u == [k \in 0 .. (n + 1) |-> IF k = n + 1 THEN t[n] + f[n] ELSE t[k]]
  <2>2. \A k \in 0 .. ((n + 1) - 1) : u[k + 1] = u[k] + f[k]
    <3>1. SUFFICES ASSUME NEW k \in 0 .. n PROVE u[k + 1] = u[k] + f[k] OBVIOUS
    <3>2. u[k] = t[k] OBVIOUS
    <3>3. CASE k = n BY <3>2, <3>3
    <3>4. CASE k # n
      <4>1. k \in 0 .. (n - 1) BY <3>4
      <4>2. t[k + 1] = t[k] + f[k] BY <4>1, <2>1, TableEntry
      <4>3. u[k + 1] = t[k + 1] BY <4>1
      <4> QED BY <4>2, <4>3, <3>2
    <3> QED BY <3>3, <3>4
  <2>3. u[0] = 0 BY <2>1, TableEntry
  <2>4. u = [k \in 0 .. (n + 1) |-> u[k]] OBVIOUS
  <2>5. IsTable(u, f, n + 1)
    <3>1. n + 1 \in Nat OBVIOUS
    <3> HIDE DEF u, S
    <3> QED BY <3>1, <2>2, <2>3, <2>4, TableIntro
  <2> QED BY <2>5
<1>3. S = Nat
  <2> HIDE DEF S
  <2>1. S \in SUBSET Nat BY DEF S
  <2> QED BY <1>1, <1>2, <2>1, SetInduction
<1> QED BY <1>3

(* The recursive definition of SumOf defines what it says.                 *)
LEMMA SumOfRecursion ==
  ASSUME NEW f
  PROVE  /\ SumOf(f, 0) = 0
         /\ \A n \in Nat : SumOf(f, n + 1) = SumOf(f, n) + f[n]
<1> DEFINE T(n) == CHOOSE t : IsTable(t, f, n)
           s == [n \in Nat |-> T(n)[n]]
           body(t) == [k \in Nat |-> IF k = 0 THEN 0 ELSE t[k - 1] + f[k - 1]]
<1>1. \A n \in Nat : IsTable(T(n), f, n) BY TableExists
<1>2. s[0] = 0
  <2>1. T(0)[0] = 0 BY <1>1, TableEntry
  <2> QED BY <2>1
<1>3. ASSUME NEW n \in Nat PROVE s[n + 1] = s[n] + f[n]
  <2>1. IsTable(T(n), f, n) /\ IsTable(T(n + 1), f, n + 1) BY <1>1
  <2> HIDE DEF T
  <2>2. T(n)[n] = T(n + 1)[n] BY <2>1, TableUnique
  <2>3. T(n + 1)[n + 1] = T(n + 1)[n] + f[n] BY <2>1, TableEntry
  <2> QED BY <2>2, <2>3
<1>4. s = body(s)
  <2>1. ASSUME NEW k \in Nat PROVE s[k] = IF k = 0 THEN 0 ELSE s[k - 1] + f[k - 1]
    <3>1. CASE k = 0 BY <3>1, <1>2
    <3>2. CASE k # 0
      <4>1. k - 1 \in Nat /\ (k - 1) + 1 = k BY <3>2
      <4> HIDE DEF s
      <4>2. s[(k - 1) + 1] = s[k - 1] + f[k - 1] BY <4>1, <1>3
      <4> QED BY <4>1, <4>2, <3>2
    <3> QED BY <3>1, <3>2
  <2>2. s = [k \in Nat |-> s[k]] OBVIOUS
  <2> HIDE DEF s
  <2> QED BY <2>1, <2>2
<1> DEFINE t == CHOOSE x : x = body(x)
<1>5. t = body(t)
  <2>1. \E x : x = body(x) BY <1>4
  <2> HIDE DEF body
  <2> QED BY <2>1
<1>6. \A n : SumOf(f, n) = t[n] BY DEF SumOf
<1>7. t[0] = 0
  <2>1. body(t)[0] = 0 OBVIOUS
  <2> HIDE DEF t, body
  <2> QED BY <2>1, <1>5
<1>8. \A n \in Nat : t[n + 1] = t[n] + f[n]
  <2>1. TAKE n \in Nat
  <2>2. body(t)[n + 1] = t[n] + f[n]
    <3>1. n + 1 # 0 /\ (n + 1) - 1 = n OBVIOUS
    <3> HIDE DEF t
    <3> QED BY <3>1
  <2> HIDE DEF t, body
  <2> QED BY <2>2, <1>5
<1> HIDE DEF t
<1> QED BY <1>6, <1>7, <1>8

(* A sum of natural numbers is a natural number.                           *)
LEMMA SumOfType ==
  ASSUME NEW n \in Nat, NEW f, \A k \in 0 .. (n - 1) : f[k] \in Nat
  PROVE  SumOf(f, n) \in Nat
<1> DEFINE S == {k \in Nat : k <= n => SumOf(f, k) \in Nat}
<1>1. 0 \in S BY SumOfRecursion
<1>2. ASSUME NEW k \in S PROVE k + 1 \in S
  <2>1. SUFFICES ASSUME k + 1 <= n PROVE SumOf(f, k + 1) \in Nat OBVIOUS
  <2>2. SumOf(f, k) \in Nat /\ f[k] \in Nat BY <2>1
  <2> QED BY <2>2, SumOfRecursion
<1>3. n \in S
  <2> HIDE DEF S
  <2>1. S \in SUBSET Nat BY DEF S
  <2> QED BY <1>1, <1>2, <2>1, SetInduction
<1> QED BY <1>3

(* A sum depends on the terms it has.                                      *)
LEMMA SumOfSame ==
  ASSUME NEW f, NEW g, NEW n \in Nat, \A k \in 0 .. (n - 1) : f[k] = g[k]
  PROVE  SumOf(f, n) = SumOf(g, n)
<1> DEFINE S == {k \in Nat : k <= n => SumOf(f, k) = SumOf(g, k)}
<1>1. 0 \in S BY SumOfRecursion
<1>2. ASSUME NEW k \in S PROVE k + 1 \in S
  <2>1. SUFFICES ASSUME k + 1 <= n PROVE SumOf(f, k + 1) = SumOf(g, k + 1) OBVIOUS
  <2>2. SumOf(f, k) = SumOf(g, k) /\ f[k] = g[k] BY <2>1
  <2>3. SumOf(f, k + 1) = SumOf(f, k) + f[k] BY SumOfRecursion
  <2>4. SumOf(g, k + 1) = SumOf(g, k) + g[k] BY SumOfRecursion
  <2> QED BY <2>2, <2>3, <2>4
<1>3. n \in S
  <2> HIDE DEF S
  <2>1. S \in SUBSET Nat BY DEF S
  <2> QED BY <1>1, <1>2, <2>1, SetInduction
<1> QED BY <1>3

------------------------------------------------------------------------------
(* Recursion *)

(* The sequences a, F[0, a], F[1, F[0, a]], ... of n + 1 elements.         *)
Runs(X, a, F, n) ==
  {t \in [0 .. n -> X] : t[0] = a /\ \A k \in 0 .. (n - 1) : t[k + 1] = F[<<k, t[k]>>]}

(* There is a run of every length.                                         *)
LEMMA RunExists ==
  ASSUME NEW X, NEW a \in X, NEW F \in [Nat \X X -> X]
  PROVE  \A n \in Nat : \E t : t \in Runs(X, a, F, n)
<1> DEFINE S == {n \in Nat : \E t : t \in Runs(X, a, F, n)}
<1>1. 0 \in S
  <2> DEFINE t == [k \in 0 .. 0 |-> a]
  <2>1. t \in Runs(X, a, F, 0) BY DEF Runs
  <2> QED BY <2>1
<1>2. ASSUME NEW n \in S PROVE n + 1 \in S
  <2>1. PICK t : t \in Runs(X, a, F, n) OBVIOUS
  <2>2. /\ t \in [0 .. n -> X] /\ t[0] = a
        /\ \A k \in 0 .. (n - 1) : t[k + 1] = F[<<k, t[k]>>]
    BY <2>1 DEF Runs
  <2> DEFINE u == [k \in 0 .. (n + 1) |-> IF k = n + 1 THEN F[<<n, t[n]>>] ELSE t[k]]
  <2>3. t[n] \in X BY <2>2
  <2>4. F[<<n, t[n]>>] \in X BY <2>3
  <2>5. u \in [0 .. (n + 1) -> X]
    <3>1. \A k \in 0 .. (n + 1) : k = n + 1 \/ k \in 0 .. n OBVIOUS
    <3> QED BY <2>2, <2>4, <3>1
  <2>6. u[0] = a BY <2>2
  <2>7. ASSUME NEW k \in 0 .. ((n + 1) - 1) PROVE u[k + 1] = F[<<k, u[k]>>]
    <3>1. u[k] = t[k] OBVIOUS
    <3>2. CASE k = n
      <4>1. u[n + 1] = F[<<n, t[n]>>] OBVIOUS
      <4> HIDE DEF u
      <4> QED BY <4>1, <3>1, <3>2
    <3>3. CASE k # n
      <4>1. k \in 0 .. (n - 1) /\ k + 1 \in 0 .. (n + 1) /\ k + 1 # n + 1 BY <3>3
      <4>2. u[k + 1] = t[k + 1] BY <4>1
      <4> QED BY <4>1, <4>2, <2>2, <3>1
    <3> QED BY <3>2, <3>3
  <2>8. u \in Runs(X, a, F, n + 1)
    <3> HIDE DEF u
    <3> QED BY <2>5, <2>6, <2>7 DEF Runs
  <2> QED BY <2>8
<1>3. S = Nat
  <2> HIDE DEF S
  <2>1. S \in SUBSET Nat BY DEF S
  <2> QED BY <1>1, <1>2, <2>1, SetInduction
<1> QED BY <1>3

(* Two runs agree as far as both go.                                       *)
LEMMA RunsAgree ==
  ASSUME NEW X, NEW a, NEW F, NEW n \in Nat, NEW m \in Nat, n <= m,
         NEW t \in Runs(X, a, F, n), NEW u \in Runs(X, a, F, m)
  PROVE  t[n] = u[n]
<1> DEFINE S == {k \in Nat : k <= n => t[k] = u[k]}
<1>1. 0 \in S BY DEF Runs
<1>2. ASSUME NEW k \in S PROVE k + 1 \in S
  <2>1. SUFFICES ASSUME k + 1 <= n PROVE t[k + 1] = u[k + 1] OBVIOUS
  <2>2. t[k] = u[k] BY <2>1
  <2>3. k \in 0 .. (n - 1) /\ k \in 0 .. (m - 1) BY <2>1
  <2>4. t[k + 1] = F[<<k, t[k]>>] /\ u[k + 1] = F[<<k, u[k]>>] BY <2>3 DEF Runs
  <2> QED BY <2>2, <2>4
<1>3. S = Nat
  <2> HIDE DEF S
  <2>1. S \in SUBSET Nat BY DEF S
  <2> QED BY <1>1, <1>2, <2>1, SetInduction
<1> QED BY <1>3

(* A step from each stage to the next and a start make a run of them.      *)
IsStep(F, X) == F \in [Nat \X X -> X]
IsRun(t, X, a, F) ==
  t \in [Nat -> X] /\ t[0] = a /\ \A n \in Nat : t[n + 1] = F[<<n, t[n]>>]

(* For every first value and every step there is a function that starts    *)
(* with the one and goes on by the other.                                  *)
LEMMA Recursion ==
  ASSUME NEW X, NEW a \in X, NEW F, IsStep(F, X)
  PROVE  \E t : IsRun(t, X, a, F)
<1> DEFINE T(n) == CHOOSE t : t \in Runs(X, a, F, n)
           s == [n \in Nat |-> T(n)[n]]
<1>1. \A n \in Nat : T(n) \in Runs(X, a, F, n) BY RunExists DEF IsStep
<1> HIDE DEF T
<1>2. s[0] = a /\ s \in [Nat -> X] BY <1>1 DEF Runs
<1>3. ASSUME NEW n \in Nat PROVE s[n + 1] = F[<<n, s[n]>>]
  <2>1. T(n) \in Runs(X, a, F, n) /\ T(n + 1) \in Runs(X, a, F, n + 1) BY <1>1
  <2>2. T(n)[n] = T(n + 1)[n]
    <3>1. n + 1 \in Nat /\ n <= n + 1 OBVIOUS
    <3> QED BY <2>1, <3>1, RunsAgree
  <2>3. T(n + 1)[n + 1] = F[<<n, T(n + 1)[n]>>] BY <2>1 DEF Runs
  <2> QED BY <2>2, <2>3
<1> HIDE DEF s
<1> QED BY <1>2, <1>3 DEF IsRun

------------------------------------------------------------------------------
(* Counting *)

LEMMA DisjointUnion ==
  ASSUME NEW S, NEW T, IsFiniteSet(S), IsFiniteSet(T), S \cap T = {}
  PROVE  /\ Cardinality(S \cup T) = Cardinality(S) + Cardinality(T)
         /\ Cardinality(S) \in Nat /\ Cardinality(T) \in Nat
<1>1. Cardinality(S \cup T) = Cardinality(S) + Cardinality(T) - Cardinality(S \cap T)
  BY FS_Union
<1>2. Cardinality(S \cap T) = 0 BY FS_EmptySet
<1>3. Cardinality(S) \in Nat /\ Cardinality(T) \in Nat BY FS_CardinalityType
<1> QED BY <1>1, <1>2, <1>3

(* A set of which a part is labelled 0 .. n - 1 has as many elements there *)
(* as its classes together.                                                *)
Labelled(U, label, n) == {u \in U : label[u] \in 0 .. (n - 1)}
CountsClasses(f, U, label, n) ==
  \A k \in 0 .. (n - 1) : f[k] = Cardinality({u \in U : label[u] = k})

(* The sizes of the classes add up to the size of their union.             *)
LEMMA SumOfClasses ==
  ASSUME NEW U, IsFiniteSet(U), NEW label, NEW n \in Nat, NEW f,
         \A u \in U : label[u] \in Int, CountsClasses(f, U, label, n)
  PROVE  SumOf(f, n) = Cardinality(Labelled(U, label, n))
<1> DEFINE C(k) == {u \in U : label[u] = k}
           B(k) == {u \in U : label[u] \in 0 .. (k - 1)}
           S == {k \in Nat : k <= n => SumOf(f, k) = Cardinality(B(k))}
<1>1. 0 \in S
  <2>1. B(0) = {} OBVIOUS
  <2>2. Cardinality(B(0)) = 0 BY <2>1, FS_EmptySet
  <2>3. SumOf(f, 0) = 0 BY SumOfRecursion
  <2> HIDE DEF B
  <2> QED BY <2>2, <2>3
<1>2. ASSUME NEW k \in S PROVE k + 1 \in S
  <2>1. SUFFICES ASSUME k + 1 <= n PROVE SumOf(f, k + 1) = Cardinality(B(k + 1)) OBVIOUS
  <2>2. k \in 0 .. (n - 1) BY <2>1
  <2>3. SumOf(f, k) = Cardinality(B(k)) BY <2>1
  <2>4. f[k] = Cardinality(C(k)) BY <2>2 DEF CountsClasses
  <2>5. SumOf(f, k + 1) = SumOf(f, k) + f[k] BY SumOfRecursion
  <2>6. B(k + 1) = B(k) \cup C(k) OBVIOUS
  <2>7. B(k) \cap C(k) = {} OBVIOUS
  <2>8. IsFiniteSet(B(k)) /\ IsFiniteSet(C(k))
    <3>1. B(k) \subseteq U /\ C(k) \subseteq U OBVIOUS
    <3> QED BY <3>1, FS_Subset
  <2> HIDE DEF B, C, S
  <2>9. Cardinality(B(k + 1)) = Cardinality(B(k)) + Cardinality(C(k))
    BY <2>6, <2>7, <2>8, DisjointUnion
  <2> QED BY <2>3, <2>4, <2>5, <2>9
<1>3. S = Nat
  <2> HIDE DEF S
  <2>1. S \in SUBSET Nat BY DEF S
  <2> QED BY <1>1, <1>2, <2>1, SetInduction
<1> QED BY <1>3 DEF Labelled

(* In a strict order of n things, the number of things before each is its  *)
(* place in 0 .. n - 1, and each place is taken once.                      *)
LEMMA Places ==
  ASSUME NEW n \in Nat, NEW before,
         \A a, b \in 0 .. (n - 1) : a # b => <<a, b>> \in before \/ <<b, a>> \in before,
         \A a \in 0 .. (n - 1) : <<a, a>> \notin before,
         \A a, b, c \in 0 .. (n - 1) :
           <<a, b>> \in before /\ <<b, c>> \in before => <<a, c>> \in before
  PROVE  LET D == 0 .. (n - 1)
             place == [a \in D |-> Cardinality({b \in D : <<b, a>> \in before})]
         IN  /\ place \in Bijection(D, D)
             /\ \A a, b \in D : <<a, b>> \in before <=> place[a] < place[b]
<1> DEFINE D == 0 .. (n - 1)
           A(a) == {b \in D : <<b, a>> \in before}
           place == [a \in D |-> Cardinality(A(a))]
<1>1. IsFiniteSet(D) /\ Cardinality(D) = n
  <2>1. 0 \in Int /\ n - 1 \in Int OBVIOUS
  <2> QED BY <2>1, FS_Interval
<1>2. ASSUME NEW a \in D
      PROVE  IsFiniteSet(A(a)) /\ Cardinality(A(a)) \in D /\ Cardinality(A(a)) \in Int
  <2>1. A(a) \subseteq D /\ a \notin A(a) /\ a \in D OBVIOUS
  <2>2. A(a) # D BY <2>1
  <2> HIDE DEF A, D
  <2>3. IsFiniteSet(A(a)) /\ Cardinality(A(a)) <= Cardinality(D) BY <1>1, <2>1, FS_Subset
  <2>4. Cardinality(A(a)) # Cardinality(D) BY <1>1, <2>1, <2>2, FS_Subset
  <2>5. Cardinality(A(a)) \in Nat BY <2>3, FS_CardinalityType
  <2>6. Cardinality(A(a)) \in 0 .. (n - 1) BY <1>1, <2>3, <2>4, <2>5
  <2> QED BY <2>3, <2>5, <2>6 DEF D
<1>3. ASSUME NEW a \in D, NEW b \in D, <<a, b>> \in before PROVE place[a] < place[b]
  <2>1. A(a) \subseteq A(b) BY <1>3
  <2>2. a \in A(b) /\ a \notin A(a) BY <1>3
  <2>3. A(a) # A(b) BY <2>2
  <2>5. place[a] = Cardinality(A(a)) /\ place[b] = Cardinality(A(b)) OBVIOUS
  <2> HIDE DEF A, D, place
  <2>4. /\ IsFiniteSet(A(b)) /\ Cardinality(A(a)) \in Int /\ Cardinality(A(b)) \in Int
    BY <1>2
  <2>6. Cardinality(A(a)) <= Cardinality(A(b)) BY <2>1, <2>4, FS_Subset
  <2>7. Cardinality(A(a)) # Cardinality(A(b)) BY <2>1, <2>3, <2>4, FS_Subset
  <2> QED BY <2>4, <2>5, <2>6, <2>7
<1>4. \A a \in D : place[a] \in D BY <1>2
<1>5. place \in [D -> D] BY <1>4
<1> HIDE DEF place, A
<1>6. ASSUME NEW a \in D, NEW b \in D, place[a] < place[b] PROVE <<a, b>> \in before
  <2>1. a # b BY <1>4, <1>6
  <2>2. CASE <<b, a>> \in before
    <3>1. place[b] < place[a] BY <1>3, <2>2
    <3> QED BY <3>1, <1>4, <1>6
  <2> QED BY <2>1, <2>2
<1>7. ASSUME NEW a \in D, NEW b \in D, place[a] = place[b] PROVE a = b
  <2>1. SUFFICES ASSUME a # b PROVE FALSE OBVIOUS
  <2>2. place[a] < place[b] \/ place[b] < place[a] BY <1>3, <2>1
  <2> QED BY <1>4, <1>7, <2>2
<1>8. place \in Injection(D, D) BY <1>5, <1>7 DEF Injection, IsInjective
<1>9. place \in Surjection(D, D)
  <2> HIDE DEF D
  <2> QED BY <1>1, <1>8, FS_Injection
<1>10. place \in Bijection(D, D) BY <1>8, <1>9 DEF Bijection
<1> QED BY <1>3, <1>6, <1>10 DEF place, A

------------------------------------------------------------------------------
(* Numbers given in blocks: keep labels each thing with the block it is    *)
(* in, place orders the things, and the blocks are numbered one after the  *)
(* other.                                                                  *)
BlockOf(D, keep, q) == {d \in D : keep[d] = q}
BlockStart(D, keep, r) == SumOf([q \in 0 .. (r - 1) |-> Cardinality(BlockOf(D, keep, q))], r)
InBlock(D, keep, place, d) ==
  Cardinality({e \in BlockOf(D, keep, keep[d]) : place[e] < place[d]})
BlockNumber(D, keep, place, d) ==
  BlockStart(D, keep, keep[d]) + InBlock(D, keep, place, d)

Blocks(D, keep, place, n) ==
  /\ IsFiniteSet(D) /\ n \in Nat
  /\ keep \in [D -> 0 .. (n - 1)]
  /\ place \in [D -> Nat]
  /\ \A d, e \in D : place[d] = place[e] => d = e

(* A block starts at the number of things in the blocks before.            *)
LEMMA BlockStartCounts ==
  ASSUME NEW D, NEW keep, NEW place, NEW n, Blocks(D, keep, place, n), NEW r \in 0 .. n
  PROVE  BlockStart(D, keep, r) = Cardinality(Labelled(D, keep, r))
<1> DEFINE f == [q \in 0 .. (r - 1) |-> Cardinality(BlockOf(D, keep, q))]
<1>1. IsFiniteSet(D) /\ r \in Nat /\ \A u \in D : keep[u] \in Int BY DEF Blocks
<1>2. CountsClasses(f, D, keep, r) BY DEF CountsClasses, BlockOf
<1>3. BlockStart(D, keep, r) = SumOf(f, r) BY DEF BlockStart
<1> HIDE DEF f
<1> QED BY <1>1, <1>2, <1>3, SumOfClasses

(* The blocks follow one another.                                          *)
LEMMA BlockStarts ==
  ASSUME NEW D, NEW keep, NEW place, NEW n, Blocks(D, keep, place, n)
  PROVE  /\ \A r \in 0 .. n : BlockStart(D, keep, r) \in Nat
         /\ \A r \in 0 .. (n - 1) :
              /\ Cardinality(BlockOf(D, keep, r)) \in Nat
              /\ BlockStart(D, keep, r + 1)
                   = BlockStart(D, keep, r) + Cardinality(BlockOf(D, keep, r))
         /\ \A r, q \in 0 .. n : r <= q => BlockStart(D, keep, r) <= BlockStart(D, keep, q)
         /\ BlockStart(D, keep, n) = Cardinality(D)
<1>0. IsFiniteSet(D) /\ n \in Nat BY DEF Blocks
<1>1. ASSUME NEW r \in 0 .. n
      PROVE  /\ IsFiniteSet(Labelled(D, keep, r))
             /\ Cardinality(Labelled(D, keep, r)) \in Nat
  <2>1. Labelled(D, keep, r) \subseteq D BY DEF Labelled
  <2>2. IsFiniteSet(Labelled(D, keep, r)) BY <1>0, <2>1, FS_Subset
  <2> QED BY <2>2, FS_CardinalityType
<1>2. \A r \in 0 .. n : BlockStart(D, keep, r) \in Nat BY <1>1, BlockStartCounts
<1>3. ASSUME NEW r \in 0 .. (n - 1)
      PROVE  /\ Cardinality(BlockOf(D, keep, r)) \in Nat
             /\ BlockStart(D, keep, r + 1)
                   = BlockStart(D, keep, r) + Cardinality(BlockOf(D, keep, r))
  <2>1. BlockOf(D, keep, r) \subseteq D BY DEF BlockOf
  <2>2. IsFiniteSet(BlockOf(D, keep, r)) BY <1>0, <2>1, FS_Subset
  <2>3. r \in 0 .. n /\ r + 1 \in 0 .. n BY <1>0
  <2>4. Labelled(D, keep, r + 1) = Labelled(D, keep, r) \cup BlockOf(D, keep, r)
    <3>1. 0 .. ((r + 1) - 1) = (0 .. (r - 1)) \cup {r} BY <2>3
    <3> QED BY <3>1 DEF Labelled, BlockOf
  <2>5. Labelled(D, keep, r) \cap BlockOf(D, keep, r) = {}
    <3>1. r \notin 0 .. (r - 1) BY <2>3
    <3> QED BY <3>1 DEF Labelled, BlockOf
  <2>6. Cardinality(Labelled(D, keep, r) \cup BlockOf(D, keep, r))
          = Cardinality(Labelled(D, keep, r)) + Cardinality(BlockOf(D, keep, r))
    BY <1>1, <2>2, <2>3, <2>5, DisjointUnion
  <2>7. Cardinality(BlockOf(D, keep, r)) \in Nat BY <2>2, FS_CardinalityType
  <2> QED BY <2>3, <2>4, <2>6, <2>7, BlockStartCounts
<1>4. ASSUME NEW r \in 0 .. n, NEW q \in 0 .. n, r <= q
      PROVE  BlockStart(D, keep, r) <= BlockStart(D, keep, q)
  <2>1. 0 .. (r - 1) \subseteq 0 .. (q - 1) BY <1>4
  <2>2. Labelled(D, keep, r) \in SUBSET Labelled(D, keep, q) BY <2>1 DEF Labelled
  <2>3. Cardinality(Labelled(D, keep, r)) <= Cardinality(Labelled(D, keep, q))
    BY <1>1, <2>2, FS_Subset
  <2> QED BY <2>3, BlockStartCounts
<1>5. BlockStart(D, keep, n) = Cardinality(D)
  <2>1. Labelled(D, keep, n) = D BY DEF Labelled, Blocks
  <2>2. n \in 0 .. n BY <1>0
  <2> QED BY <2>1, <2>2, BlockStartCounts
<1> QED BY <1>2, <1>3, <1>4, <1>5

(* A place in a block is below its size.                                   *)
LEMMA InBlockRange ==
  ASSUME NEW D, NEW keep, NEW place, NEW n, Blocks(D, keep, place, n), NEW d \in D
  PROVE  /\ InBlock(D, keep, place, d) \in Nat
         /\ InBlock(D, keep, place, d) < Cardinality(BlockOf(D, keep, keep[d]))
<1> DEFINE B == BlockOf(D, keep, keep[d])
           A == {e \in B : place[e] < place[d]}
<1>1. IsFiniteSet(D) /\ B \subseteq D /\ d \in B /\ place[d] \in Nat BY DEF Blocks, BlockOf
<1>2. A \subseteq B /\ d \notin A BY <1>1
<1>3. InBlock(D, keep, place, d) = Cardinality(A) BY DEF InBlock
<1> HIDE DEF A, B
<1>4. IsFiniteSet(B) BY <1>1, FS_Subset
<1>5. /\ IsFiniteSet(A) /\ Cardinality(A) <= Cardinality(B)
      /\ Cardinality(B) = Cardinality(A) => B = A
  BY <1>2, <1>4, FS_Subset
<1>6. Cardinality(A) \in Nat /\ Cardinality(B) \in Nat BY <1>4, <1>5, FS_CardinalityType
<1>7. A # B BY <1>1, <1>2
<1>8. Cardinality(A) < Cardinality(B) BY <1>5, <1>6, <1>7
<1> QED BY <1>3, <1>6, <1>8 DEF B

(* Places in a block increase.                                             *)
LEMMA InBlockStrict ==
  ASSUME NEW D, NEW keep, NEW place, NEW n, Blocks(D, keep, place, n),
         NEW d \in D, NEW e \in D, keep[d] = keep[e], place[d] < place[e]
  PROVE  InBlock(D, keep, place, d) < InBlock(D, keep, place, e)
<1> DEFINE B == BlockOf(D, keep, keep[d])
           A == {x \in B : place[x] < place[d]}
           C == {x \in B : place[x] < place[e]}
<1>1. IsFiniteSet(D) /\ B \subseteq D /\ d \in B /\ (\A x \in D : place[x] \in Nat)
  BY DEF Blocks, BlockOf
<1>2. A \subseteq C /\ d \in C /\ d \notin A
  <2>1. ASSUME NEW x \in A PROVE x \in C
    <3>1. place[x] \in Nat /\ place[d] \in Nat /\ place[e] \in Nat BY <1>1
    <3> QED BY <3>1
  <2> QED BY <1>1, <2>1
<1>3. /\ InBlock(D, keep, place, d) = Cardinality(A)
      /\ InBlock(D, keep, place, e) = Cardinality(C) BY DEF InBlock
<1>4. C \subseteq D BY <1>1
<1> HIDE DEF A, B, C
<1>5. IsFiniteSet(C) BY <1>1, <1>4, FS_Subset
<1>6. /\ IsFiniteSet(A) /\ Cardinality(A) <= Cardinality(C)
      /\ Cardinality(C) = Cardinality(A) => C = A
  BY <1>2, <1>5, FS_Subset
<1>7. Cardinality(A) \in Nat /\ Cardinality(C) \in Nat BY <1>5, <1>6, FS_CardinalityType
<1>8. A # C BY <1>2
<1> QED BY <1>3, <1>6, <1>7, <1>8

(* The number is in the interval of its block and in that of no other.     *)
LEMMA NumberInBlock ==
  ASSUME NEW D, NEW keep, NEW place, NEW n, Blocks(D, keep, place, n), NEW d \in D,
         NEW r \in 0 .. (n - 1)
  PROVE  LET x == BlockNumber(D, keep, place, d)
             s == BlockStart(D, keep, r)
         IN  /\ x \in 0 .. (Cardinality(D) - 1)
             /\ s <= x /\ x < s + Cardinality(BlockOf(D, keep, r)) <=> keep[d] = r
<1> DEFINE x == BlockNumber(D, keep, place, d)
           o == keep[d]
           S(q) == BlockStart(D, keep, q)
           C(q) == Cardinality(BlockOf(D, keep, q))
<1>1. n \in Nat /\ o \in 0 .. (n - 1) BY DEF Blocks
<1>2. x = S(o) + InBlock(D, keep, place, d) BY DEF BlockNumber
<1>3. InBlock(D, keep, place, d) \in Nat /\ InBlock(D, keep, place, d) < C(o)
  BY InBlockRange
<1>4. /\ \A q \in 0 .. n : S(q) \in Nat
      /\ \A q \in 0 .. (n - 1) : C(q) \in Nat /\ S(q + 1) = S(q) + C(q)
      /\ \A p, q \in 0 .. n : p <= q => S(p) <= S(q)
      /\ S(n) = Cardinality(D)
  BY BlockStarts
<1> HIDE DEF x, o, S, C
<1>5. /\ o + 1 \in 0 .. n /\ n \in 0 .. n /\ o \in 0 .. n
      /\ r + 1 \in 0 .. n /\ r \in 0 .. n /\ r \in Int /\ o \in Int BY <1>1
<1>6. S(o) <= x /\ x < S(o + 1) /\ x \in Nat BY <1>1, <1>2, <1>3, <1>4, <1>5
<1>7. S(o + 1) <= S(n) /\ S(o + 1) \in Nat /\ S(n) \in Nat BY <1>1, <1>4, <1>5
<1>8. x \in 0 .. (Cardinality(D) - 1) BY <1>4, <1>6, <1>7
<1>9. CASE o = r
  <2>1. S(r) <= x /\ x < S(r) + C(r) BY <1>1, <1>4, <1>6, <1>9
  <2> QED BY <1>8, <1>9, <2>1 DEF x, o, S, C
<1>10. CASE o < r
  <2>1. S(o + 1) <= S(r) BY <1>4, <1>5, <1>10
  <2>2. ~(S(r) <= x) BY <1>4, <1>5, <1>6, <2>1
  <2> QED BY <1>5, <1>8, <1>10, <2>2 DEF x, o, S, C
<1>11. CASE r < o
  <2>1. S(r + 1) <= S(o) BY <1>4, <1>5, <1>11
  <2>2. ~(x < S(r) + C(r)) BY <1>4, <1>5, <1>6, <2>1
  <2> QED BY <1>5, <1>8, <1>11, <2>2 DEF x, o, S, C
<1> QED BY <1>5, <1>9, <1>10, <1>11

(* Two things have two numbers.                                            *)
LEMMA NumbersDiffer ==
  ASSUME NEW D, NEW keep, NEW place, NEW n, Blocks(D, keep, place, n),
         NEW d \in D, NEW e \in D,
         BlockNumber(D, keep, place, d) = BlockNumber(D, keep, place, e)
  PROVE  d = e
<1>1. keep[d] \in 0 .. (n - 1) /\ place[d] \in Nat /\ place[e] \in Nat BY DEF Blocks
<1>2. keep[d] = keep[e] BY <1>1, NumberInBlock
<1>3. /\ InBlock(D, keep, place, d) \in Nat /\ InBlock(D, keep, place, e) \in Nat
  BY InBlockRange
<1>4. BlockStart(D, keep, keep[d]) \in Nat
  <2>1. keep[d] \in 0 .. n BY <1>1 DEF Blocks
  <2> QED BY <2>1, BlockStarts
<1>5. InBlock(D, keep, place, d) = InBlock(D, keep, place, e)
  BY <1>2, <1>3, <1>4 DEF BlockNumber
<1>6. ~(place[d] < place[e]) BY <1>2, <1>3, <1>5, InBlockStrict
<1>7. ~(place[e] < place[d]) BY <1>2, <1>3, <1>5, InBlockStrict
<1>8. place[d] = place[e] BY <1>1, <1>6, <1>7
<1> QED BY <1>8 DEF Blocks

(* There is no gap.                                                        *)
LEMMA NumbersFill ==
  ASSUME NEW D, NEW keep, NEW place, NEW n, Blocks(D, keep, place, n)
  PROVE  {BlockNumber(D, keep, place, d) : d \in D} = 0 .. (Cardinality(D) - 1)
<1> DEFINE num == [d \in D |-> BlockNumber(D, keep, place, d)]
           N == 0 .. (Cardinality(D) - 1)
<1>1. IsFiniteSet(D) /\ Cardinality(D) \in Nat BY FS_CardinalityType DEF Blocks
<1>2. ASSUME NEW d \in D PROVE BlockNumber(D, keep, place, d) \in N
  <2>1. keep[d] \in 0 .. (n - 1) BY DEF Blocks
  <2> QED BY <2>1, NumberInBlock
<1>3. num \in [D -> N] BY <1>2
<1>4. \A d, e \in D : num[d] = num[e] => d = e BY NumbersDiffer
<1>5. IsFiniteSet(N) /\ Cardinality(N) = Cardinality(D)
  <2>1. 0 \in Int /\ Cardinality(D) - 1 \in Int BY <1>1
  <2> QED BY <1>1, <2>1, FS_Interval
<1>6. {BlockNumber(D, keep, place, d) : d \in D} = {num[d] : d \in D} OBVIOUS
<1> HIDE DEF num, N
<1>7. num \in Injection(D, N) BY <1>3, <1>4 DEF Injection, IsInjective
<1>8. num \in Surjection(D, N) BY <1>5, <1>7, FS_Injection
<1>9. {num[d] : d \in D} = N BY <1>3, <1>8 DEF Surjection
<1> QED BY <1>6, <1>9 DEF N

------------------------------------------------------------------------------
(* Layouts *)

(* What makes a layout well formed, the kind of its ids aside: they may be *)
(* numbers, as those of an exported mesh, or sets of vertices, as those of *)
(* edges that have no number yet.                                          *)
Consistent(L, R) ==
  /\ \E n \in Nat : R = 0 .. (n - 1)
  /\ \A r \in R :
       /\ L.size[r] \in Nat
       /\ \A i \in Local(L, r) : L.owners[r][i] \in R
       /\ \A i, k \in Local(L, r) : L.ids[r][i] = L.ids[r][k] => i = k
  /\ \A r, q \in R : \A i \in Local(L, r), k \in Local(L, q) :
       L.ids[r][i] = L.ids[q][k] => L.owners[r][i] = L.owners[q][k]
  /\ \A r \in R : \A i \in Local(L, r) :
       \E k \in Local(L, L.owners[r][i]) :
         L.ids[L.owners[r][i]][k] = L.ids[r][i]

(* The local index of an entity on a rank that holds it.                   *)
PlaceIn(L, o, id) == CHOOSE x \in Local(L, o) : L.ids[o][x] = id

(* The entities of a rank are finitely many.                               *)
LEMMA PartFinite ==
  ASSUME NEW L, NEW r, L.size[r] \in Nat, NEW S \in SUBSET Local(L, r)
  PROVE  IsFiniteSet(S) /\ Cardinality(S) \in Nat
<1>0. 0 \in Int /\ L.size[r] - 1 \in Int OBVIOUS
<1>1. IsFiniteSet(0 .. (L.size[r] - 1)) BY <1>0, FS_Interval
<1>2. IsFiniteSet(S) BY <1>1, FS_Subset DEF Local
<1> QED BY <1>2, FS_CardinalityType

(* An entity is at one place on the rank.                                  *)
LEMMA PlaceInIs ==
  ASSUME NEW L, NEW R, Consistent(L, R), NEW r \in R, NEW i \in Local(L, r)
  PROVE  PlaceIn(L, r, L.ids[r][i]) = i
<1>1. \A x \in Local(L, r) : L.ids[r][x] = L.ids[r][i] => x = i BY DEF Consistent
<1>2. (CHOOSE x \in Local(L, r) : L.ids[r][x] = L.ids[r][i]) = i BY <1>1
<1> QED BY <1>2 DEF PlaceIn

(* The owner of an entity has it, as its own.                              *)
LEMMA PlaceAtOwner ==
  ASSUME NEW L, NEW R, Consistent(L, R), NEW r \in R, NEW i \in Local(L, r),
         NEW o, o = L.owners[r][i]
  PROVE  /\ o \in R
         /\ PlaceIn(L, o, L.ids[r][i]) \in Owned(L, o)
         /\ L.ids[o][PlaceIn(L, o, L.ids[r][i])] = L.ids[r][i]
<1> DEFINE k == PlaceIn(L, o, L.ids[r][i])
<1>1. o \in R BY DEF Consistent
<1>2. \E x \in Local(L, o) : L.ids[o][x] = L.ids[r][i] BY DEF Consistent
<1>3. k \in Local(L, o) /\ L.ids[o][k] = L.ids[r][i] BY <1>2 DEF PlaceIn
<1> HIDE DEF k
<1>4. L.owners[o][k] = o BY <1>1, <1>3 DEF Consistent
<1> QED BY <1>1, <1>3, <1>4 DEF k, Owned

(* How many of the entities that a rank owns come before the place k.      *)
OwnedBefore(L, o, k) == Cardinality({x \in Owned(L, o) : x < k})

(* Fewer come before an entity than there are.                             *)
LEMMA BeforeRange ==
  ASSUME NEW L, NEW R, Consistent(L, R), NEW o \in R, NEW k \in Owned(L, o)
  PROVE  OwnedBefore(L, o, k) \in Nat /\ OwnedBefore(L, o, k) < Cardinality(Owned(L, o))
<1> DEFINE S == {x \in Owned(L, o) : x < k}
<1>1. L.size[o] \in Nat BY DEF Consistent
<1>2. Owned(L, o) \in SUBSET Local(L, o) BY DEF Owned
<1>3. IsFiniteSet(Owned(L, o)) /\ Cardinality(Owned(L, o)) \in Nat
  BY <1>1, <1>2, PartFinite
<1>4. S \in SUBSET Owned(L, o) OBVIOUS
<1>5. k \in Int BY <1>2 DEF Local
<1>6. S # Owned(L, o) BY <1>5
<1> HIDE DEF S
<1>7. /\ Cardinality(S) <= Cardinality(Owned(L, o))
      /\ Cardinality(Owned(L, o)) = Cardinality(S) => Owned(L, o) = S
  BY <1>3, <1>4, FS_Subset
<1>8. Cardinality(S) \in Nat BY <1>1, <1>2, <1>4, PartFinite
<1>9. OwnedBefore(L, o, k) = Cardinality(S) BY DEF OwnedBefore, S
<1> QED BY <1>3, <1>6, <1>7, <1>8, <1>9

(* Two entities that a rank owns have different numbers before them.       *)
LEMMA BeforeStrict ==
  ASSUME NEW L, NEW R, Consistent(L, R), NEW o \in R,
         NEW k \in Owned(L, o), NEW l \in Owned(L, o), k < l
  PROVE  OwnedBefore(L, o, k) < OwnedBefore(L, o, l)
<1> DEFINE S == {x \in Owned(L, o) : x < k}
           T == {x \in Owned(L, o) : x < l}
<1>1. L.size[o] \in Nat BY DEF Consistent
<1>2. Owned(L, o) \in SUBSET Local(L, o) BY DEF Owned
<1>3. T \in SUBSET Local(L, o) /\ S \in SUBSET Local(L, o) BY <1>2
<1>4. \A x \in Owned(L, o) : x \in Int BY <1>2 DEF Local
<1>5. S \in SUBSET T BY <1>4
<1>6. k \in T /\ k \notin S BY <1>4
<1> HIDE DEF S, T
<1>7. IsFiniteSet(T) /\ Cardinality(T) \in Nat BY <1>1, <1>3, PartFinite
<1>8. Cardinality(S) \in Nat BY <1>1, <1>3, PartFinite
<1>9. Cardinality(S) <= Cardinality(T) /\ (Cardinality(T) = Cardinality(S) => T = S)
  BY <1>5, <1>7, FS_Subset
<1>10. Cardinality(S) < Cardinality(T) BY <1>6, <1>7, <1>8, <1>9
<1> QED BY <1>10 DEF OwnedBefore, S, T

(* A rank owns a natural number of entities.                               *)
LEMMA NumOwnedType ==
  ASSUME NEW L, NEW R, Consistent(L, R), NEW o \in R
  PROVE  Cardinality(Owned(L, o)) \in Nat
<1>1. L.size[o] \in Nat BY DEF Consistent
<1>2. Owned(L, o) \in SUBSET Local(L, o) BY DEF Owned
<1> QED BY <1>1, <1>2, PartFinite

(* The ranks number what they own in intervals that follow one another.    *)
LEMMA BelowIsNat ==
  ASSUME NEW L, NEW R, Consistent(L, R), NEW o \in R
  PROVE  Below(L, o) \in Nat
<1> DEFINE f == [q \in 0 .. (o - 1) |-> Cardinality(Owned(L, q))]
<1>1. o \in Nat /\ \A k \in 0 .. (o - 1) : k \in R BY DEF Consistent
<1>2. \A k \in 0 .. (o - 1) : f[k] \in Nat BY <1>1, NumOwnedType
<1> HIDE DEF f
<1>3. SumOf(f, o) \in Nat BY <1>1, <1>2, SumOfType
<1> QED BY <1>3 DEF f, Below

(* The ranks below the next rank own what those below this one own and     *)
(* what it owns itself.                                                    *)
LEMMA BelowStep ==
  ASSUME NEW L, NEW o \in Nat
  PROVE  Below(L, o + 1) = Below(L, o) + Cardinality(Owned(L, o))
<1> DEFINE f == [q \in 0 .. (o - 1) |-> Cardinality(Owned(L, q))]
           g == [q \in 0 .. ((o + 1) - 1) |-> Cardinality(Owned(L, q))]
<1>1. \A k \in 0 .. (o - 1) : f[k] = g[k] OBVIOUS
<1>2. g[o] = Cardinality(Owned(L, o)) OBVIOUS
<1>3. Below(L, o) = SumOf(f, o) /\ Below(L, o + 1) = SumOf(g, o + 1) BY DEF Below
<1> HIDE DEF f, g
<1>4. SumOf(f, o) = SumOf(g, o) BY <1>1, SumOfSame
<1>5. SumOf(g, o + 1) = SumOf(g, o) + g[o] BY SumOfRecursion
<1> QED BY <1>2, <1>3, <1>4, <1>5

(* The interval of a lower rank ends before that of a higher one begins.   *)
LEMMA BelowIncreases ==
  ASSUME NEW L, NEW R, Consistent(L, R), NEW o \in R, NEW p \in R, o < p
  PROVE  Below(L, o) + Cardinality(Owned(L, o)) <= Below(L, p)
<1> DEFINE n == Below(L, o) + Cardinality(Owned(L, o))
           S == {d \in Nat : o + 1 + d \in R => n <= Below(L, o + 1 + d)}
<1>1. o \in Nat /\ p \in Nat BY DEF Consistent
<1>2. n \in Int BY BelowIsNat, NumOwnedType
<1>3. 0 \in S
  <2>1. Below(L, o + 1) = n BY <1>1, BelowStep
  <2> QED BY <1>1, <1>2, <2>1
<1>4. ASSUME NEW d \in S PROVE d + 1 \in S
  <2> DEFINE m == o + 1 + d
  <2>1. SUFFICES ASSUME m + 1 \in R PROVE n <= Below(L, m + 1)
    <3>1. o + 1 + (d + 1) = m + 1 BY <1>1
    <3> QED BY <3>1
  <2>2. m \in R /\ m \in Nat BY <1>1, <2>1 DEF Consistent
  <2>3. n <= Below(L, m) BY <2>2
  <2>4. Below(L, m) \in Nat /\ Cardinality(Owned(L, m)) \in Nat
    BY <2>2, BelowIsNat, NumOwnedType
  <2>5. Below(L, m + 1) = Below(L, m) + Cardinality(Owned(L, m)) BY <2>2, BelowStep
  <2> HIDE DEF m, n
  <2> QED BY <1>2, <2>3, <2>4, <2>5
<1>5. p - (o + 1) \in S
  <2>1. p - (o + 1) \in Nat BY <1>1
  <2>2. S \in SUBSET Nat OBVIOUS
  <2> HIDE DEF S
  <2> QED BY <1>3, <1>4, <2>1, <2>2, SetInduction
<1>6. o + 1 + (p - (o + 1)) = p BY <1>1
<1> QED BY <1>5, <1>6

------------------------------------------------------------------------------
(* The canonical numbering *)

(* The number of an entity is in the interval of its owner.                *)
LEMMA CanonicalInterval ==
  ASSUME NEW L, NEW R, Consistent(L, R), NEW r \in R, NEW i \in Local(L, r),
         NEW o, o = L.owners[r][i], NEW k, k = PlaceIn(L, o, L.ids[r][i])
  PROVE  /\ Canonical(L, r, i) = Below(L, o) + OwnedBefore(L, o, k)
         /\ Canonical(L, r, i) \in Nat
         /\ Below(L, o) <= Canonical(L, r, i)
         /\ Canonical(L, r, i) < Below(L, o) + Cardinality(Owned(L, o))
<1>1. o \in R /\ k \in Owned(L, o) BY PlaceAtOwner
<1>2. Canonical(L, r, i) = Below(L, o) + OwnedBefore(L, o, k)
  BY DEF Canonical, OwnedBefore, PlaceIn
<1>3. Below(L, o) \in Nat BY <1>1, BelowIsNat
<1>4. OwnedBefore(L, o, k) \in Nat /\ OwnedBefore(L, o, k) < Cardinality(Owned(L, o))
  BY <1>1, BeforeRange
<1>5. Cardinality(Owned(L, o)) \in Nat BY <1>1, NumOwnedType
<1> QED BY <1>2, <1>3, <1>4, <1>5

(* The holders of an entity have one number for it.                        *)
LEMMA CanonicalAgrees ==
  ASSUME NEW L, NEW R, Consistent(L, R), NEW r \in R, NEW i \in Local(L, r),
         NEW q \in R, NEW k \in Local(L, q), L.ids[r][i] = L.ids[q][k]
  PROVE  Canonical(L, r, i) = Canonical(L, q, k)
<1>1. L.owners[r][i] = L.owners[q][k] BY DEF Consistent
<1> QED BY <1>1 DEF Canonical

(* No two entities have one number, on whichever ranks they are.           *)
LEMMA CanonicalSeparates ==
  ASSUME NEW L, NEW R, Consistent(L, R), NEW r \in R, NEW i \in Local(L, r),
         NEW q \in R, NEW k \in Local(L, q),
         Canonical(L, r, i) = Canonical(L, q, k)
  PROVE  L.ids[r][i] = L.ids[q][k]
<1> DEFINE o == L.owners[r][i]
           p == L.owners[q][k]
           x == PlaceIn(L, o, L.ids[r][i])
           y == PlaceIn(L, p, L.ids[q][k])
           n == Canonical(L, r, i)
<1>1. /\ o \in R /\ x \in Owned(L, o) /\ L.ids[o][x] = L.ids[r][i]
      /\ p \in R /\ y \in Owned(L, p) /\ L.ids[p][y] = L.ids[q][k]
  BY PlaceAtOwner
<1>2. /\ n = Below(L, o) + OwnedBefore(L, o, x) /\ n \in Nat
      /\ Below(L, o) <= n /\ n < Below(L, o) + Cardinality(Owned(L, o))
  BY CanonicalInterval
<1>3. /\ n = Below(L, p) + OwnedBefore(L, p, y)
      /\ Below(L, p) <= n /\ n < Below(L, p) + Cardinality(Owned(L, p))
  BY CanonicalInterval
<1> HIDE DEF n, o, p, x, y
<1>4. /\ Below(L, o) \in Nat /\ Below(L, p) \in Nat
      /\ Cardinality(Owned(L, o)) \in Nat /\ Cardinality(Owned(L, p)) \in Nat
  BY <1>1, BelowIsNat, NumOwnedType
<1>5. ~(o < p) BY <1>1, <1>2, <1>3, <1>4, BelowIncreases
<1>6. ~(p < o) BY <1>1, <1>2, <1>3, <1>4, BelowIncreases
<1>7. o = p BY <1>1, <1>5, <1>6 DEF Consistent
<1>8. OwnedBefore(L, o, x) \in Nat /\ OwnedBefore(L, o, y) \in Nat
  BY <1>1, <1>7, BeforeRange
<1>9. OwnedBefore(L, o, x) = OwnedBefore(L, o, y) BY <1>2, <1>3, <1>4, <1>7, <1>8
<1>10. ~(x < y) /\ ~(y < x) BY <1>1, <1>7, <1>8, <1>9, BeforeStrict
<1>11. x \in Int /\ y \in Int BY <1>1 DEF Owned, Local
<1>12. x = y BY <1>10, <1>11
<1> QED BY <1>1, <1>7, <1>12
===============================================================================
