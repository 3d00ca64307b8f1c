-------------------------- MODULE LoadBalancerProofs --------------------------
(***************************************************************************)
(* For any number of ranks, any mesh and any answer of the partitioner:    *)
(* the parallel radix sort sorts, its rings do not overrun their buffers,  *)
(* and the greedy assignment gives each part to a rank of its own.         *)
(*                                                                         *)
(* What a rank does depends on the input alone: after i passes the ranks   *)
(* hold Stages(in)[i] between them, whoever has got there first.           *)
(***************************************************************************)
EXTENDS LoadBalancer, SumsProofs

Pos == 0 .. (P * P - 1)
Arrays == [Pos -> Pos]

(* An entry of the similarity matrix of the input x, and its i-th digit.   *)
RowOf(x, r) ==
  [q \in Rank |-> Cardinality({c \in DOMAIN x.rank : x.rank[c] = r /\ x.part[c] = q})]
Sim(x, k) == RowOf(x, k \div P)[k % P]
Dig(x, k, i) == (Sim(x, k) \div Radix[i]) % Base

(* The i-th pass on the array S: the order it sorts by, where each entry   *)
(* goes, where each comes from, and the array it makes.                    *)
Order2(x, S, i) ==
  {p \in Pos \X Pos : \/ Dig(x, S[p[1]], i) < Dig(x, S[p[2]], i)
                      \/ Dig(x, S[p[1]], i) = Dig(x, S[p[2]], i) /\ p[1] < p[2]}
Goes(x, S, i) ==
  [n \in Pos |-> Cardinality({m \in Pos : <<m, n>> \in Order2(x, S, i)})]
From(x, S, i) == [m \in Pos |-> CHOOSE n \in Pos : Goes(x, S, i)[n] = m]
Passed(x, S, i) == [m \in Pos |-> S[From(x, S, i)[m]]]

Stages(x) ==
  LET t[i \in Nat] == IF i = 0 THEN [n \in Pos |-> n] ELSE Passed(x, t[i - 1], i - 1)
  IN  t

------------------------------------------------------------------------------
(* Places in the matrix *)

LEMMA DivMod ==
  /\ \A r, k \in Rank : /\ r * P + k \in Pos
                        /\ (r * P + k) \div P = r /\ (r * P + k) % P = k
  /\ \A n \in Pos : /\ n \div P \in Rank /\ n % P \in Rank
                    /\ (n \div P) * P + (n % P) = n
<1>1. \A r, k \in 0 .. (P - 1) : (r * P + k) \div P = r /\ (r * P + k) % P = k
  BY BalancerAssumption
<1>2. \A r, k \in 0 .. (P - 1) : r * P + k \in 0 .. (P * P - 1) BY BalancerAssumption
<1>3. \A n \in 0 .. (P * P - 1) : n \div P \in 0 .. (P - 1) BY BalancerAssumption
<1>4. \A n \in Nat : n = (n \div P) * P + (n % P) /\ n % P \in 0 .. (P - 1)
  BY BalancerAssumption
<1> QED BY <1>1, <1>2, <1>3, <1>4 DEF Rank, Pos

(* The places of the ranks lie one after the other.                        *)
LEMMA Lexicographic ==
  \A r, k, q, l \in Rank : r * P + k < q * P + l <=> r < q \/ (r = q /\ k < l)
<1>1. \A r, k, q, l \in 0 .. (P - 1) : r * P + k < q * P + l <=> r < q \/ (r = q /\ k < l)
  BY BalancerAssumption
<1> QED BY <1>1 DEF Rank

LEMMA PosFinite == P * P \in Nat /\ IsFiniteSet(Pos) /\ IsFiniteSet(Rank)
<1>1. P * P \in Nat BY BalancerAssumption
<1>2. 0 \in Int /\ P * P - 1 \in Int /\ P - 1 \in Int BY <1>1, BalancerAssumption
<1> QED BY <1>1, <1>2, FS_Interval DEF Pos, Rank

LEMMA RadixRecursion ==
  /\ Radix[0] = 1
  /\ \A i \in Nat : Radix[i + 1] = Base * Radix[i] /\ Radix[i] \in Nat \ {0}
<1> DEFINE F == [p \in Nat \X Nat |-> Base * p[2]]
           body(t) == [i \in Nat |-> IF i = 0 THEN 1 ELSE Base * t[i - 1]]
<1>1. IsStep(F, Nat)
  <2>1. \A p \in Nat \X Nat : Base * p[2] \in Nat BY BalancerAssumption
  <2> QED BY <2>1 DEF IsStep
<1>2. PICK t : /\ t \in [Nat -> Nat] /\ t[0] = 1
               /\ \A i \in Nat : t[i + 1] = F[<<i, t[i]>>]
  <2>1. 1 \in Nat OBVIOUS
  <2> HIDE DEF F
  <2>2. \E t : IsRun(t, Nat, 1, F) BY <1>1, <2>1, Recursion
  <2> QED BY <2>2 DEF IsRun
<1>3. \A i \in Nat : t[i + 1] = Base * t[i]
  <2>1. TAKE i \in Nat
  <2>2. <<i, t[i]>> \in Nat \X Nat BY <1>2
  <2>3. F[<<i, t[i]>>] = Base * t[i] BY <2>2
  <2> QED BY <1>2, <2>3
<1>4. t = body(t)
  <2>1. ASSUME NEW i \in Nat PROVE t[i] = IF i = 0 THEN 1 ELSE Base * t[i - 1]
    <3>1. CASE i = 0 BY <3>1, <1>2
    <3>2. CASE i # 0
      <4>1. i - 1 \in Nat /\ (i - 1) + 1 = i BY <3>2
      <4>2. t[(i - 1) + 1] = Base * t[i - 1] BY <4>1, <1>3
      <4> QED BY <3>2, <4>1, <4>2
    <3> QED BY <3>1, <3>2
  <2>2. t = [i \in Nat |-> t[i]] BY <1>2
  <2> QED BY <2>1, <2>2
<1>5. Radix = body(Radix)
  <2>1. Radix = CHOOSE u : u = body(u) BY DEF Radix
  <2> HIDE DEF body
  <2> QED BY <1>4, <2>1
<1>6. Radix[0] = 1
  <2>1. body(Radix)[0] = 1 OBVIOUS
  <2> HIDE DEF body
  <2> QED BY <1>5, <2>1
<1>7. ASSUME NEW i \in Nat PROVE Radix[i + 1] = Base * Radix[i]
  <2>1. body(Radix)[i + 1] = Base * Radix[i] OBVIOUS
  <2> HIDE DEF body
  <2> QED BY <1>5, <2>1
<1> DEFINE S == {i \in Nat : Radix[i] \in Nat \ {0}}
<1>8. S = Nat
  <2>1. 0 \in S BY <1>6
  <2>2. ASSUME NEW i \in S PROVE i + 1 \in S
    <3>1. Base * Radix[i] \in Nat \ {0} BY BalancerAssumption
    <3> QED BY <3>1, <1>7
  <2> HIDE DEF S
  <2>3. S \in SUBSET Nat BY DEF S
  <2> QED BY <2>1, <2>2, <2>3, SetInduction
<1>9. \A i \in Nat : Radix[i] \in Nat \ {0} BY <1>8
<1> QED BY <1>6, <1>7, <1>9

------------------------------------------------------------------------------
(* One pass *)

LEMMA SimIsNat ==
  ASSUME NEW x \in Inputs
  PROVE  /\ \A r, q \in Rank : RowOf(x, r)[q] \in Nat
         /\ \A k \in Pos : Sim(x, k) \in Nat
<1>1. IsFiniteSet(DOMAIN x.rank) BY InputsAssumption
<1>2. ASSUME NEW r \in Rank, NEW q \in Rank PROVE RowOf(x, r)[q] \in Nat
  <2> DEFINE C == {c \in DOMAIN x.rank : x.rank[c] = r /\ x.part[c] = q}
  <2>1. IsFiniteSet(C)
    <3>1. C \subseteq DOMAIN x.rank OBVIOUS
    <3> HIDE DEF C
    <3> QED BY <1>1, <3>1, FS_Subset
  <2>2. RowOf(x, r)[q] = Cardinality(C) BY DEF RowOf
  <2> HIDE DEF C
  <2> QED BY <2>1, <2>2, FS_CardinalityType
<1>3. ASSUME NEW k \in Pos PROVE Sim(x, k) \in Nat
  BY <1>2, DivMod DEF Sim
<1> QED BY <1>2, <1>3

LEMMA DigitType ==
  ASSUME NEW x \in Inputs, NEW k \in Pos, NEW i \in Nat
  PROVE  Dig(x, k, i) \in 0 .. (Base - 1) /\ Dig(x, k, i) \in Int
<1>1. Sim(x, k) \in Nat /\ Radix[i] \in Nat \ {0} BY SimIsNat, RadixRecursion
<1>2. Sim(x, k) \div Radix[i] \in Nat BY <1>1
<1> QED BY <1>2, BalancerAssumption DEF Dig

LEMMA PassPlaces ==
  ASSUME NEW x \in Inputs, NEW S \in Arrays, NEW i \in Nat
  PROVE  /\ Goes(x, S, i) \in Bijection(Pos, Pos)
         /\ \A m, n \in Pos : <<m, n>> \in Order2(x, S, i)
                              <=> Goes(x, S, i)[m] < Goes(x, S, i)[n]
<1> DEFINE N == P * P
           D(n) == Dig(x, S[n], i)
           B == Order2(x, S, i)
<1>1. \A n \in 0 .. (N - 1) : D(n) \in Int BY DigitType DEF Pos, Arrays
<1>2. \A m, n \in 0 .. (N - 1) : <<m, n>> \in B <=> D(m) < D(n) \/ (D(m) = D(n) /\ m < n)
  BY DEF Order2, Pos
<1>3. N \in Nat BY PosFinite
<1>4. Goes(x, S, i) = [n \in 0 .. (N - 1) |-> Cardinality({m \in 0 .. (N - 1) : <<m, n>> \in B})]
  BY DEF Goes, Pos
<1>5. Pos = 0 .. (N - 1) BY DEF Pos
<1> HIDE DEF N, D, B
<1>6. \A a, b \in 0 .. (N - 1) : a # b => <<a, b>> \in B \/ <<b, a>> \in B
  BY <1>1, <1>2, <1>3
<1>7. \A a \in 0 .. (N - 1) : <<a, a>> \notin B BY <1>1, <1>2, <1>3
<1>8. \A a, b, c \in 0 .. (N - 1) : <<a, b>> \in B /\ <<b, c>> \in B => <<a, c>> \in B
  BY <1>1, <1>2, <1>3
<1>9. LET E == 0 .. (N - 1)
          place == [a \in E |-> Cardinality({b \in E : <<b, a>> \in B})]
      IN  /\ place \in Bijection(E, E)
          /\ \A a, b \in E : <<a, b>> \in B <=> place[a] < place[b]
  BY <1>3, <1>6, <1>7, <1>8, Places
<1>10. /\ Goes(x, S, i) \in Bijection(0 .. (N - 1), 0 .. (N - 1))
       /\ \A a, b \in 0 .. (N - 1) : <<a, b>> \in B <=> Goes(x, S, i)[a] < Goes(x, S, i)[b]
  BY <1>4, <1>9
<1> QED BY <1>5, <1>10 DEF B

(* The entry for the place m comes from the one place that goes to m.      *)
LEMMA PassInverse ==
  ASSUME NEW x \in Inputs, NEW S \in Arrays, NEW i \in Nat
  PROVE  /\ \A n \in Pos : Goes(x, S, i)[n] \in Pos
         /\ \A m \in Pos : From(x, S, i)[m] \in Pos /\ Goes(x, S, i)[From(x, S, i)[m]] = m
         /\ \A n \in Pos : From(x, S, i)[Goes(x, S, i)[n]] = n
         /\ Passed(x, S, i) \in Arrays
         /\ \A m \in Pos : Passed(x, S, i)[m] = S[From(x, S, i)[m]]
<1> DEFINE g == Goes(x, S, i)
           f == From(x, S, i)
<1>1. g \in Bijection(Pos, Pos) BY PassPlaces
<1>2. f = [m \in Pos |-> CHOOSE n \in Pos : g[n] = m] BY DEF From
<1>3. Passed(x, S, i) = [m \in Pos |-> S[f[m]]] BY DEF Passed
<1> HIDE DEF g, f
<1>4. /\ g \in [Pos -> Pos]
      /\ \A a, b \in Pos : g[a] = g[b] => a = b
      /\ \A m \in Pos : \E n \in Pos : g[n] = m
  BY <1>1 DEF Bijection, Injection, Surjection, IsInjective
<1>5. \A m \in Pos : f[m] \in Pos /\ g[f[m]] = m BY <1>2, <1>4
<1>6. \A n \in Pos : f[g[n]] = n BY <1>4, <1>5
<1>7. Passed(x, S, i) \in Arrays /\ \A m \in Pos : Passed(x, S, i)[m] = S[f[m]]
  BY <1>3, <1>5 DEF Arrays
<1> QED BY <1>4, <1>5, <1>6, <1>7 DEF g, f

LEMMA StagesRecursion ==
  ASSUME NEW x \in Inputs
  PROVE  /\ Stages(x) \in [Nat -> Arrays]
         /\ Stages(x)[0] = [n \in Pos |-> n]
         /\ \A i \in Nat : Stages(x)[i + 1] = Passed(x, Stages(x)[i], i)
<1> DEFINE F == [p \in Nat \X Arrays |-> Passed(x, p[2], p[1])]
           a == [n \in Pos |-> n]
           body(t) == [i \in Nat |-> IF i = 0 THEN a ELSE Passed(x, t[i - 1], i - 1)]
<1>1. IsStep(F, Arrays)
  <2>1. \A p \in Nat \X Arrays : Passed(x, p[2], p[1]) \in Arrays
    <3>1. TAKE p \in Nat \X Arrays
    <3>2. p[1] \in Nat /\ p[2] \in Arrays OBVIOUS
    <3> QED BY <3>2, PassInverse
  <2> QED BY <2>1 DEF IsStep
<1>2. a \in Arrays BY DEF Arrays
<1>3. PICK t : /\ t \in [Nat -> Arrays] /\ t[0] = a
               /\ \A i \in Nat : t[i + 1] = F[<<i, t[i]>>]
  <2> HIDE DEF F, a
  <2>1. \E t : IsRun(t, Arrays, a, F) BY <1>1, <1>2, Recursion
  <2> QED BY <2>1 DEF IsRun
<1> HIDE DEF a
<1>4. \A i \in Nat : t[i + 1] = Passed(x, t[i], i)
  <2>1. TAKE i \in Nat
  <2>2. <<i, t[i]>> \in Nat \X Arrays BY <1>3
  <2>3. F[<<i, t[i]>>] = Passed(x, t[i], i) BY <2>2
  <2> QED BY <1>3, <2>3
<1>5. t = body(t)
  <2>1. ASSUME NEW i \in Nat PROVE t[i] = IF i = 0 THEN a ELSE Passed(x, t[i - 1], i - 1)
    <3>1. CASE i = 0 BY <3>1, <1>3
    <3>2. CASE i # 0
      <4>1. i - 1 \in Nat /\ (i - 1) + 1 = i BY <3>2
      <4>2. t[(i - 1) + 1] = Passed(x, t[i - 1], i - 1) BY <4>1, <1>4
      <4> QED BY <3>2, <4>1, <4>2
    <3> QED BY <3>1, <3>2
  <2>2. t = [i \in Nat |-> t[i]] BY <1>3
  <2> QED BY <2>1, <2>2
<1> DEFINE u == Stages(x)
<1>6. u = body(u)
  <2>1. u = CHOOSE v : v = body(v) BY DEF Stages, a
  <2> HIDE DEF body, u
  <2> QED BY <1>5, <2>1
<1> HIDE DEF u
<1>7. u[0] = a
  <2>1. body(u)[0] = a OBVIOUS
  <2> HIDE DEF body
  <2> QED BY <1>6, <2>1
<1>8. ASSUME NEW i \in Nat PROVE u[i + 1] = Passed(x, u[i], i)
  <2>1. body(u)[i + 1] = Passed(x, u[i], i)
    <3>1. i + 1 # 0 /\ (i + 1) - 1 = i /\ i + 1 \in Nat OBVIOUS
    <3> QED BY <3>1
  <2> HIDE DEF body
  <2> QED BY <1>6, <2>1
<1> DEFINE S == {i \in Nat : u[i] \in Arrays}
<1>9. S = Nat
  <2>1. 0 \in S BY <1>2, <1>7
  <2>2. ASSUME NEW i \in S PROVE i + 1 \in S
    <3>1. u[i + 1] = Passed(x, u[i], i) BY <1>8
    <3>2. Passed(x, u[i], i) \in Arrays BY PassInverse
    <3> QED BY <3>1, <3>2
  <2> HIDE DEF S
  <2>3. S \in SUBSET Nat BY DEF S
  <2> QED BY <2>1, <2>2, <2>3, SetInduction
<1>10. u = [i \in Nat |-> u[i]]
  <2>1. body(u) = [i \in Nat |-> body(u)[i]] OBVIOUS
  <2> HIDE DEF body
  <2> QED BY <2>1, <1>6
<1>11. u \in [Nat -> Arrays] BY <1>9, <1>10
<1> QED BY <1>7, <1>8, <1>11 DEF u, a


------------------------------------------------------------------------------
(* All passes: a permutation, sorted by one digit more after each *)

Permutes(S) ==
  /\ S \in Arrays
  /\ \A m, n \in Pos : S[m] = S[n] => m = n
  /\ \A k \in Pos : \E n \in Pos : S[n] = k

SortedBy(x, S, i) ==
  \A m, n \in Pos : m < n => Sim(x, S[m]) % Radix[i] <= Sim(x, S[n]) % Radix[i]

LEMMA PassPermutes ==
  ASSUME NEW x \in Inputs, NEW S, Permutes(S), NEW i \in Nat
  PROVE  Permutes(Passed(x, S, i))
<1> DEFINE g == Goes(x, S, i)
           f == From(x, S, i)
           T == Passed(x, S, i)
<1>1. S \in Arrays BY DEF Permutes
<1>2. /\ \A n \in Pos : g[n] \in Pos /\ f[g[n]] = n
      /\ \A m \in Pos : f[m] \in Pos /\ g[f[m]] = m /\ T[m] = S[f[m]]
      /\ T \in Arrays
  BY <1>1, PassInverse
<1> HIDE DEF g, f, T
<1>3. ASSUME NEW m \in Pos, NEW n \in Pos, T[m] = T[n] PROVE m = n
  <2>1. f[m] = f[n] BY <1>2, <1>3 DEF Permutes
  <2>2. g[f[m]] = m /\ g[f[n]] = n BY <1>2
  <2> QED BY <2>1, <2>2
<1>4. ASSUME NEW k \in Pos PROVE \E n \in Pos : T[n] = k
  <2>1. PICK l \in Pos : S[l] = k BY DEF Permutes
  <2>2. g[l] \in Pos /\ T[g[l]] = k BY <1>2, <2>1
  <2> QED BY <2>2
<1> QED BY <1>2, <1>3, <1>4 DEF Permutes, T

LEMMA ModUnique ==
  ASSUME NEW v \in Nat, NEW c \in Nat, NEW m \in Nat \ {0}, NEW s \in 0 .. (m - 1),
         v = c * m + s
  PROVE  v % m = s
OBVIOUS

(* One digit more of v is one more term of its expansion.                  *)
LEMMA OneDigitMore ==
  ASSUME NEW v \in Nat, NEW i \in Nat
  PROVE  v % Radix[i + 1] = ((v \div Radix[i]) % Base) * Radix[i] + (v % Radix[i])
<1> DEFINE b == Radix[i]
           q == v \div b
           d == q % Base
           c == q \div Base
           s == d * b + (v % b)
<1>1. b \in Nat \ {0} /\ Base \in Nat \ {0} /\ Radix[i + 1] = Base * b
  BY RadixRecursion, BalancerAssumption
<1>2. q \in Nat /\ v % b \in 0 .. (b - 1) /\ v = q * b + (v % b) BY <1>1
<1>3. c \in Nat /\ d \in 0 .. (Base - 1) /\ q = c * Base + d
  <2>1. \A n \in Nat : /\ n = (n \div Base) * Base + (n % Base)
                        /\ n % Base \in 0 .. (Base - 1) /\ n \div Base \in Nat
    BY <1>1
  <2> HIDE DEF q
  <2> QED BY <1>2, <2>1
<1> DEFINE r == v % b
<1> HIDE DEF b, q, d, c, r
<1>4. v = (c * Base + d) * b + r /\ r \in 0 .. (b - 1) BY <1>2, <1>3 DEF r
<1>5. (c * Base + d) * b + r = c * (Base * b) + (d * b + r) BY <1>1, <1>3, <1>4
<1>6. d * b + r \in 0 .. (Base * b - 1)
  <2>1. d * b <= (Base - 1) * b BY <1>1, <1>3
  <2>2. (Base - 1) * b = Base * b - b BY <1>1
  <2>3. d * b \in Nat /\ Base * b \in Nat BY <1>1, <1>3
  <2> QED BY <1>1, <1>4, <2>1, <2>2, <2>3
<1>7. Base * b \in Nat \ {0} BY <1>1
<1>8. v = c * (Base * b) + (d * b + r) BY <1>4, <1>5
<1> DEFINE w == d * b + r
           M == Base * b
<1>9. v % M = w
  <2>1. M \in Nat \ {0} /\ w \in 0 .. (M - 1) /\ v = c * M + w BY <1>6, <1>7, <1>8
  <2> HIDE DEF M, w
  <2> QED BY <2>1, <1>3, ModUnique
<1> QED BY <1>1, <1>9 DEF b, q, d, r

(* A pass leaves entries with equal digits in their order.                 *)
LEMMA PassSorts ==
  ASSUME NEW x \in Inputs, NEW S \in Arrays, NEW i \in Nat, SortedBy(x, S, i)
  PROVE  SortedBy(x, Passed(x, S, i), i + 1)
<1> DEFINE g == Goes(x, S, i)
           f == From(x, S, i)
           T == Passed(x, S, i)
<1>1. SUFFICES ASSUME NEW m \in Pos, NEW n \in Pos, m < n
               PROVE  Sim(x, T[m]) % Radix[i + 1] <= Sim(x, T[n]) % Radix[i + 1]
  BY DEF SortedBy
<1> DEFINE u == Sim(x, S[f[m]])
           v == Sim(x, S[f[n]])
           b == Radix[i]
           d == Dig(x, S[f[m]], i)
           e == Dig(x, S[f[n]], i)
<1>2. /\ f[m] \in Pos /\ f[n] \in Pos /\ g[f[m]] = m /\ g[f[n]] = n
      /\ T[m] = S[f[m]] /\ T[n] = S[f[n]]
  BY PassInverse
<1>3. <<f[m], f[n]>> \in Order2(x, S, i)
  <2>1. g[f[m]] < g[f[n]] BY <1>1, <1>2
  <2> QED BY <1>2, <2>1, PassPlaces
<1>4. d < e \/ (d = e /\ f[m] < f[n]) BY <1>3 DEF Order2
<1>5. S[f[m]] \in Pos /\ S[f[n]] \in Pos BY <1>2 DEF Arrays
<1>6. u \in Nat /\ v \in Nat /\ b \in Nat \ {0} BY <1>5, SimIsNat, RadixRecursion
<1>7. d \in 0 .. (Base - 1) /\ e \in 0 .. (Base - 1) BY <1>5, DigitType
<1>8. d = (u \div b) % Base /\ e = (v \div b) % Base BY DEF Dig
<1>9. f[m] < f[n] => u % b <= v % b BY <1>2 DEF SortedBy
<1>10. Sim(x, T[m]) = u /\ Sim(x, T[n]) = v BY <1>2
<1> HIDE DEF f, g, T, u, v, b, d, e
<1>11. /\ u % Radix[i + 1] = d * b + (u % b)
       /\ v % Radix[i + 1] = e * b + (v % b)
  BY <1>6, <1>8, OneDigitMore DEF b
<1> DEFINE y == u % b
           z == v % b
<1>12. y \in 0 .. (b - 1) /\ z \in 0 .. (b - 1) BY <1>6
<1>13. d * b + y <= e * b + z
  <2> HIDE DEF y, z
  <2>1. CASE d < e
    <3>1. (d + 1) * b <= e * b BY <1>6, <1>7, <2>1
    <3>2. (d + 1) * b = d * b + b /\ d * b \in Nat /\ e * b \in Nat BY <1>6, <1>7
    <3> QED BY <3>1, <3>2, <1>6, <1>12
  <2>2. CASE d = e /\ f[m] < f[n]
    <3>1. y <= z BY <1>9, <2>2 DEF y, z
    <3>2. d * b \in Nat BY <1>6, <1>7
    <3> QED BY <2>2, <3>1, <3>2, <1>12
  <2> QED BY <1>4, <2>1, <2>2
<1> QED BY <1>10, <1>11, <1>13

LEMMA StagesSort ==
  ASSUME NEW x \in Inputs
  PROVE  \A i \in Nat : Permutes(Stages(x)[i]) /\ SortedBy(x, Stages(x)[i], i)
<1> DEFINE S == {i \in Nat : Permutes(Stages(x)[i]) /\ SortedBy(x, Stages(x)[i], i)}
<1>1. 0 \in S
  <2>1. Stages(x)[0] = [n \in Pos |-> n] BY StagesRecursion
  <2>2. Permutes(Stages(x)[0]) BY <2>1 DEF Permutes, Arrays
  <2>3. SortedBy(x, Stages(x)[0], 0)
    <3>1. SUFFICES ASSUME NEW m \in Pos, NEW n \in Pos
                   PROVE  Sim(x, m) % Radix[0] <= Sim(x, n) % Radix[0]
      BY <2>1 DEF SortedBy
    <3>2. Sim(x, m) \in Nat /\ Sim(x, n) \in Nat /\ Radix[0] = 1 BY SimIsNat, RadixRecursion
    <3> QED BY <3>2
  <2> QED BY <2>2, <2>3
<1>2. ASSUME NEW i \in S PROVE i + 1 \in S
  <2>1. i \in Nat /\ Permutes(Stages(x)[i]) /\ SortedBy(x, Stages(x)[i], i) OBVIOUS
  <2>2. Stages(x)[i + 1] = Passed(x, Stages(x)[i], i) BY <2>1, StagesRecursion
  <2>3. Stages(x)[i] \in Arrays BY <2>1 DEF Permutes
  <2> DEFINE A == Stages(x)[i]
  <2> HIDE DEF A
  <2>4. Permutes(Passed(x, Stages(x)[i], i)) BY <2>1, PassPermutes
  <2>5. SortedBy(x, Passed(x, Stages(x)[i], i), i + 1) BY <2>1, <2>3, PassSorts
  <2> QED BY <2>1, <2>2, <2>4, <2>5
<1>3. S = Nat
  <2> HIDE DEF S
  <2>1. S \in SUBSET Nat BY DEF S
  <2> QED BY <1>1, <1>2, <2>1, SetInduction
<1> QED BY <1>3

------------------------------------------------------------------------------
(* The place that the counts of all ranks give an entry *)

CountOf(x, S, r, i) ==
  [d \in 0 .. (Base - 1) |-> Cardinality({k \in Rank : Dig(x, S[r * P + k], i) = d})]

(* The entries of a rank, counted there or in the whole array.             *)
LEMMA CountedHere ==
  ASSUME NEW U \in SUBSET Pos, NEW r \in Rank
  PROVE  /\ Cardinality({k \in Rank : r * P + k \in U}) = Cardinality({n \in U : n \div P = r})
         /\ IsFiniteSet({k \in Rank : r * P + k \in U})
<1> DEFINE A == {k \in Rank : r * P + k \in U}
           B == {n \in U : n \div P = r}
           f == [k \in A |-> r * P + k]
<1>1. \A k \in A : f[k] \in B /\ f[k] % P = k BY DivMod
<1>2. \A n \in B : n % P \in A /\ f[n % P] = n BY DivMod
<1>3. IsFiniteSet(A)
  <2>1. A \in SUBSET Rank OBVIOUS
  <2> HIDE DEF A
  <2> QED BY <2>1, PosFinite, FS_Subset
<1>4. f \in Bijection(A, B)
  <2>1. f \in [A -> B] BY <1>1
  <2> HIDE DEF f, A, B
  <2>2. \A a, b \in A : f[a] = f[b] => a = b BY <1>1
  <2>3. \A n \in B : \E k \in A : f[k] = n BY <1>2
  <2> QED BY <2>1, <2>2, <2>3 DEF Bijection, Injection, Surjection, IsInjective
<1>5. ExistsBijection(A, B)
  <2> HIDE DEF f, A, B
  <2> QED BY <1>4 DEF ExistsBijection
<1>6. Cardinality(A) = Cardinality(B)
  <2> HIDE DEF A, B
  <2> QED BY <1>3, <1>5, FS_Bijection
<1> QED BY <1>3, <1>6

(* The counts of ranks 0 .. m - 1 of one digit make those of their part.   *)
WithDigit(x, S, i, e, m) == {n \in Pos : Dig(x, S[n], i) = e /\ n \div P < m}
CountsDigit(f, x, S, i, e, m) == \A q \in 0 .. (m - 1) : f[q] = CountOf(x, S, q, i)[e]

LEMMA CountedBelow ==
  ASSUME NEW x, NEW S \in Arrays, NEW i \in Nat, NEW e \in 0 .. (Base - 1),
         NEW m \in 0 .. P, NEW f, CountsDigit(f, x, S, i, e, m)
  PROVE  SumOf(f, m) = Cardinality(WithDigit(x, S, i, e, m))
<1> DEFINE U == {n \in Pos : Dig(x, S[n], i) = e}
           label == [n \in Pos |-> n \div P]
<1>1. IsFiniteSet(U)
  <2>1. U \in SUBSET Pos OBVIOUS
  <2> HIDE DEF U
  <2> QED BY <2>1, PosFinite, FS_Subset
<1>2. m \in Nat /\ 0 .. (m - 1) \subseteq Rank BY BalancerAssumption DEF Rank
<1>3. ASSUME NEW q \in 0 .. (m - 1) PROVE f[q] = Cardinality({n \in U : label[n] = q})
  <2>1. q \in Rank BY <1>2
  <2>2. {k \in Rank : Dig(x, S[q * P + k], i) = e} = {k \in Rank : q * P + k \in U}
    BY <2>1, DivMod
  <2>3. {n \in U : label[n] = q} = {n \in U : n \div P = q} OBVIOUS
  <2>4. f[q] = Cardinality({k \in Rank : Dig(x, S[q * P + k], i) = e})
    BY DEF CountsDigit, CountOf
  <2>5. U \in SUBSET Pos OBVIOUS
  <2> HIDE DEF U, label
  <2>6. Cardinality({k \in Rank : q * P + k \in U}) = Cardinality({n \in U : n \div P = q})
    BY <2>1, <2>5, CountedHere
  <2> QED BY <2>2, <2>3, <2>4, <2>6
<1>4. \A n \in U : label[n] \in Int /\ label[n] \in Rank BY DivMod DEF Rank
<1>5. Labelled(U, label, m) = WithDigit(x, S, i, e, m)
  BY DivMod, <1>2 DEF Rank, Labelled, WithDigit
<1>6. SumOf(f, m) = Cardinality(Labelled(U, label, m))
  <2> HIDE DEF U, label
  <2>1. CountsClasses(f, U, label, m) BY <1>3 DEF CountsClasses
  <2> QED BY <1>1, <1>2, <1>4, <2>1, SumOfClasses
<1> QED BY <1>5, <1>6

LEMMA PlaceGoes ==
  ASSUME NEW x \in Inputs, NEW S \in Arrays, NEW i \in Nat, NEW r \in Rank, NEW k \in Rank,
         NEW d, d = Dig(x, S[r * P + k], i), NEW smaller, NEW upTo, NEW after,
         smaller = SumOf([e \in 0 .. (d - 1) |->
                            SumOf([q \in Rank |-> CountOf(x, S, q, i)[e]], P)], d),
         upTo = SumOf([q \in 0 .. r |-> CountOf(x, S, q, i)[d]], r + 1),
         after = Cardinality({l \in Rank : l > k /\ Dig(x, S[r * P + l], i) = d})
  PROVE  smaller + upTo - 1 - after = Goes(x, S, i)[r * P + k]
<1> DEFINE n == r * P + k
           D(m) == Dig(x, S[m], i)
           Less == {m \in Pos : D(m) < d}
           Till == {m \in Pos : D(m) = d /\ m \div P < r + 1}
           Same == {m \in Pos : D(m) = d /\ m < n}
           Rest == {m \in Pos : D(m) = d /\ m \div P = r /\ m > n}
<1>1. n \in Pos /\ \A m \in Pos : D(m) \in 0 .. (Base - 1) /\ D(m) \in Int
  BY DivMod, DigitType DEF Arrays
<1>2. d \in 0 .. (Base - 1) /\ D(n) = d BY <1>1
<1>3. P \in Nat \ {0} /\ Base \in Nat /\ Rank = 0 .. (P - 1) BY BalancerAssumption DEF Rank
<1>4. smaller = Cardinality(Less)
  <2> DEFINE f == [e \in 0 .. (d - 1) |-> SumOf([q \in Rank |-> CountOf(x, S, q, i)[e]], P)]
             label == [m \in Pos |-> D(m)]
  <2>1. ASSUME NEW e \in 0 .. (d - 1) PROVE f[e] = Cardinality({m \in Pos : label[m] = e})
    <3> DEFINE h == [q \in Rank |-> CountOf(x, S, q, i)[e]]
    <3>1. e \in 0 .. (Base - 1) /\ P \in 0 .. P BY <1>2, <1>3
    <3>2. \A q \in 0 .. (P - 1) : h[q] = CountOf(x, S, q, i)[e] BY <1>3
    <3>3. SumOf(h, P) = Cardinality(WithDigit(x, S, i, e, P))
      <4> HIDE DEF h
      <4>1. CountsDigit(h, x, S, i, e, P) BY <3>2 DEF CountsDigit
      <4> QED BY <3>1, <4>1, CountedBelow
    <3>4. WithDigit(x, S, i, e, P) = {m \in Pos : label[m] = e}
      <4>1. ASSUME NEW m \in Pos PROVE m \div P < P
        <5>1. m \div P \in Rank BY DivMod
        <5> QED BY <5>1, <1>3
      <4> QED BY <4>1 DEF WithDigit
    <3>5. f[e] = SumOf(h, P) OBVIOUS
    <3> HIDE DEF f, h, label
    <3> QED BY <3>3, <3>4, <3>5
  <2>2. \A m \in Pos : label[m] \in Int BY <1>1
  <2>3. Labelled(Pos, label, d) = Less BY <1>1, <1>2 DEF Labelled
  <2>4. d \in Nat BY <1>2
  <2>5. smaller = SumOf(f, d) OBVIOUS
  <2> HIDE DEF f, label, Less
  <2>6. SumOf(f, d) = Cardinality(Labelled(Pos, label, d))
    <3>1. CountsClasses(f, Pos, label, d) BY <2>1 DEF CountsClasses
    <3> QED BY <2>2, <2>4, <3>1, PosFinite, SumOfClasses
  <2> QED BY <2>3, <2>5, <2>6
<1>5. upTo = Cardinality(Till)
  <2> DEFINE f == [q \in 0 .. r |-> CountOf(x, S, q, i)[d]]
  <2>1. r + 1 \in 0 .. P /\ \A q \in 0 .. ((r + 1) - 1) : f[q] = CountOf(x, S, q, i)[d]
    BY <1>3
  <2>2. upTo = SumOf(f, r + 1) OBVIOUS
  <2> HIDE DEF f
  <2>3. CountsDigit(f, x, S, i, d, r + 1) BY <2>1 DEF CountsDigit
  <2>4. WithDigit(x, S, i, d, r + 1) = Till BY DEF WithDigit
  <2> HIDE DEF Till
  <2>5. SumOf(f, r + 1) = Cardinality(WithDigit(x, S, i, d, r + 1))
    BY <2>1, <2>3, <1>2, CountedBelow
  <2> QED BY <2>2, <2>4, <2>5
<1>6. after = Cardinality(Rest)
  <2> DEFINE U == {m \in Pos : D(m) = d /\ m > n}
  <2>1. {l \in Rank : l > k /\ Dig(x, S[r * P + l], i) = d} = {l \in Rank : r * P + l \in U}
    <3>1. ASSUME NEW l \in Rank PROVE l > k <=> r * P + l > r * P + k
      BY Lexicographic, <1>3
    <3> QED BY <3>1, DivMod
  <2>2. {m \in U : m \div P = r} = Rest OBVIOUS
  <2>3. U \in SUBSET Pos OBVIOUS
  <2> HIDE DEF U, Rest
  <2> QED BY <2>1, <2>2, <2>3, CountedHere
<1>7. /\ Less \subseteq Pos /\ Till \subseteq Pos /\ Same \subseteq Pos /\ Rest \subseteq Pos
      /\ Same \cup {n} \subseteq Pos
  BY <1>1
<1>8. Goes(x, S, i)[n] = Cardinality(Less \cup Same)
  <2>1. {m \in Pos : <<m, n>> \in Order2(x, S, i)} = Less \cup Same
    BY <1>1, <1>2 DEF Order2
  <2> QED BY <2>1, <1>1 DEF Goes
<1>9. Till = (Same \cup {n}) \cup Rest
  <2>1. ASSUME NEW m \in Pos PROVE m \div P < r + 1 <=> m < n \/ m = n \/ (m \div P = r /\ m > n)
    <3>1. m \div P \in Rank /\ m % P \in Rank /\ m = (m \div P) * P + (m % P) BY DivMod
    <3>2. m < n <=> m \div P < r \/ (m \div P = r /\ m % P < k) BY <3>1, Lexicographic
    <3>3. n < m <=> r < m \div P \/ (m \div P = r /\ k < m % P) BY <3>1, Lexicographic
    <3>4. m = n => m \div P = r BY DivMod
    <3>5. m \in Int /\ n \in Int BY <1>1 DEF Pos
    <3> HIDE DEF n
    <3> QED BY <1>3, <3>1, <3>2, <3>3, <3>4, <3>5
  <2>2. D(n) = d BY <1>2
  <2> HIDE DEF n, D
  <2> QED BY <2>1, <2>2, <1>1
<1>10. Less \cap Same = {} /\ n \notin Same /\ (Same \cup {n}) \cap Rest = {}
  <2>1. \A m \in Pos : m \in Int BY DEF Pos
  <2> HIDE DEF n, D
  <2> QED BY <2>1, <1>1, <1>2
<1> HIDE DEF Less, Till, Same, Rest, n
<1>11. /\ IsFiniteSet(Less) /\ IsFiniteSet(Same) /\ IsFiniteSet(Rest)
       /\ IsFiniteSet(Same \cup {n})
  BY <1>7, PosFinite, FS_Subset
<1>12. /\ Cardinality(Less \cup Same) = Cardinality(Less) + Cardinality(Same)
       /\ Cardinality(Less) \in Nat /\ Cardinality(Same) \in Nat
  BY <1>10, <1>11, DisjointUnion
<1>13. Cardinality(Till) = Cardinality(Same \cup {n}) + Cardinality(Rest)
       /\ Cardinality(Rest) \in Nat
  BY <1>9, <1>10, <1>11, DisjointUnion
<1>14. Cardinality(Same \cup {n}) = Cardinality(Same) + 1
  BY <1>10, <1>11, FS_AddElement
<1>15. smaller + upTo - 1 - after = Goes(x, S, i)[n]
  BY <1>4, <1>5, <1>6, <1>8, <1>12, <1>13, <1>14
<1> QED BY <1>15 DEF n

------------------------------------------------------------------------------
(* The greedy assignment *)

(* What is assigned at any time: parts of their own to some ranks.         *)
Matchings ==
  {m \in UNION {[D -> Rank] : D \in SUBSET Rank} :
     \A j, l \in DOMAIN m : m[j] = m[l] => j = l}

(* Entry k of the matrix has been looked at.                               *)
Settled(k, m) == k \div P \in DOMAIN m \/ \E j \in DOMAIN m : m[j] = k % P

LEMMA MatchingType ==
  ASSUME NEW m
  PROVE  m \in Matchings <=> /\ DOMAIN m \subseteq Rank /\ m \in [DOMAIN m -> Rank]
                             /\ \A j, l \in DOMAIN m : m[j] = m[l] => j = l
<1>1. ASSUME NEW D, m \in [D -> Rank] PROVE DOMAIN m = D BY <1>1
<1> QED BY <1>1 DEF Matchings

LEMMA NothingGiven == <<>> \in Matchings
<1>1. DOMAIN <<>> = {} OBVIOUS
<1>2. <<>> \in [{} -> Rank] OBVIOUS
<1> QED BY <1>1, <1>2, MatchingType

LEMMA GiveSettles ==
  ASSUME NEW m \in Matchings, NEW k \in Pos
  PROVE  /\ Give(k, m) \in Matchings
         /\ Settled(k, Give(k, m))
         /\ \A l \in Pos : Settled(l, m) => Settled(l, Give(k, m))
<1> DEFINE r == k \div P
           q == k % P
           t == [j \in DOMAIN m \cup {r} |-> IF j = r THEN q ELSE m[j]]
<1>1. r \in Rank /\ q \in Rank BY DivMod
<1>2. /\ DOMAIN m \subseteq Rank /\ m \in [DOMAIN m -> Rank]
      /\ \A j, l \in DOMAIN m : m[j] = m[l] => j = l
  BY MatchingType
<1>3. CASE Free(k, m)
  <2>1. \A j \in DOMAIN m : j # r /\ m[j] # q BY <1>3 DEF Free
  <2>2. Give(k, m) = t BY <1>3 DEF Give
  <2>3. DOMAIN t = DOMAIN m \cup {r} /\ t[r] = q /\ \A j \in DOMAIN m : t[j] = m[j]
    BY <2>1
  <2>4. t = [j \in DOMAIN t |-> t[j]] OBVIOUS
  <2> HIDE DEF t, r, q
  <2>5. \A j \in DOMAIN t : t[j] \in Rank BY <1>1, <1>2, <2>3
  <2>6. t \in [DOMAIN t -> Rank] BY <2>4, <2>5
  <2>7. \A j, l \in DOMAIN t : t[j] = t[l] => j = l BY <1>2, <2>1, <2>3
  <2>8. t \in Matchings BY <1>1, <1>2, <2>3, <2>6, <2>7, MatchingType
  <2>9. Settled(k, t) BY <2>3 DEF Settled, r
  <2>10. \A l \in Pos : Settled(l, m) => Settled(l, t) BY <2>3 DEF Settled
  <2> QED BY <2>2, <2>8, <2>9, <2>10
<1>4. CASE ~Free(k, m)
  <2>1. Give(k, m) = m BY <1>4 DEF Give
  <2>2. Settled(k, m) BY <1>4 DEF Free, Settled
  <2> QED BY <2>1, <2>2
<1> QED BY <1>3, <1>4

(* When every entry has been looked at no rank is left without a part: if  *)
(* one were, all parts would be given, to fewer ranks than there are.      *)
LEMMA AllGiven ==
  ASSUME NEW m \in Matchings, \A k \in Pos : Settled(k, m)
  PROVE  m \in Bijection(Rank, Rank)
<1> DEFINE D == DOMAIN m
<1>1. /\ D \subseteq Rank /\ m \in [D -> Rank]
      /\ \A j, l \in D : m[j] = m[l] => j = l
  BY MatchingType
<1>2. m \in Injection(D, Rank) BY <1>1 DEF Injection, IsInjective
<1>3. IsFiniteSet(Rank) BY PosFinite
<1>4. D = Rank
  <2>1. SUFFICES ASSUME NEW r \in Rank, r \notin D PROVE FALSE BY <1>1
  <2>2. ASSUME NEW q \in Rank PROVE \E j \in D : m[j] = q
    <3>1. r * P + q \in Pos /\ (r * P + q) \div P = r /\ (r * P + q) % P = q BY DivMod
    <3>2. Settled(r * P + q, m) BY <3>1
    <3> QED BY <2>1, <3>1, <3>2 DEF Settled
  <2>3. m \in Surjection(D, Rank) BY <1>1, <2>2 DEF Surjection
  <2> HIDE DEF D
  <2>4. Cardinality(D) = Cardinality(Rank) BY <1>2, <1>3, <2>3, FS_Injection
  <2>5. D = Rank BY <1>1, <1>3, <2>4, FS_Subset
  <2> QED BY <2>1, <2>5
<1>5. m \in Injection(Rank, Rank) BY <1>2, <1>4
<1>6. m \in Surjection(Rank, Rank) BY <1>3, <1>5, FS_Injection
<1> QED BY <1>5, <1>6 DEF Bijection

(* In whatever order the entries are looked at.                            *)
LEMMA GreedyMatches ==
  ASSUME NEW S, Permutes(S), NEW t, t[0] = <<>>,
         \A n \in 0 .. (P * P - 1) : t[n + 1] = Give(S[P * P - (n + 1)], t[n])
  PROVE  t[P * P] \in Bijection(Rank, Rank)
<1> DEFINE N == P * P
           Seen(n) == {S[l] : l \in {p \in Pos : p >= N - n}}
           Good == {n \in Nat : n <= N => /\ t[n] \in Matchings
                                          /\ \A k \in Seen(n) : Settled(k, t[n])}
<1>1. N \in Nat /\ Pos = 0 .. (N - 1) BY PosFinite DEF Pos
<1>2. \A n \in 0 .. (N - 1) : t[n + 1] = Give(S[N - (n + 1)], t[n]) OBVIOUS
<1> HIDE DEF N
<1>3. 0 \in Good
  <2>1. Seen(0) = {} BY <1>1
  <2> QED BY <2>1, NothingGiven
<1>4. ASSUME NEW n \in Good PROVE n + 1 \in Good
  <2>1. SUFFICES ASSUME n + 1 <= N
                 PROVE  t[n + 1] \in Matchings /\ \A k \in Seen(n + 1) : Settled(k, t[n + 1])
    OBVIOUS
  <2> DEFINE p == N - (n + 1)
  <2>2. n \in 0 .. (N - 1) /\ p \in Pos BY <1>1, <2>1
  <2>3. t[n] \in Matchings /\ \A k \in Seen(n) : Settled(k, t[n]) BY <1>1, <2>1
  <2>4. t[n + 1] = Give(S[p], t[n]) BY <1>2, <2>2
  <2>5. S \in Arrays /\ S[p] \in Pos BY <2>2 DEF Permutes, Arrays
  <2>6. \A k \in Seen(n + 1) : k \in Pos /\ (k \in Seen(n) \/ k = S[p])
    <3>1. \A l \in Pos : l >= N - (n + 1) => l >= N - n \/ l = p BY <1>1
    <3> HIDE DEF p
    <3> QED BY <3>1, <2>5 DEF Arrays
  <2> HIDE DEF Seen, p
  <2>7. /\ Give(S[p], t[n]) \in Matchings /\ Settled(S[p], Give(S[p], t[n]))
        /\ \A l \in Pos : Settled(l, t[n]) => Settled(l, Give(S[p], t[n]))
    BY <2>3, <2>5, GiveSettles
  <2> QED BY <2>3, <2>4, <2>6, <2>7
<1>5. Good = Nat
  <2> HIDE DEF Good
  <2>1. Good \in SUBSET Nat BY DEF Good
  <2> QED BY <1>3, <1>4, <2>1, SetInduction
<1>6. t[N] \in Matchings /\ \A k \in Seen(N) : Settled(k, t[N])
  <2>1. N \in Good BY <1>1, <1>5
  <2> QED BY <1>1, <2>1
<1>7. ASSUME NEW k \in Pos PROVE k \in Seen(N)
  <2>1. PICK l \in Pos : S[l] = k BY DEF Permutes
  <2>2. l >= N - N BY <1>1
  <2> QED BY <2>1, <2>2
<1>8. \A k \in Pos : Settled(k, t[N]) BY <1>6, <1>7
<1>9. t[N] \in Bijection(Rank, Rank) BY <1>6, <1>8, AllGiven
<1> QED BY <1>9 DEF N

(* Taken is what its recursive definition says, and assigns all parts.     *)
LEMMA TakenMatches ==
  ASSUME NEW S, Permutes(S), \A n \in Pos : Order(n) = S[n]
  PROVE  Taken[P * P] \in Bijection(Rank, Rank)
<1> DEFINE N == P * P
           X == Matchings
           F == [p \in Nat \X X |-> IF p[1] < N THEN Give(S[N - (p[1] + 1)], p[2]) ELSE p[2]]
           body(t) == [n \in 0 .. N |-> IF n = 0 THEN <<>> ELSE Give(Order(N - n), t[n - 1])]
<1>1. N \in Nat /\ Pos = 0 .. (N - 1) BY PosFinite DEF Pos
<1>2. S \in [Pos -> Pos] BY DEF Permutes, Arrays
<1>3. Taken = CHOOSE t : t = body(t) BY DEF Taken
<1>4. \A n \in 0 .. (P * P - 1) : N - (n + 1) \in Pos BY <1>1
<1> HIDE DEF N
<1>5. IsStep(F, X)
  <2>1. ASSUME NEW p \in Nat \X X
        PROVE  (IF p[1] < N THEN Give(S[N - (p[1] + 1)], p[2]) ELSE p[2]) \in X
    <3>1. CASE p[1] < N
      <4>1. N - (p[1] + 1) \in Pos BY <1>1, <3>1
      <4>2. S[N - (p[1] + 1)] \in Pos BY <1>2, <4>1
      <4>3. Give(S[N - (p[1] + 1)], p[2]) \in Matchings BY <4>2, GiveSettles
      <4> QED BY <3>1, <4>3
    <3>2. CASE ~(p[1] < N) BY <3>2
    <3> QED BY <3>1, <3>2
  <2> QED BY <2>1 DEF IsStep
<1>6. PICK t : /\ t \in [Nat -> X] /\ t[0] = <<>>
               /\ \A n \in Nat : t[n + 1] = F[<<n, t[n]>>]
  <2>1. <<>> \in X BY NothingGiven
  <2> HIDE DEF F, X
  <2>2. \E t : IsRun(t, X, <<>>, F) BY <1>5, <2>1, Recursion
  <2> QED BY <2>2 DEF IsRun
<1>7. ASSUME NEW n \in 0 .. (N - 1) PROVE t[n + 1] = Give(S[N - (n + 1)], t[n])
  <2>1. n \in Nat /\ n < N BY <1>1
  <2>2. <<n, t[n]>> \in Nat \X X BY <1>6, <2>1
  <2>3. F[<<n, t[n]>>] = Give(S[N - (n + 1)], t[n]) BY <2>1, <2>2
  <2> QED BY <1>6, <2>1, <2>3
<1> DEFINE u == [n \in 0 .. N |-> t[n]]
<1>8. u = body(u)
  <2>1. ASSUME NEW n \in 0 .. N
        PROVE  u[n] = IF n = 0 THEN <<>> ELSE Give(Order(N - n), u[n - 1])
    <3>1. CASE n = 0 BY <3>1, <1>1, <1>6
    <3>2. CASE n # 0
      <4>1. /\ n - 1 \in 0 .. (N - 1) /\ (n - 1) + 1 = n /\ n - 1 \in 0 .. N
            /\ N - n \in Pos
        BY <1>1, <3>2
      <4>2. t[(n - 1) + 1] = Give(S[N - ((n - 1) + 1)], t[n - 1]) BY <4>1, <1>7
      <4>3. Order(N - n) = S[N - n] BY <4>1
      <4>4. u[n] = t[n] /\ u[n - 1] = t[n - 1] BY <4>1
      <4> HIDE DEF u
      <4> QED BY <3>2, <4>1, <4>2, <4>3, <4>4
    <3> QED BY <3>1, <3>2
  <2>2. u = [n \in 0 .. N |-> u[n]] OBVIOUS
  <2> HIDE DEF u
  <2> QED BY <2>1, <2>2
<1> DEFINE T == Taken
<1>9. T = body(T)
  <2>1. T = CHOOSE v : v = body(v) BY <1>3
  <2> HIDE DEF body, T, u
  <2> QED BY <1>8, <2>1
<1> HIDE DEF T
<1>10. T[0] = <<>>
  <2>1. body(T)[0] = <<>> BY <1>1
  <2> HIDE DEF body
  <2> QED BY <1>9, <2>1
<1>11. ASSUME NEW n \in 0 .. (N - 1) PROVE T[n + 1] = Give(S[N - (n + 1)], T[n])
  <2>1. n + 1 \in 0 .. N /\ n + 1 # 0 /\ (n + 1) - 1 = n /\ N - (n + 1) \in Pos BY <1>1
  <2>2. body(T)[n + 1] = Give(Order(N - (n + 1)), T[n]) BY <2>1
  <2>3. Order(N - (n + 1)) = S[N - (n + 1)] BY <2>1
  <2> HIDE DEF body
  <2> QED BY <1>9, <2>2, <2>3
<1>12. T[P * P] \in Bijection(Rank, Rank)
  <2>1. \A n \in 0 .. (P * P - 1) : T[n + 1] = Give(S[P * P - (n + 1)], T[n])
    BY <1>11 DEF N
  <2> QED BY <1>10, <2>1, GreedyMatches
<1> QED BY <1>12 DEF T

------------------------------------------------------------------------------
(* The inductive invariant: what a rank has given to the collective        *)
(* operations, what it holds and where it sends its cells all follow from  *)
(* the input and from how far the rank is.                                 *)

Sorting == {"count", "ring"}
Mapped == {"map", "new", "cost", "kept", "moved"}
Reassigned == Mapped \ {"map"}
Sorted == {"sorted"} \cup Mapped

(* The part of a rank in an array over the matrix.                         *)
Piece(S, r) == [k \in Rank |-> S[r * P + k]]

Load(x, r) == SumFunctionOnSet(x.weight, {c \in DOMAIN x.rank : x.rank[c] = r})
IsBalanced(x) == 100 * P * MaxOf({Load(x, q) : q \in Rank}) < 104 * SumOf([q \in Rank |-> Load(x, q)], P)

(* In pass i the entry for place k of the rank q comes from the rank r.    *)
Comes(x, i, r, q, k) == From(x, Stages(x)[i], i)[q * P + k] \div P = r
Sent(x, i, r) ==
  [q \in Rank |-> {<<k, Stages(x)[i + 1][q * P + k]>> : k \in {l \in Rank : Comes(x, i, r, q, l)}}]

(* What the rank gives to call i + 1 of each collective operation.         *)
Weights(x, r) == [i \in Nat |-> Load(x, r)]
Rows(x, r) == [i \in Nat |-> RowOf(x, r)]
CountsOf(x, r) == [i \in Nat |-> CountOf(x, Stages(x)[i], r, i)]
Rings(x, r) == [i \in Nat |-> Sent(x, i, r)]
Sorts(x, r) == [i \in Nat |-> Piece(Stages(x)[Digits], r)]

(* How many calls of each the rank has made.                               *)
WeightCalls(r) == IF pc[r] = "start" THEN 0 ELSE 1
RowCalls(r) == IF pc[r] \in {"start", "weight", "balanced"} THEN 0 ELSE 1
CountCalls(r) == IF pc[r] \in Sorting \cup Sorted THEN pass[r] + 1 ELSE 0
RingCalls(r) == IF pc[r] \in {"ring"} \cup Sorted THEN pass[r] + 1
                ELSE IF pc[r] = "count" THEN pass[r] ELSE 0
SortedCalls(r) == IF pc[r] \in Sorted THEN 1 ELSE 0

FirstCalls(f, n) == [m \in 1 .. n |-> f[m - 1]]

CallsInv(r) ==
  /\ coll["weight"][r] = FirstCalls(Weights(in, r), WeightCalls(r))
  /\ coll["row"][r] = FirstCalls(Rows(in, r), RowCalls(r))
  /\ coll["count"][r] = FirstCalls(CountsOf(in, r), CountCalls(r))
  /\ coll["ring"][r] = FirstCalls(Rings(in, r), RingCalls(r))
  /\ coll["sorted"][r] = FirstCalls(Sorts(in, r), SortedCalls(r))

(* While a ring is under way a rank has the new entry only where that was  *)
(* its own.                                                                *)
Halfway(x, i, r) ==
  [k \in Rank |-> IF Comes(x, i, r, r, k) THEN Stages(x)[i + 1][r * P + k]
                                          ELSE Stages(x)[i][r * P + k]]

IndexInv(r) ==
  /\ pc[r] \notin Sorting \cup Sorted => pass[r] = 0
  /\ pc[r] \in Sorted => pass[r] = Digits - 1
  /\ pc[r] \notin {"ring"} \cup Sorted => index[r] = Piece(Stages(in)[pass[r]], r)
  /\ pc[r] = "ring" => index[r] = Halfway(in, pass[r], r)

AgreeInv(r) ==
  /\ pc[r] = "balanced" => IsBalanced(in)
  /\ pc[r] \in {"row"} \cup Sorting \cup Sorted => ~IsBalanced(in)

TargetInv(r) ==
  target[r] = [c \in Cells(r) |-> IF pc[r] \in Reassigned THEN map[r][in.part[c]] ELSE in.part[c]]

RankInv(r) == CallsInv(r) /\ IndexInv(r) /\ AgreeInv(r) /\ TargetInv(r)

(* All ranks have the same map, a bijection, or none has one yet.          *)
MapInv ==
  \/ /\ map = [r \in Rank |-> <<>>]
     /\ \A r \in Rank : pc[r] \notin Mapped
  \/ /\ \E m \in Bijection(Rank, Rank) : map = [r \in Rank |-> m]
     /\ pc[0] \in Mapped

TypeInv ==
  /\ in \in Inputs
  /\ pc \in [Rank -> Stage]
  /\ pass \in [Rank -> 0 .. (Digits - 1)]
  /\ coll = [c \in Collective |-> [r \in Rank |-> coll[c][r]]]
  /\ index = [r \in Rank |-> index[r]]
  /\ target = [r \in Rank |-> target[r]]

BalancerInv == TypeInv /\ MapInv /\ \A r \in Rank : RankInv(r)

(* No rank has 2^32 cells for one part.                                    *)
Countable == \A x \in Inputs, r \in Rank, q \in Rank : RowOf(x, r)[q] < Radix[Digits]

LEMMA CallsMade ==
  ASSUME NEW f, NEW n \in Nat
  PROVE  /\ Len(FirstCalls(f, n)) = n
         /\ \A m \in 1 .. n : FirstCalls(f, n)[m] = f[m - 1]
         /\ Append(FirstCalls(f, n), f[n]) = FirstCalls(f, n + 1)
<1> DEFINE s == [m \in 1 .. n |-> f[m - 1]]
           R == {f[m - 1] : m \in 1 .. n}
<1>1. s \in [1 .. n -> R] OBVIOUS
<1>2. s \in Seq(R)
  <2> HIDE DEF s, R
  <2> QED BY <1>1
<1>3. Len(s) = n BY <1>1
<1>4. Append(s, f[n]) = [m \in 1 .. (n + 1) |-> f[m - 1]]
  <2>1. Append(s, f[n]) = [m \in 1 .. (Len(s) + 1) |-> IF m = Len(s) + 1 THEN f[n] ELSE s[m]]
    BY <1>2, <1>3
  <2>2. \A m \in 1 .. (n + 1) : (IF m = n + 1 THEN f[n] ELSE s[m]) = f[m - 1]
    <3>1. ASSUME NEW m \in 1 .. (n + 1) PROVE (IF m = n + 1 THEN f[n] ELSE s[m]) = f[m - 1]
      <4>1. CASE m = n + 1 BY <4>1
      <4>2. CASE m # n + 1
        <5>1. m \in 1 .. n BY <4>2
        <5> QED BY <4>2, <5>1
      <4> QED BY <4>1, <4>2
    <3> QED BY <3>1
  <2> HIDE DEF s
  <2> QED BY <1>3, <2>1, <2>2
<1> QED BY <1>3, <1>4 DEF FirstCalls

(* When call n is complete what it collected is known.                     *)
LEMMA Collected ==
  ASSUME NEW c, NEW n \in Nat \ {0}, Complete(c, n), NEW N \in [Rank -> Nat], NEW g,
         \A q \in Rank : coll[c][q] = FirstCalls(g[q], N[q])
  PROVE  \A q \in Rank : N[q] >= n /\ Of(c, q, n) = g[q][n - 1]
<1>1. SUFFICES ASSUME NEW q \in Rank PROVE N[q] >= n /\ Of(c, q, n) = g[q][n - 1]
  OBVIOUS
<1> DEFINE k == N[q]
           f == g[q]
<1>2. k \in Nat OBVIOUS
<1>3. coll[c][q] = FirstCalls(f, k) OBVIOUS
<1>4. Len(coll[c][q]) >= n BY DEF Complete
<1> HIDE DEF k, f
<1>5. k >= n BY <1>2, <1>3, <1>4, CallsMade
<1>6. n \in 1 .. k BY <1>2, <1>5
<1>7. Of(c, q, n) = f[n - 1] BY <1>2, <1>3, <1>6, CallsMade DEF Of
<1> QED BY <1>5, <1>7 DEF k, f

LEMMA Contributed ==
  ASSUME coll = [c \in Collective |-> [r \in Rank |-> coll[c][r]]],
         NEW c \in Collective, NEW r \in Rank, NEW v, Contribute(c, r, v)
  PROVE  /\ coll' = [d \in Collective |-> [q \in Rank |-> coll'[d][q]]]
         /\ coll'[c][r] = Append(coll[c][r], v)
         /\ \A d \in Collective, q \in Rank : d # c \/ q # r => coll'[d][q] = coll[d][q]
<1> DEFINE row == [coll[c] EXCEPT ![r] = Append(@, v)]
<1>2. DOMAIN coll = Collective /\ \A d \in Collective : coll[d] = [q \in Rank |-> coll[d][q]]
  OBVIOUS
<1>3. row = [q \in Rank |-> IF q = r THEN Append(coll[c][r], v) ELSE coll[c][q]] BY <1>2
<1>1. coll' = [coll EXCEPT ![c] = row] BY DEF Contribute
<1> HIDE DEF row
<1>4. coll' = [d \in Collective |-> IF d = c THEN row ELSE coll[d]] BY <1>1, <1>2
<1>5. \A d \in Collective : coll'[d] = IF d = c THEN row ELSE coll[d] BY <1>4
<1>6. ASSUME NEW d \in Collective PROVE coll'[d] = [q \in Rank |-> coll'[d][q]]
  <2>1. CASE d = c
    <3>1. row = [q \in Rank |-> row[q]] BY <1>3
    <3> QED BY <2>1, <3>1, <1>5
  <2>2. CASE d # c BY <2>2, <1>2, <1>5
  <2> QED BY <2>1, <2>2
<1>7. coll' = [d \in Collective |-> coll'[d]] BY <1>4
<1>8. coll' = [d \in Collective |-> [q \in Rank |-> coll'[d][q]]] BY <1>6, <1>7
<1> QED BY <1>3, <1>5, <1>8

(* What the counts of calls are.                                           *)
LEMMA CallsType ==
  ASSUME TypeInv
  PROVE  \A r \in Rank : /\ WeightCalls(r) \in Nat /\ RowCalls(r) \in Nat
                         /\ CountCalls(r) \in Nat /\ RingCalls(r) \in Nat
                         /\ SortedCalls(r) \in Nat
<1>1. \A r \in Rank : pass[r] \in Nat BY BalancerAssumption DEF TypeInv
<1> QED BY <1>1 DEF WeightCalls, RowCalls, CountCalls, RingCalls, SortedCalls

LEMMA WeightsKnown ==
  ASSUME BalancerInv, Complete("weight", 1), NEW r \in Rank
  PROVE  Balanced(r) <=> IsBalanced(in)
<1> DEFINE N == [q \in Rank |-> WeightCalls(q)]
           g == [q \in Rank |-> Weights(in, q)]
<1>1. N \in [Rank -> Nat] BY CallsType DEF BalancerInv
<1>2. \A q \in Rank : coll["weight"][q] = FirstCalls(g[q], N[q])
  BY DEF BalancerInv, RankInv, CallsInv
<1>3. 1 \in Nat \ {0} /\ 1 - 1 = 0 OBVIOUS
<1> HIDE DEF N, g
<1>4. \A q \in Rank : Of("weight", q, 1) = g[q][1 - 1] BY <1>1, <1>2, <1>3, Collected
<1>5. \A q \in Rank : Of("weight", q, 1) = Load(in, q) BY <1>3, <1>4 DEF g, Weights
<1>6. Loads = [q \in Rank |-> Load(in, q)] BY <1>5 DEF Loads
<1>7. {Loads[q] : q \in Rank} = {Load(in, q) : q \in Rank} BY <1>6
<1> QED BY <1>6, <1>7 DEF Balanced, IsBalanced

LEMMA RowsKnown ==
  ASSUME BalancerInv, \A q \in Rank : RowCalls(q) = 1
  PROVE  /\ \A k \in Pos : Similarity(k) = Sim(in, k)
         /\ \A k \in Pos : \A i : Digit(k, i) = Dig(in, k, i)
<1>1. \A q \in Rank : Of("row", q, 1) = RowOf(in, q)
  <2>1. TAKE q \in Rank
  <2>2. coll["row"][q] = FirstCalls(Rows(in, q), 1) BY DEF BalancerInv, RankInv, CallsInv
  <2>3. FirstCalls(Rows(in, q), 1)[1] = Rows(in, q)[1 - 1] BY CallsMade
  <2> QED BY <2>2, <2>3 DEF Of, Rows
<1>2. ASSUME NEW k \in Pos PROVE Similarity(k) = Sim(in, k)
  <2>1. k \div P \in Rank BY DivMod
  <2> QED BY <1>1, <2>1 DEF Similarity, Sim
<1> QED BY <1>2 DEF Digit, Dig

LEMMA StageArrays ==
  ASSUME NEW x \in Inputs, NEW i \in Nat
  PROVE  /\ Stages(x)[i] \in Arrays /\ Stages(x)[i + 1] \in Arrays
         /\ \A m \in Pos : Stages(x)[i + 1][m] = Stages(x)[i][From(x, Stages(x)[i], i)[m]]
<1> DEFINE S == Stages(x)[i]
<1>1. Stages(x)[i + 1] = Passed(x, S, i) /\ S \in Arrays BY StagesRecursion
<1> HIDE DEF S
<1>2. /\ Passed(x, S, i) \in Arrays
      /\ \A m \in Pos : Passed(x, S, i)[m] = S[From(x, S, i)[m]]
  BY <1>1, PassInverse
<1> QED BY <1>1, <1>2 DEF S

(* What goes to the rank q is what comes there from r.                     *)
LEMMA RingSends ==
  ASSUME NEW x \in Inputs, NEW i \in Nat, NEW r \in Rank, NEW q \in Rank,
         NEW S, S = Stages(x)[i]
  PROVE  {<<Goes(x, S, i)[r * P + k] % P, S[r * P + k]>> :
             k \in {l \in Rank : Goes(x, S, i)[r * P + l] \div P = q}} = Sent(x, i, r)[q]
<1> DEFINE g == Goes(x, S, i)
           f == From(x, S, i)
           T == Stages(x)[i + 1]
           A == {<<g[r * P + k] % P, S[r * P + k]>> : k \in {l \in Rank : g[r * P + l] \div P = q}}
           B == {<<k, T[q * P + k]>> : k \in {l \in Rank : f[q * P + l] \div P = r}}
<1>1. S \in Arrays /\ \A m \in Pos : T[m] = S[f[m]] BY StageArrays
<1>2. /\ \A n \in Pos : g[n] \in Pos /\ f[g[n]] = n
      /\ \A m \in Pos : f[m] \in Pos /\ g[f[m]] = m
  BY <1>1, PassInverse
<1>3. Sent(x, i, r)[q] = B BY DEF Sent, Comes
<1> HIDE DEF g, f, T
<1>4. ASSUME NEW k \in Rank, g[r * P + k] \div P = q
      PROVE  <<g[r * P + k] % P, S[r * P + k]>> \in B
  <2> DEFINE n == r * P + k
             m == g[n]
  <2>1. n \in Pos /\ n \div P = r BY DivMod
  <2>2. m \in Pos /\ f[m] = n BY <1>2, <2>1
  <2>3. m % P \in Rank /\ q * P + (m % P) = m BY <1>4, <2>2, DivMod
  <2>4. T[q * P + (m % P)] = S[n] BY <1>1, <2>2, <2>3
  <2>5. f[q * P + (m % P)] \div P = r BY <2>1, <2>2, <2>3
  <2> HIDE DEF n, m
  <2>6. <<m % P, S[n]>> \in B BY <2>3, <2>4, <2>5
  <2> QED BY <2>6 DEF n, m
<1>5. ASSUME NEW k \in Rank, f[q * P + k] \div P = r PROVE <<k, T[q * P + k]>> \in A
  <2> DEFINE m == q * P + k
             n == f[m]
             l == n % P
  <2>1. m \in Pos /\ m \div P = q /\ m % P = k BY DivMod
  <2>2. n \in Pos /\ g[n] = m /\ T[m] = S[n] BY <1>1, <1>2, <2>1
  <2>3. l \in Rank /\ r * P + l = n BY <1>5, <2>2, DivMod
  <2>4. g[r * P + l] \div P = q /\ g[r * P + l] % P = k /\ S[r * P + l] = T[m]
    BY <2>1, <2>2, <2>3
  <2> HIDE DEF m, n, l
  <2>5. <<k, T[m]>> \in A BY <2>3, <2>4
  <2> QED BY <2>5 DEF m
<1>6. A = B
  <2>1. A \subseteq B BY <1>4
  <2>2. B \subseteq A
    <3> HIDE DEF A
    <3> QED BY <1>5
  <2> QED BY <2>1, <2>2
<1> QED BY <1>3, <1>6 DEF g

(* What the ranks Q bring to the rank r is the new entries of the places   *)
(* whose entries come from them.                                           *)
(* What the ranks Q send to the rank r in pass i.                          *)
Brought(x, i, r, Q) == UNION {Sent(x, i, q)[r] : q \in Q}

Source(x, i, r, k) == From(x, Stages(x)[i], i)[r * P + k] \div P

LEMMA RingBrings ==
  ASSUME NEW x \in Inputs, NEW i \in Nat, NEW r \in Rank, NEW Q \in SUBSET Rank,
         NEW k \in Rank
  PROVE  /\ Source(x, i, r, k) \in Rank
         /\ {p \in Brought(x, i, r, Q) : p[1] = k}
            = IF Source(x, i, r, k) \in Q THEN {<<k, Stages(x)[i + 1][r * P + k]>>} ELSE {}
<1> DEFINE t(l) == <<l, Stages(x)[i + 1][r * P + l]>>
           s == Source(x, i, r, k)
           A == Brought(x, i, r, Q)
<1>1. \A q \in Rank : Sent(x, i, q)[r] = {t(l) : l \in {j \in Rank : Source(x, i, r, j) = q}}
  BY DEF Sent, Comes, Source
<1>2. s \in Rank
  <2> DEFINE S == Stages(x)[i]
  <2>1. S \in Arrays BY StageArrays
  <2>2. r * P + k \in Pos BY DivMod
  <2> HIDE DEF S
  <2>3. From(x, S, i)[r * P + k] \in Pos BY <2>1, <2>2, PassInverse
  <2> QED BY <2>3, DivMod DEF S, Source
<1>3. \A l : t(l)[1] = l OBVIOUS
<1>4. \A p : p \in A <=> \E l \in Rank : p = t(l) /\ Source(x, i, r, l) \in Q
  BY <1>1 DEF Brought
<1>5. t(k) = <<k, Stages(x)[i + 1][r * P + k]>> OBVIOUS
<1> HIDE DEF t, A
<1>6. {p \in A : p[1] = k} = IF s \in Q THEN {t(k)} ELSE {} BY <1>3, <1>4
<1> QED BY <1>2, <1>5, <1>6 DEF A

(* What is found for k among pairs, or else what was there.                *)
Found(A, k, old) == IF \E p \in A : p[1] = k THEN (CHOOSE p \in A : p[1] = k)[2] ELSE old

LEMMA RingFinds ==
  ASSUME NEW x \in Inputs, NEW i \in Nat, NEW r \in Rank, NEW Q \in SUBSET Rank,
         NEW k \in Rank, NEW old
  PROVE  Found(Brought(x, i, r, Q), k, old)
         = IF Source(x, i, r, k) \in Q THEN Stages(x)[i + 1][r * P + k] ELSE old
<1> DEFINE A == Brought(x, i, r, Q)
           B == {p \in A : p[1] = k}
           v == Stages(x)[i + 1][r * P + k]
           s == Source(x, i, r, k)
<1>1. B = IF s \in Q THEN {<<k, v>>} ELSE {} BY RingBrings
<1> HIDE DEF A, v, s
<1>2. ASSUME s \in Q PROVE Found(A, k, old) = v
  <2>1. \A p : (p \in A /\ p[1] = k) <=> p = <<k, v>> BY <1>1, <1>2
  <2>2. (CHOOSE p \in A : p[1] = k) = <<k, v>> /\ \E p \in A : p[1] = k BY <2>1
  <2>3. <<k, v>>[2] = v OBVIOUS
  <2>4. Found(A, k, old) = (CHOOSE p \in A : p[1] = k)[2] BY <2>2 DEF Found
  <2> QED BY <2>2, <2>3, <2>4
<1>3. ASSUME s \notin Q PROVE Found(A, k, old) = old
  <2>1. \A p \in A : p[1] # k BY <1>1, <1>3
  <2> QED BY <1>3, <2>1 DEF Found
<1> QED BY <1>2, <1>3 DEF A, v, s

------------------------------------------------------------------------------
(* Each step keeps the invariant *)

LEMMA MapGiven ==
  ASSUME MapInv, NEW r \in Rank, pc[r] \in Mapped \/ map[r] # <<>>
  PROVE  \E m \in Bijection(Rank, Rank) : map = [q \in Rank |-> m] /\ map[r] = m /\ m # <<>>
<1>1. \E m \in Bijection(Rank, Rank) : map = [q \in Rank |-> m] BY DEF MapInv
<1>2. PICK m \in Bijection(Rank, Rank) : map = [q \in Rank |-> m] BY <1>1
<1>3. DOMAIN m = Rank /\ r \in Rank BY DEF Bijection, Injection
<1>4. m # <<>>
  <2>1. DOMAIN <<>> = {} OBVIOUS
  <2> QED BY <2>1, <1>3
<1> QED BY <1>2, <1>4

(* A step of the rank r that changes nothing of the others.                *)
LEMMA StepOfOne ==
  ASSUME BalancerInv, NEW r \in Rank, NEW s \in Stage,
         in' = in, map' = map, pc' = [pc EXCEPT ![r] = s],
         pc[r] \in Mapped => s \in Mapped, s \in Mapped => map[r] # <<>>,
         pass' \in [Rank -> 0 .. (Digits - 1)],
         coll' = [c \in Collective |-> [q \in Rank |-> coll'[c][q]]],
         index' = [q \in Rank |-> index'[q]],
         target' = [q \in Rank |-> target'[q]],
         \A q \in Rank : q # r => /\ pass'[q] = pass[q]
                                  /\ index'[q] = index[q]
                                  /\ target'[q] = target[q]
                                  /\ \A c \in Collective : coll'[c][q] = coll[c][q],
         RankInv(r)'
  PROVE  BalancerInv'
<1>1. /\ pc' \in [Rank -> Stage] /\ pc'[r] = s
      /\ \A q \in Rank : q # r => pc'[q] = pc[q]
  BY DEF BalancerInv, TypeInv
<1>2. TypeInv' BY <1>1 DEF BalancerInv, TypeInv
<1>3. MapInv'
  <2>1. CASE map[r] = <<>>
    <3>1. pc[r] \notin Mapped /\ s \notin Mapped BY <2>1, MapGiven DEF BalancerInv
    <3>2. CASE map = [q \in Rank |-> <<>>] /\ \A q \in Rank : pc[q] \notin Mapped
      BY <3>1, <3>2, <1>1 DEF MapInv
    <3>3. CASE \E m \in Bijection(Rank, Rank) : map = [q \in Rank |-> m]
      <4>1. PICK m \in Bijection(Rank, Rank) : map = [q \in Rank |-> m] BY <3>3
      <4>2. m = <<>> BY <4>1, <2>1
      <4>3. DOMAIN m = Rank BY DEF Bijection, Injection
      <4>4. DOMAIN <<>> = {} OBVIOUS
      <4> QED BY <4>2, <4>3, <4>4
    <3> QED BY <3>2, <3>3 DEF BalancerInv, MapInv
  <2>2. CASE map[r] # <<>>
    <3>1. \E m \in Bijection(Rank, Rank) : map = [q \in Rank |-> m]
      BY <2>2, MapGiven DEF BalancerInv
    <3>2. pc[0] \in Mapped
      BY <2>2 DEF BalancerInv, MapInv
    <3>3. 0 \in Rank BY BalancerAssumption DEF Rank
    <3>4. pc'[0] \in Mapped BY <1>1, <3>2, <3>3
    <3> QED BY <3>1, <3>4 DEF MapInv
  <2> QED BY <2>1, <2>2
<1>4. ASSUME NEW q \in Rank, q # r PROVE RankInv(q)'
  <2>1. RankInv(q) BY DEF BalancerInv
  <2>2. /\ pc'[q] = pc[q] /\ pass'[q] = pass[q] /\ index'[q] = index[q]
        /\ target'[q] = target[q]
    BY <1>1, <1>4
  <2>3. \A c \in Collective : coll'[c][q] = coll[c][q] BY <1>4
  <2>4. /\ WeightCalls(q)' = WeightCalls(q) /\ RowCalls(q)' = RowCalls(q)
        /\ CountCalls(q)' = CountCalls(q) /\ RingCalls(q)' = RingCalls(q)
        /\ SortedCalls(q)' = SortedCalls(q)
    BY <2>2 DEF WeightCalls, RowCalls, CountCalls, RingCalls, SortedCalls
  <2>5. CallsInv(q)' BY <2>1, <2>3, <2>4 DEF RankInv, CallsInv, Collective
  <2>6. IndexInv(q)' BY <2>1, <2>2 DEF RankInv, IndexInv
  <2>7. AgreeInv(q)' BY <2>1, <2>2 DEF RankInv, AgreeInv
  <2>8. TargetInv(q)' BY <2>1, <2>2 DEF RankInv, TargetInv, Cells
  <2> QED BY <2>5, <2>6, <2>7, <2>8 DEF RankInv
<1> QED BY <1>2, <1>3, <1>4 DEF BalancerInv

LEMMA WeighKeeps ==
  ASSUME BalancerInv, NEW r \in Rank, Weigh(r)
  PROVE  BalancerInv'
<1>1. TypeInv /\ RankInv(r) BY DEF BalancerInv
<1>2. /\ pc[r] = "start" /\ pc'[r] = "weight" /\ pc' = [pc EXCEPT ![r] = "weight"]
      /\ UNCHANGED <<in, index, pass, map, target>>
  BY <1>1 DEF Weigh, TypeInv
<1>3. /\ coll' = [d \in Collective |-> [q \in Rank |-> coll'[d][q]]]
      /\ coll'["weight"][r] = Append(coll["weight"][r], Load(in, r))
      /\ \A d \in Collective, q \in Rank : d # "weight" \/ q # r => coll'[d][q] = coll[d][q]
  <2>1. Contribute("weight", r, Load(in, r)) BY DEF Weigh, WeightOf, Cells, Load
  <2> QED BY <1>1, <2>1, Contributed DEF TypeInv, Collective
<1>4. CallsInv(r)'
  <2>1. Append(FirstCalls(Weights(in, r), 0), Weights(in, r)[0]) = FirstCalls(Weights(in, r), 0 + 1)
    BY CallsMade
  <2>2. Weights(in, r)[0] = Load(in, r) BY DEF Weights
  <2>3. coll["weight"][r] = FirstCalls(Weights(in, r), 0)
    BY <1>1, <1>2 DEF RankInv, CallsInv, WeightCalls
  <2>4. coll'["weight"][r] = FirstCalls(Weights(in, r), 1) BY <1>3, <2>1, <2>2, <2>3
  <2>5. /\ WeightCalls(r)' = 1 /\ RowCalls(r)' = RowCalls(r)
        /\ CountCalls(r)' = CountCalls(r) /\ RingCalls(r)' = RingCalls(r)
        /\ SortedCalls(r)' = SortedCalls(r)
    BY <1>2
    DEF WeightCalls, RowCalls, CountCalls, RingCalls, SortedCalls, Sorting, Sorted, Mapped
  <2> QED BY <1>1, <1>2, <1>3, <2>4, <2>5 DEF RankInv, CallsInv, Collective
<1>5. IndexInv(r)' BY <1>1, <1>2 DEF RankInv, IndexInv, Sorting, Sorted, Mapped
<1>6. AgreeInv(r)' BY <1>2 DEF AgreeInv, Sorting, Sorted, Mapped
<1>7. TargetInv(r)' BY <1>1, <1>2 DEF RankInv, TargetInv, Cells, Reassigned, Mapped
<1>8. RankInv(r)' BY <1>4, <1>5, <1>6, <1>7 DEF RankInv
<1>9. /\ "weight" \in Stage /\ "weight" \notin Mapped /\ pc[r] \notin Mapped
  BY <1>2 DEF Stage, Mapped
<1> QED BY <1>1, <1>2, <1>3, <1>8, <1>9, StepOfOne DEF TypeInv

LEMMA PartitionKeeps ==
  ASSUME BalancerInv, NEW r \in Rank, Partition(r)
  PROVE  BalancerInv'
<1>1. TypeInv /\ RankInv(r) BY DEF BalancerInv
<1>2. /\ pc[r] = "weight" /\ Complete("weight", 1)
      /\ UNCHANGED <<in, index, pass, map, target>>
  BY DEF Partition
<1>3. Balanced(r) <=> IsBalanced(in) BY <1>2, WeightsKnown
<1>4. CASE Balanced(r) /\ pc' = [pc EXCEPT ![r] = "balanced"] /\ coll' = coll
  <2>1. pc'[r] = "balanced" BY <1>1, <1>4 DEF TypeInv
  <2>2. CallsInv(r)'
    <3>1. /\ WeightCalls(r)' = WeightCalls(r) /\ RowCalls(r)' = RowCalls(r)
          /\ CountCalls(r)' = CountCalls(r) /\ RingCalls(r)' = RingCalls(r)
          /\ SortedCalls(r)' = SortedCalls(r)
      BY <1>2, <2>1
      DEF WeightCalls, RowCalls, CountCalls, RingCalls, SortedCalls, Sorting, Sorted, Mapped
    <3> QED BY <1>1, <1>2, <1>4, <3>1 DEF RankInv, CallsInv
  <2>3. IndexInv(r)' BY <1>1, <1>2, <2>1 DEF RankInv, IndexInv, Sorting, Sorted, Mapped
  <2>4. AgreeInv(r)' BY <1>2, <1>3, <1>4, <2>1 DEF AgreeInv, Sorting, Sorted, Mapped
  <2>5. TargetInv(r)' BY <1>1, <1>2, <2>1 DEF RankInv, TargetInv, Cells, Reassigned, Mapped
  <2>6. RankInv(r)' BY <2>2, <2>3, <2>4, <2>5 DEF RankInv
  <2>7. "balanced" \in Stage /\ "balanced" \notin Mapped /\ pc[r] \notin Mapped
    BY <1>2 DEF Stage, Mapped
  <2> QED BY <1>1, <1>2, <1>4, <2>6, <2>7, StepOfOne DEF TypeInv
<1>5. CASE ~Balanced(r) /\ pc' = [pc EXCEPT ![r] = "row"] /\ Contribute("row", r, Row(r))
  <2>1. pc'[r] = "row" BY <1>1, <1>5 DEF TypeInv
  <2>2. Row(r) = RowOf(in, r)
    <3>1. target[r] = [c \in Cells(r) |-> in.part[c]]
      BY <1>1, <1>2 DEF RankInv, TargetInv, Reassigned, Mapped
    <3>2. \A q : {c \in Cells(r) : target[r][c] = q}
                 = {c \in DOMAIN in.rank : in.rank[c] = r /\ in.part[c] = q}
      BY <3>1 DEF Cells
    <3> QED BY <3>2 DEF Row, RowOf
  <2>3. /\ coll' = [d \in Collective |-> [q \in Rank |-> coll'[d][q]]]
        /\ coll'["row"][r] = Append(coll["row"][r], RowOf(in, r))
        /\ \A d \in Collective, q \in Rank : d # "row" \/ q # r => coll'[d][q] = coll[d][q]
    BY <1>1, <1>5, <2>2, Contributed DEF TypeInv, Collective
  <2>4. CallsInv(r)'
    <3>1. Append(FirstCalls(Rows(in, r), 0), Rows(in, r)[0]) = FirstCalls(Rows(in, r), 0 + 1)
      BY CallsMade
    <3>2. Rows(in, r)[0] = RowOf(in, r) BY DEF Rows
    <3>3. coll["row"][r] = FirstCalls(Rows(in, r), 0)
      BY <1>1, <1>2 DEF RankInv, CallsInv, RowCalls
    <3>4. coll'["row"][r] = FirstCalls(Rows(in, r), 1) BY <2>3, <3>1, <3>2, <3>3
    <3>5. /\ RowCalls(r)' = 1 /\ WeightCalls(r)' = WeightCalls(r)
          /\ CountCalls(r)' = CountCalls(r) /\ RingCalls(r)' = RingCalls(r)
          /\ SortedCalls(r)' = SortedCalls(r)
      BY <1>2, <2>1
      DEF WeightCalls, RowCalls, CountCalls, RingCalls, SortedCalls, Sorting, Sorted, Mapped
    <3> QED BY <1>1, <1>2, <2>3, <3>4, <3>5 DEF RankInv, CallsInv, Collective
  <2>5. IndexInv(r)' BY <1>1, <1>2, <2>1 DEF RankInv, IndexInv, Sorting, Sorted, Mapped
  <2>6. AgreeInv(r)' BY <1>2, <1>3, <1>5, <2>1 DEF AgreeInv
  <2>7. TargetInv(r)' BY <1>1, <1>2, <2>1 DEF RankInv, TargetInv, Cells, Reassigned, Mapped
  <2>8. RankInv(r)' BY <2>4, <2>5, <2>6, <2>7 DEF RankInv
  <2>9. "row" \in Stage /\ "row" \notin Mapped /\ pc[r] \notin Mapped
    BY <1>2 DEF Stage, Mapped
  <2> QED BY <1>1, <1>2, <1>5, <2>3, <2>8, <2>9, StepOfOne DEF TypeInv
<1> QED BY <1>4, <1>5 DEF Partition

(* The rows are complete once a rank has got past them.                    *)
LEMMA RowsComplete ==
  ASSUME BalancerInv,
         \/ Complete("row", 1)
         \/ \A q \in Rank : CountCalls(q) >= 1
         \/ \A q \in Rank : RingCalls(q) >= 1
         \/ \A q \in Rank : SortedCalls(q) >= 1
  PROVE  \A q \in Rank : RowCalls(q) = 1
<1>1. SUFFICES ASSUME NEW q \in Rank PROVE RowCalls(q) = 1 OBVIOUS
<1>2. TypeInv /\ RankInv(q) BY DEF BalancerInv
<1>3. RowCalls(q) \in {0, 1} BY DEF RowCalls
<1>4. CASE Complete("row", 1)
  <2>1. coll["row"][q] = FirstCalls(Rows(in, q), RowCalls(q)) BY <1>2 DEF RankInv, CallsInv
  <2>2. Len(coll["row"][q]) >= 1 BY <1>4 DEF Complete
  <2>3. RowCalls(q) \in Nat BY <1>3
  <2>4. Len(coll["row"][q]) = RowCalls(q) BY <2>1, <2>3, CallsMade
  <2> QED BY <1>3, <2>2, <2>4
<1>5. CASE CountCalls(q) >= 1 BY <1>5 DEF CountCalls, RowCalls, Sorting, Sorted, Mapped
<1>6. CASE RingCalls(q) >= 1
  <2>1. pc[q] \in {"ring", "count"} \cup Sorted BY <1>6 DEF RingCalls
  <2> QED BY <2>1 DEF RowCalls, Sorted, Mapped
<1>7. CASE SortedCalls(q) >= 1 BY <1>7 DEF SortedCalls, RowCalls, Sorted, Mapped
<1> QED BY <1>4, <1>5, <1>6, <1>7

(* A rank counts the digits of the indices it holds.                       *)
LEMMA CountsHere ==
  ASSUME BalancerInv, \A q \in Rank : RowCalls(q) = 1, NEW r \in Rank, NEW i \in Nat,
         NEW S \in Arrays
  PROVE  [d \in 0 .. (Base - 1) |-> Cardinality({k \in Rank : Digit(Piece(S, r)[k], i) = d})]
         = CountOf(in, S, r, i)
<1>1. \A k \in Rank : r * P + k \in Pos BY DivMod
<1>2. \A k \in Rank : Piece(S, r)[k] = S[r * P + k] /\ S[r * P + k] \in Pos
  BY <1>1 DEF Piece, Arrays
<1>3. \A k \in Rank : Digit(Piece(S, r)[k], i) = Dig(in, S[r * P + k], i) BY <1>2, RowsKnown
<1>4. \A d : {k \in Rank : Digit(Piece(S, r)[k], i) = d}
             = {k \in Rank : Dig(in, S[r * P + k], i) = d}
  BY <1>3
<1> QED BY <1>4 DEF CountOf

LEMMA StartSortKeeps ==
  ASSUME BalancerInv, NEW r \in Rank, StartSort(r)
  PROVE  BalancerInv'
<1>1. TypeInv /\ RankInv(r) BY DEF BalancerInv
<1>2. /\ pc[r] = "row" /\ Complete("row", 1) /\ pc' = [pc EXCEPT ![r] = "count"]
      /\ pc'[r] = "count" /\ UNCHANGED <<in, index, pass, map, target>>
  BY <1>1 DEF StartSort, TypeInv
<1>3. pass[r] = 0 /\ index[r] = Piece(Stages(in)[0], r)
  BY <1>1, <1>2 DEF RankInv, IndexInv, Sorting, Sorted, Mapped
<1>4. Counts(r) = CountOf(in, Stages(in)[0], r, 0)
  <2>1. Stages(in)[0] \in Arrays BY <1>1, StageArrays DEF TypeInv
  <2>2. \A q \in Rank : RowCalls(q) = 1 BY <1>2, RowsComplete
  <2> DEFINE S == Stages(in)[0]
  <2>3. Counts(r)
        = [d \in 0 .. (Base - 1) |-> Cardinality({k \in Rank : Digit(Piece(S, r)[k], 0) = d})]
    BY <1>3 DEF Counts
  <2> HIDE DEF S
  <2>4. S \in Arrays BY <2>1 DEF S
  <2>5. 0 \in Nat OBVIOUS
  <2>6. [d \in 0 .. (Base - 1) |-> Cardinality({k \in Rank : Digit(Piece(S, r)[k], 0) = d})]
        = CountOf(in, S, r, 0)
    BY <2>2, <2>4, <2>5, CountsHere
  <2> QED BY <2>3, <2>6 DEF S
<1>5. CountOf(in, Stages(in)[0], r, 0) = CountsOf(in, r)[0] BY DEF CountsOf
<1>6. /\ coll' = [d \in Collective |-> [q \in Rank |-> coll'[d][q]]]
      /\ coll'["count"][r] = Append(coll["count"][r], CountsOf(in, r)[0])
      /\ \A d \in Collective, q \in Rank : d # "count" \/ q # r => coll'[d][q] = coll[d][q]
  <2>1. Contribute("count", r, CountsOf(in, r)[0]) BY <1>4, <1>5 DEF StartSort
  <2> QED BY <1>1, <2>1, Contributed DEF TypeInv, Collective
<1>7. CallsInv(r)'
  <2>1. Append(FirstCalls(CountsOf(in, r), 0), CountsOf(in, r)[0])
        = FirstCalls(CountsOf(in, r), 0 + 1)
    BY CallsMade
  <2>2. coll["count"][r] = FirstCalls(CountsOf(in, r), 0)
    BY <1>1, <1>2 DEF RankInv, CallsInv, CountCalls, Sorting, Sorted, Mapped
  <2>3. coll'["count"][r] = FirstCalls(CountsOf(in, r), 1) BY <1>6, <2>1, <2>2
  <2>4. /\ CountCalls(r)' = 1 /\ WeightCalls(r)' = WeightCalls(r)
        /\ RowCalls(r)' = RowCalls(r) /\ RingCalls(r)' = RingCalls(r)
        /\ SortedCalls(r)' = SortedCalls(r)
    BY <1>2, <1>3
    DEF WeightCalls, RowCalls, CountCalls, RingCalls, SortedCalls, Sorting, Sorted, Mapped
  <2> QED BY <1>1, <1>2, <1>6, <2>3, <2>4 DEF RankInv, CallsInv, Collective
<1>8. IndexInv(r)' BY <1>1, <1>2, <1>3 DEF RankInv, IndexInv, Sorting, Sorted, Mapped
<1>9. AgreeInv(r)' BY <1>1, <1>2 DEF RankInv, AgreeInv
<1>10. TargetInv(r)' BY <1>1, <1>2 DEF RankInv, TargetInv, Cells, Reassigned, Mapped
<1>11. RankInv(r)' BY <1>7, <1>8, <1>9, <1>10 DEF RankInv
<1>12. "count" \in Stage /\ "count" \notin Mapped /\ pc[r] \notin Mapped
  BY <1>2 DEF Stage, Mapped
<1> QED BY <1>1, <1>2, <1>6, <1>11, <1>12, StepOfOne DEF TypeInv

(* The places the model computes are those of the pass.                    *)
LEMMA PlacesKnown ==
  ASSUME BalancerInv, NEW r \in Rank, pc[r] = "count", Complete("count", pass[r] + 1),
         NEW k \in Rank
  PROVE  Place(r, k) = Goes(in, Stages(in)[pass[r]], pass[r])[r * P + k]
<1> DEFINE i == pass[r]
           S == Stages(in)[i]
           N == [q \in Rank |-> CountCalls(q)]
           g == [q \in Rank |-> CountsOf(in, q)]
           d == Dig(in, S[r * P + k], i)
<1>1. TypeInv /\ RankInv(r) /\ in \in Inputs BY DEF BalancerInv, TypeInv
<1>2. i \in Nat /\ i + 1 \in Nat \ {0} /\ (i + 1) - 1 = i
  <2>1. i \in 0 .. (Digits - 1) BY <1>1 DEF TypeInv
  <2> QED BY <2>1, BalancerAssumption
<1>3. S \in Arrays BY <1>1, <1>2, StageArrays
<1>4. index[r] = Piece(S, r) BY <1>1 DEF RankInv, IndexInv, Sorted, Mapped
<1>5. \A q \in Rank : N[q] >= i + 1 /\ Of("count", q, i + 1) = g[q][i]
  <2>1. N \in [Rank -> Nat] BY <1>1, CallsType
  <2>2. \A q \in Rank : coll["count"][q] = FirstCalls(g[q], N[q])
    BY DEF BalancerInv, RankInv, CallsInv
  <2> HIDE DEF N, g, i
  <2>3. Complete("count", i + 1) BY DEF i
  <2> QED BY <1>2, <2>1, <2>2, <2>3, Collected
<1>6. \A q \in Rank : Of("count", q, i + 1) = CountOf(in, S, q, i)
  BY <1>2, <1>5 DEF CountsOf
<1>7. \A q \in Rank : CountCalls(q) >= 1
  <2>1. \A q \in Rank : CountCalls(q) \in Nat BY <1>1, CallsType
  <2> QED BY <1>2, <1>5, <2>1
<1>8. \A l \in Rank : Digit(index[r][l], i) = Dig(in, S[r * P + l], i)
  <2>1. \A l \in Rank : r * P + l \in Pos BY DivMod
  <2>2. \A l \in Rank : index[r][l] = S[r * P + l] /\ S[r * P + l] \in Pos
    BY <1>3, <1>4, <2>1 DEF Piece, Arrays
  <2>3. \A q \in Rank : RowCalls(q) = 1 BY <1>7, RowsComplete
  <2> HIDE DEF S, i
  <2> QED BY <2>2, <2>3, RowsKnown
<1> DEFINE smaller == SumOf([e \in 0 .. (d - 1) |->
                              SumOf([q \in Rank |-> CountOf(in, S, q, i)[e]], P)], d)
           upTo == SumOf([q \in 0 .. r |-> CountOf(in, S, q, i)[d]], r + 1)
           after == Cardinality({l \in Rank : l > k /\ Dig(in, S[r * P + l], i) = d})
<1>9. Place(r, k) = smaller + upTo - 1 - after
  <2> DEFINE c == Digit(index[r][k], i)
  <2>1. c = d BY <1>8
  <2>2. 0 .. r \subseteq Rank BY BalancerAssumption DEF Rank
  <2>3. \A e : [q \in Rank |-> Of("count", q, i + 1)[e]] = [q \in Rank |-> CountOf(in, S, q, i)[e]]
    BY <1>6
  <2>4. [q \in 0 .. r |-> Of("count", q, i + 1)[c]] = [q \in 0 .. r |-> CountOf(in, S, q, i)[d]]
    BY <1>6, <2>1, <2>2
  <2>5. {l \in Rank : l > k /\ Digit(index[r][l], i) = c}
        = {l \in Rank : l > k /\ Dig(in, S[r * P + l], i) = d}
    BY <1>8, <2>1
  <2>6. Place(r, k)
        = SumOf([e \in 0 .. (c - 1) |-> SumOf([q \in Rank |-> Of("count", q, i + 1)[e]], P)], c)
          + SumOf([q \in 0 .. r |-> Of("count", q, i + 1)[c]], r + 1)
          - 1 - Cardinality({l \in Rank : l > k /\ Digit(index[r][l], i) = c})
    BY DEF Place
  <2>7. [e \in 0 .. (c - 1) |-> SumOf([q \in Rank |-> Of("count", q, i + 1)[e]], P)]
        = [e \in 0 .. (d - 1) |-> SumOf([q \in Rank |-> CountOf(in, S, q, i)[e]], P)]
    BY <2>1, <2>3
  <2> HIDE DEF c, d, S, i
  <2> QED BY <2>1, <2>4, <2>5, <2>6, <2>7
<1>10. smaller = SumOf([e \in 0 .. (d - 1) |->
                              SumOf([q \in Rank |-> CountOf(in, S, q, i)[e]], P)], d)
       /\ upTo = SumOf([q \in 0 .. r |-> CountOf(in, S, q, i)[d]], r + 1)
       /\ after = Cardinality({l \in Rank : l > k /\ Dig(in, S[r * P + l], i) = d})
       /\ d = Dig(in, S[r * P + k], i)
  OBVIOUS
<1> HIDE DEF smaller, upTo, after, d, S, i
<1>11. smaller + upTo - 1 - after = Goes(in, S, i)[r * P + k]
  BY <1>1, <1>2, <1>3, <1>10, PlaceGoes
<1> QED BY <1>9, <1>11 DEF S, i

LEMMA PlaceIndicesKeeps ==
  ASSUME BalancerInv, NEW r \in Rank, PlaceIndices(r)
  PROVE  BalancerInv'
<1> DEFINE i == pass[r]
           S == Stages(in)[i]
<1>1. TypeInv /\ RankInv(r) /\ in \in Inputs BY DEF BalancerInv, TypeInv
<1>2. i \in 0 .. (Digits - 1) /\ i \in Nat
  <2>1. i \in 0 .. (Digits - 1) BY <1>1 DEF TypeInv
  <2> QED BY <2>1, BalancerAssumption
<1>3. /\ pc[r] = "count" /\ Complete("count", i + 1) /\ pc' = [pc EXCEPT ![r] = "ring"]
      /\ pc'[r] = "ring" /\ UNCHANGED <<in, pass, map, target>>
  BY <1>1 DEF PlaceIndices, TypeInv
<1>4. index[r] = Piece(S, r) BY <1>1, <1>3 DEF RankInv, IndexInv, Sorted, Mapped
<1>5. Sendbuff(r) = Sent(in, i, r)
  <2>1. \A k \in Rank : Place(r, k) = Goes(in, S, i)[r * P + k] BY <1>3, PlacesKnown
  <2>2. \A k \in Rank : index[r][k] = S[r * P + k] BY <1>4 DEF Piece
  <2>3. ASSUME NEW q \in Rank
        PROVE  {<<Place(r, k) % P, index[r][k]>> : k \in {l \in Rank : Place(r, l) \div P = q}}
               = Sent(in, i, r)[q]
    <3>1. {<<Place(r, k) % P, index[r][k]>> : k \in {l \in Rank : Place(r, l) \div P = q}}
          = {<<Goes(in, S, i)[r * P + k] % P, S[r * P + k]>> :
               k \in {l \in Rank : Goes(in, S, i)[r * P + l] \div P = q}}
      BY <2>1, <2>2
    <3>2. S = Stages(in)[i] OBVIOUS
    <3> HIDE DEF S, i
    <3>3. {<<Goes(in, S, i)[r * P + k] % P, S[r * P + k]>> :
               k \in {l \in Rank : Goes(in, S, i)[r * P + l] \div P = q}} = Sent(in, i, r)[q]
      BY <3>2, <1>1, <1>2, RingSends
    <3> QED BY <3>1, <3>3
  <2>4. Sent(in, i, r) = [q \in Rank |-> Sent(in, i, r)[q]] BY DEF Sent
  <2> HIDE DEF S, i
  <2> QED BY <2>3, <2>4 DEF Sendbuff
<1>6. /\ coll' = [d \in Collective |-> [q \in Rank |-> coll'[d][q]]]
      /\ coll'["ring"][r] = Append(coll["ring"][r], Sent(in, i, r))
      /\ \A d \in Collective, q \in Rank : d # "ring" \/ q # r => coll'[d][q] = coll[d][q]
  <2>1. Contribute("ring", r, Sent(in, i, r)) BY <1>5 DEF PlaceIndices
  <2> QED BY <1>1, <2>1, Contributed DEF TypeInv, Collective
<1>7. /\ index' = [q \in Rank |-> index'[q]]
      /\ index'[r] = Halfway(in, i, r)
      /\ \A q \in Rank : q # r => index'[q] = index[q]
  <2> DEFINE A == Sent(in, i, r)[r]
             new == [k \in Rank |-> Found(A, k, index[r][k])]
  <2>1. index' = [index EXCEPT ![r] = new] BY <1>5 DEF PlaceIndices, Found
  <2>2. ASSUME NEW k \in Rank PROVE Found(A, k, index[r][k]) = Halfway(in, i, r)[k]
    <3>1. A = Brought(in, i, r, {r}) BY DEF Brought
    <3>2. {r} \in SUBSET Rank OBVIOUS
    <3>3. Halfway(in, i, r)[k] = IF Source(in, i, r, k) = r THEN Stages(in)[i + 1][r * P + k]
                                 ELSE index[r][k]
      BY <1>4 DEF Halfway, Comes, Source, Piece
    <3> HIDE DEF A, S, i, new
    <3>4. Found(Brought(in, i, r, {r}), k, index[r][k])
          = IF Source(in, i, r, k) \in {r} THEN Stages(in)[i + 1][r * P + k] ELSE index[r][k]
      BY <1>1, <1>2, <3>2, RingFinds
    <3> QED BY <3>1, <3>3, <3>4
  <2>3. Halfway(in, i, r) = [k \in Rank |-> Halfway(in, i, r)[k]] BY DEF Halfway
  <2>4. new = Halfway(in, i, r)
    <3> HIDE DEF A, i, S
    <3> QED BY <2>2, <2>3
  <2> HIDE DEF new
  <2> QED BY <1>1, <2>1, <2>4 DEF TypeInv
<1>8. CallsInv(r)'
  <2>1. Append(FirstCalls(Rings(in, r), i), Rings(in, r)[i]) = FirstCalls(Rings(in, r), i + 1)
    BY <1>2, CallsMade
  <2>2. Rings(in, r)[i] = Sent(in, i, r) BY <1>2 DEF Rings
  <2>3. coll["ring"][r] = FirstCalls(Rings(in, r), i)
    BY <1>1, <1>3 DEF RankInv, CallsInv, RingCalls, Sorted, Mapped
  <2>4. coll'["ring"][r] = FirstCalls(Rings(in, r), i + 1) BY <1>6, <2>1, <2>2, <2>3
  <2>5. /\ RingCalls(r)' = i + 1 /\ WeightCalls(r)' = WeightCalls(r)
        /\ RowCalls(r)' = RowCalls(r) /\ CountCalls(r)' = CountCalls(r)
        /\ SortedCalls(r)' = SortedCalls(r)
    BY <1>3
    DEF WeightCalls, RowCalls, CountCalls, RingCalls, SortedCalls, Sorting, Sorted, Mapped
  <2> QED BY <1>1, <1>3, <1>6, <2>4, <2>5 DEF RankInv, CallsInv, Collective
<1>9. IndexInv(r)' BY <1>1, <1>3, <1>7 DEF RankInv, IndexInv, Sorting, Sorted, Mapped
<1>10. AgreeInv(r)' BY <1>1, <1>3 DEF RankInv, AgreeInv, Sorting, Sorted, Mapped
<1>11. TargetInv(r)' BY <1>1, <1>3 DEF RankInv, TargetInv, Cells, Reassigned, Mapped
<1>12. RankInv(r)' BY <1>8, <1>9, <1>10, <1>11 DEF RankInv
<1>13. "ring" \in Stage /\ "ring" \notin Mapped /\ pc[r] \notin Mapped
  BY <1>3 DEF Stage, Mapped
<1> QED BY <1>1, <1>3, <1>6, <1>7, <1>12, <1>13, StepOfOne DEF TypeInv

LEMMA RingKnown ==
  ASSUME BalancerInv, NEW r \in Rank, Complete("ring", pass[r] + 1)
  PROVE  /\ \A q \in Rank : Of("ring", q, pass[r] + 1) = Sent(in, pass[r], q)
         /\ \A q \in Rank : RowCalls(q) = 1
<1> DEFINE i == pass[r]
           N == [q \in Rank |-> RingCalls(q)]
           g == [q \in Rank |-> Rings(in, q)]
<1>1. TypeInv /\ RankInv(r) /\ in \in Inputs BY DEF BalancerInv, TypeInv
<1>2. i \in Nat /\ i + 1 \in Nat \ {0} /\ (i + 1) - 1 = i
  <2>1. i \in 0 .. (Digits - 1) BY <1>1 DEF TypeInv
  <2> QED BY <2>1, BalancerAssumption
<1>3. \A q \in Rank : N[q] >= i + 1 /\ Of("ring", q, i + 1) = g[q][i]
  <2>1. N \in [Rank -> Nat] BY <1>1, CallsType
  <2>2. \A q \in Rank : coll["ring"][q] = FirstCalls(g[q], N[q])
    BY DEF BalancerInv, RankInv, CallsInv
  <2> HIDE DEF N, g, i
  <2>3. Complete("ring", i + 1) BY DEF i
  <2> QED BY <1>2, <2>1, <2>2, <2>3, Collected
<1>4. \A q \in Rank : RingCalls(q) >= 1
  <2>1. \A q \in Rank : RingCalls(q) \in Nat BY <1>1, CallsType
  <2> QED BY <1>2, <1>3, <2>1
<1>5. \A q \in Rank : g[q][i] = Sent(in, i, q) BY <1>2 DEF Rings
<1>6. \A q \in Rank : RowCalls(q) = 1 BY <1>4, RowsComplete
<1> HIDE DEF g
<1> QED BY <1>3, <1>5, <1>6

LEMMA CollectIndicesKeeps ==
  ASSUME BalancerInv, NEW r \in Rank, CollectIndices(r)
  PROVE  BalancerInv'
<1> DEFINE i == pass[r]
           A == Arrived(r)
           sorted == [k \in Rank |-> Found(A, k, index[r][k])]
           T == Stages(in)[i + 1]
<1>1. TypeInv /\ RankInv(r) /\ in \in Inputs BY DEF BalancerInv, TypeInv
<1>2. i \in 0 .. (Digits - 1) /\ i \in Nat /\ i + 1 \in Nat
  <2>1. i \in 0 .. (Digits - 1) BY <1>1 DEF TypeInv
  <2> QED BY <2>1, BalancerAssumption
<1>3. /\ pc[r] = "ring" /\ Complete("ring", i + 1) /\ UNCHANGED <<in, map, target>>
      /\ index' = [index EXCEPT ![r] = sorted]
  BY DEF CollectIndices, Found
<1>4. index[r] = Halfway(in, i, r) BY <1>1, <1>3 DEF RankInv, IndexInv
<1>5. sorted = Piece(T, r)
  <2>1. A = Brought(in, i, r, Rank \ {r})
    <3>1. \A q \in Rank : Of("ring", q, i + 1) = Sent(in, i, q) BY <1>3, RingKnown
    <3> QED BY <3>1 DEF Arrived, Brought
  <2>2. ASSUME NEW k \in Rank PROVE Found(A, k, index[r][k]) = T[r * P + k]
    <3>1. Source(in, i, r, k) = r => index[r][k] = T[r * P + k]
      BY <1>4 DEF Halfway, Comes, Source
    <3>2. Rank \ {r} \in SUBSET Rank OBVIOUS
    <3> HIDE DEF A, sorted, i
    <3>3. /\ Found(Brought(in, i, r, Rank \ {r}), k, index[r][k])
             = IF Source(in, i, r, k) \in Rank \ {r} THEN T[r * P + k] ELSE index[r][k]
          /\ Source(in, i, r, k) \in Rank
      BY <1>1, <1>2, <3>2, RingFinds, RingBrings
    <3> QED BY <2>1, <3>1, <3>3
  <2> HIDE DEF A, T
  <2> QED BY <2>2 DEF Piece
<1>6. /\ index' = [q \in Rank |-> index'[q]] /\ index'[r] = Piece(T, r)
      /\ \A q \in Rank : q # r => index'[q] = index[q]
  <2> HIDE DEF sorted, T
  <2> QED BY <1>1, <1>3, <1>5 DEF TypeInv
<1>7. T \in Arrays BY <1>1, <1>2, StageArrays
<1>8. CASE i + 1 = Digits
  <2>1. /\ Contribute("sorted", r, sorted) /\ pc' = [pc EXCEPT ![r] = "sorted"] /\ pass' = pass
    BY <1>8 DEF CollectIndices, LastPass, Found
  <2>2. pc'[r] = "sorted" BY <1>1, <2>1 DEF TypeInv
  <2>3. /\ coll' = [d \in Collective |-> [q \in Rank |-> coll'[d][q]]]
        /\ coll'["sorted"][r] = Append(coll["sorted"][r], Sorts(in, r)[0])
        /\ \A d \in Collective, q \in Rank : d # "sorted" \/ q # r => coll'[d][q] = coll[d][q]
    <3>1. sorted = Sorts(in, r)[0] BY <1>5, <1>8 DEF Sorts
    <3> HIDE DEF sorted
    <3> QED BY <1>1, <2>1, <3>1, Contributed DEF TypeInv, Collective
  <2>4. CallsInv(r)'
    <3>1. Append(FirstCalls(Sorts(in, r), 0), Sorts(in, r)[0]) = FirstCalls(Sorts(in, r), 0 + 1)
      BY CallsMade
    <3>2. coll["sorted"][r] = FirstCalls(Sorts(in, r), 0)
      BY <1>1, <1>3 DEF RankInv, CallsInv, SortedCalls, Sorted, Mapped
    <3>3. coll'["sorted"][r] = FirstCalls(Sorts(in, r), 1) BY <2>3, <3>1, <3>2
    <3>4. /\ SortedCalls(r)' = 1 /\ WeightCalls(r)' = WeightCalls(r)
          /\ RowCalls(r)' = RowCalls(r) /\ CountCalls(r)' = CountCalls(r)
          /\ RingCalls(r)' = RingCalls(r)
      BY <1>3, <2>1, <2>2
      DEF WeightCalls, RowCalls, CountCalls, RingCalls, SortedCalls, Sorting, Sorted, Mapped
    <3> QED BY <1>1, <1>3, <2>3, <3>3, <3>4 DEF RankInv, CallsInv, Collective
  <2>5. IndexInv(r)'
    <3>1. i = Digits - 1 BY <1>2, <1>8, BalancerAssumption
    <3> QED BY <3>1, <2>1, <2>2 DEF IndexInv, Sorting, Sorted, Mapped
  <2>6. AgreeInv(r)' BY <1>1, <1>3, <2>2 DEF RankInv, AgreeInv, Sorting, Sorted, Mapped
  <2>7. TargetInv(r)' BY <1>1, <1>3, <2>2 DEF RankInv, TargetInv, Cells, Reassigned, Mapped
  <2>8. RankInv(r)' BY <2>4, <2>5, <2>6, <2>7 DEF RankInv
  <2>9. "sorted" \in Stage /\ "sorted" \notin Mapped /\ pc[r] \notin Mapped
    BY <1>3 DEF Stage, Mapped
  <2> HIDE DEF A, sorted, T, i
  <2>10. /\ pass' \in [Rank -> 0 .. (Digits - 1)] /\ target' = [q \in Rank |-> target'[q]]
         /\ \A q \in Rank : q # r => /\ pass'[q] = pass[q] /\ index'[q] = index[q]
                                       /\ target'[q] = target[q]
                                       /\ \A c \in Collective : coll'[c][q] = coll[c][q]
    BY <1>1, <1>3, <1>6, <2>1, <2>3 DEF TypeInv
  <2> QED BY <1>3, <1>6, <2>1, <2>3, <2>8, <2>9, <2>10, StepOfOne
<1>9. CASE i + 1 # Digits
  <2> DEFINE counts == [d \in 0 .. (Base - 1) |->
                          Cardinality({k \in Rank : Digit(sorted[k], i + 1) = d})]
  <2>1. /\ Contribute("count", r, counts) /\ pc' = [pc EXCEPT ![r] = "count"]
        /\ pass' = [pass EXCEPT ![r] = @ + 1]
    BY <1>9 DEF CollectIndices, LastPass, Found
  <2>2. pc'[r] = "count" BY <1>1, <2>1 DEF TypeInv
  <2>3. /\ pass' \in [Rank -> 0 .. (Digits - 1)] /\ pass'[r] = i + 1
        /\ \A q \in Rank : q # r => pass'[q] = pass[q]
    <3>1. i + 1 \in 0 .. (Digits - 1) BY <1>2, <1>9, BalancerAssumption
    <3> QED BY <1>1, <2>1, <3>1 DEF TypeInv
  <2>4. counts = CountsOf(in, r)[i + 1]
    <3>1. \A q \in Rank : RowCalls(q) = 1 BY <1>3, RingKnown
    <3>2. CountsOf(in, r)[i + 1] = CountOf(in, T, r, i + 1) BY <1>2 DEF CountsOf
    <3> HIDE DEF T, sorted, i
    <3>3. [d \in 0 .. (Base - 1) |-> Cardinality({k \in Rank : Digit(Piece(T, r)[k], i + 1) = d})]
          = CountOf(in, T, r, i + 1)
      BY <1>2, <1>7, <3>1, CountsHere
    <3> QED BY <1>5, <3>2, <3>3
  <2>5. /\ coll' = [d \in Collective |-> [q \in Rank |-> coll'[d][q]]]
        /\ coll'["count"][r] = Append(coll["count"][r], CountsOf(in, r)[i + 1])
        /\ \A d \in Collective, q \in Rank : d # "count" \/ q # r => coll'[d][q] = coll[d][q]
    <3> HIDE DEF counts
    <3> QED BY <1>1, <2>1, <2>4, Contributed DEF TypeInv, Collective
  <2>6. CallsInv(r)'
    <3>1. Append(FirstCalls(CountsOf(in, r), i + 1), CountsOf(in, r)[i + 1])
          = FirstCalls(CountsOf(in, r), (i + 1) + 1)
      BY <1>2, CallsMade
    <3>2. coll["count"][r] = FirstCalls(CountsOf(in, r), i + 1)
      BY <1>1, <1>3 DEF RankInv, CallsInv, CountCalls, Sorting
    <3>3. coll'["count"][r] = FirstCalls(CountsOf(in, r), (i + 1) + 1) BY <2>5, <3>1, <3>2
    <3>4. /\ CountCalls(r)' = (i + 1) + 1 /\ WeightCalls(r)' = WeightCalls(r)
          /\ RowCalls(r)' = RowCalls(r) /\ RingCalls(r)' = RingCalls(r)
          /\ SortedCalls(r)' = SortedCalls(r)
      BY <1>3, <2>2, <2>3
      DEF WeightCalls, RowCalls, CountCalls, RingCalls, SortedCalls, Sorting, Sorted, Mapped
    <3> QED BY <1>1, <1>3, <2>5, <3>3, <3>4 DEF RankInv, CallsInv, Collective
  <2>7. IndexInv(r)'
    BY <1>3, <1>6, <2>2, <2>3 DEF IndexInv, Sorting, Sorted, Mapped
  <2>8. AgreeInv(r)' BY <1>1, <1>3, <2>2 DEF RankInv, AgreeInv, Sorting, Sorted, Mapped
  <2>9. TargetInv(r)' BY <1>1, <1>3, <2>2 DEF RankInv, TargetInv, Cells, Reassigned, Mapped
  <2>10. RankInv(r)' BY <2>6, <2>7, <2>8, <2>9 DEF RankInv
  <2>11. "count" \in Stage /\ "count" \notin Mapped /\ pc[r] \notin Mapped
    BY <1>3 DEF Stage, Mapped
  <2> HIDE DEF A, sorted, T, i, counts
  <2>12. /\ target' = [q \in Rank |-> target'[q]]
         /\ \A q \in Rank : q # r => /\ pass'[q] = pass[q] /\ index'[q] = index[q]
                                       /\ target'[q] = target[q]
                                       /\ \A c \in Collective : coll'[c][q] = coll[c][q]
    BY <1>1, <1>3, <1>6, <2>3, <2>5 DEF TypeInv
  <2> QED BY <1>3, <1>6, <2>1, <2>3, <2>5, <2>10, <2>11, <2>12, StepOfOne
<1> QED BY <1>8, <1>9

LEMMA OrderKnown ==
  ASSUME BalancerInv, Complete("sorted", 1)
  PROVE  /\ \A n \in Pos : Order(n) = Stages(in)[Digits][n]
         /\ \A q \in Rank : RowCalls(q) = 1
<1> DEFINE N == [q \in Rank |-> SortedCalls(q)]
           g == [q \in Rank |-> Sorts(in, q)]
<1>1. N \in [Rank -> Nat] BY CallsType DEF BalancerInv
<1>2. \A q \in Rank : coll["sorted"][q] = FirstCalls(g[q], N[q])
  BY DEF BalancerInv, RankInv, CallsInv
<1>3. 1 \in Nat \ {0} /\ 1 - 1 = 0 OBVIOUS
<1>4. \A q \in Rank : N[q] >= 1 /\ Of("sorted", q, 1) = g[q][1 - 1]
  <2> HIDE DEF N, g
  <2> QED BY <1>1, <1>2, <1>3, Collected
<1>5. \A q \in Rank : RowCalls(q) = 1 BY <1>4, RowsComplete
<1>6. \A q \in Rank : Of("sorted", q, 1) = Piece(Stages(in)[Digits], q)
  BY <1>3, <1>4 DEF Sorts
<1>7. ASSUME NEW n \in Pos PROVE Order(n) = Stages(in)[Digits][n]
  <2>1. n \div P \in Rank /\ n % P \in Rank /\ (n \div P) * P + (n % P) = n BY DivMod
  <2>2. Piece(Stages(in)[Digits], n \div P)[n % P] = Stages(in)[Digits][n] BY <2>1 DEF Piece
  <2> QED BY <1>6, <2>1, <2>2 DEF Order
<1> QED BY <1>5, <1>7

(* A step that only moves on the rank r.                                   *)
LEMMA MoveOn ==
  ASSUME BalancerInv, NEW r \in Rank, NEW s \in Mapped,
         pc[r] \in {"sorted"} \cup Mapped, pc[r] # "sorted" \/ map[r] # <<>>,
         pc' = [pc EXCEPT ![r] = s], UNCHANGED <<in, index, pass, map>>,
         coll' = [c \in Collective |-> [q \in Rank |-> coll'[c][q]]],
         \A c \in Collective, q \in Rank : c \notin {"new", "cost"} \/ q # r => coll'[c][q] = coll[c][q],
         target' = [q \in Rank |-> target'[q]],
         \A q \in Rank : q # r => target'[q] = target[q],
         TargetInv(r)'
  PROVE  BalancerInv'
<1>1. TypeInv /\ RankInv(r) BY DEF BalancerInv
<1>2. pc'[r] = s BY <1>1 DEF TypeInv
<1>3. CallsInv(r)'
  <2>1. /\ WeightCalls(r)' = WeightCalls(r) /\ RowCalls(r)' = RowCalls(r)
        /\ CountCalls(r)' = CountCalls(r) /\ RingCalls(r)' = RingCalls(r)
        /\ SortedCalls(r)' = SortedCalls(r)
    BY <1>2
    DEF WeightCalls, RowCalls, CountCalls, RingCalls, SortedCalls, Sorting, Sorted, Mapped
  <2>2. \A c \in {"weight", "row", "count", "ring", "sorted"} : coll'[c][r] = coll[c][r]
    BY DEF Collective
  <2> QED BY <1>1, <2>1, <2>2 DEF RankInv, CallsInv
<1>4. IndexInv(r)' BY <1>1, <1>2 DEF RankInv, IndexInv, Sorting, Sorted, Mapped
<1>5. AgreeInv(r)' BY <1>1, <1>2 DEF RankInv, AgreeInv, Sorting, Sorted, Mapped
<1>6. RankInv(r)' BY <1>3, <1>4, <1>5 DEF RankInv
<1>7. map[r] # <<>>
  <2>1. CASE pc[r] \in Mapped BY <2>1, MapGiven DEF BalancerInv
  <2> QED BY <2>1
<1>8. s \in Stage BY DEF Stage, Mapped
<1> QED BY <1>1, <1>6, <1>7, <1>8, StepOfOne DEF TypeInv

LEMMA AssignKeeps ==
  ASSUME BalancerInv, NEW r \in Rank, Assign(r)
  PROVE  BalancerInv'
<1>1. TypeInv /\ MapInv /\ in \in Inputs BY DEF BalancerInv, TypeInv
<1>2. /\ r = 0 /\ pc[0] = "sorted" /\ Complete("sorted", 1) /\ pc' = [pc EXCEPT ![0] = "map"]
      /\ map' = [q \in Rank |-> Taken[P * P]]
      /\ UNCHANGED <<in, coll, index, pass, target>>
  BY DEF Assign
<1>3. Taken[P * P] \in Bijection(Rank, Rank)
  <2>1. Permutes(Stages(in)[Digits]) BY <1>1, StagesSort, BalancerAssumption
  <2> QED BY <1>2, <2>1, OrderKnown, TakenMatches
<1>4. /\ 0 \in Rank /\ pc' \in [Rank -> Stage] /\ pc'[0] = "map"
      /\ \A q \in Rank : q # 0 => pc'[q] = pc[q]
  BY <1>1, <1>2 DEF TypeInv, Stage
<1>5. \A q \in Rank : pc[q] \notin Mapped
  <2>1. pc[0] \notin Mapped BY <1>2 DEF Mapped
  <2> QED BY <1>1, <2>1 DEF MapInv
<1>6. MapInv'
  <2>1. \E m \in Bijection(Rank, Rank) : map' = [q \in Rank |-> m] BY <1>2, <1>3
  <2>2. pc'[0] \in Mapped BY <1>4 DEF Mapped
  <2> QED BY <2>1, <2>2 DEF MapInv
<1>7. TypeInv' BY <1>1, <1>2, <1>4 DEF TypeInv
<1>8. ASSUME NEW q \in Rank PROVE RankInv(q)'
  <2>1. RankInv(q) BY DEF BalancerInv
  <2>2. pc[q] \notin Mapped /\ (pc'[q] = pc[q] \/ (pc[q] = "sorted" /\ pc'[q] = "map"))
    BY <1>2, <1>4, <1>5
  <2>3. /\ WeightCalls(q)' = WeightCalls(q) /\ RowCalls(q)' = RowCalls(q)
        /\ CountCalls(q)' = CountCalls(q) /\ RingCalls(q)' = RingCalls(q)
        /\ SortedCalls(q)' = SortedCalls(q)
    BY <1>2, <2>2
    DEF WeightCalls, RowCalls, CountCalls, RingCalls, SortedCalls, Sorting, Sorted, Mapped
  <2>4. CallsInv(q)' BY <1>2, <2>1, <2>3 DEF RankInv, CallsInv
  <2>5. IndexInv(q)' BY <1>2, <2>1, <2>2 DEF RankInv, IndexInv, Sorting, Sorted, Mapped
  <2>6. AgreeInv(q)' BY <1>2, <2>1, <2>2 DEF RankInv, AgreeInv, Sorting, Sorted, Mapped
  <2>7. TargetInv(q)'
    <3>1. pc[q] \notin Reassigned /\ pc'[q] \notin Reassigned BY <2>2 DEF Reassigned, Mapped
    <3> QED BY <1>2, <2>1, <3>1 DEF RankInv, TargetInv, Cells
  <2> QED BY <2>4, <2>5, <2>6, <2>7 DEF RankInv
<1> QED BY <1>6, <1>7, <1>8 DEF BalancerInv

LEMMA ReceiveMapKeeps ==
  ASSUME BalancerInv, NEW r \in Rank, ReceiveMap(r)
  PROVE  BalancerInv'
<1>1. TypeInv /\ RankInv(r) BY DEF BalancerInv
<1>2. /\ pc[r] = "sorted" /\ map[r] # <<>> /\ pc' = [pc EXCEPT ![r] = "map"] /\ pc'[r] = "map"
      /\ UNCHANGED <<in, coll, index, pass, map, target>>
  BY <1>1 DEF ReceiveMap, TypeInv
<1>3. TargetInv(r)' BY <1>1, <1>2 DEF RankInv, TargetInv, Cells, Reassigned, Mapped
<1>4. "map" \in Mapped BY DEF Mapped
<1> QED BY <1>1, <1>2, <1>3, <1>4, MoveOn DEF TypeInv

LEMMA ReassignKeeps ==
  ASSUME BalancerInv, NEW r \in Rank, Reassign(r)
  PROVE  BalancerInv'
<1> DEFINE new == [c \in Cells(r) |-> map[r][target[r][c]]]
           sums == [q \in Rank |-> WeightOf({c \in Cells(r) : new[c] = q})]
<1>1. TypeInv /\ RankInv(r) BY DEF BalancerInv
<1>2. pc[r] = "map" /\ target' = [target EXCEPT ![r] = new] /\ UNCHANGED <<in, index, pass, map>>
  BY DEF Reassign
<1>3. \/ Contribute("new", r, sums) /\ pc' = [pc EXCEPT ![r] = "new"]
      \/ coll' = coll /\ pc' = [pc EXCEPT ![r] = "moved"]
  BY DEF Reassign
<1>4. PICK s \in Mapped : s # "map" /\ pc' = [pc EXCEPT ![r] = s] BY <1>3 DEF Mapped
<1>5. /\ target' = [q \in Rank |-> target'[q]] /\ target'[r] = new
      /\ \A q \in Rank : q # r => target'[q] = target[q]
  <2> HIDE DEF new
  <2> QED BY <1>1, <1>2 DEF TypeInv
<1>6. /\ coll' = [c \in Collective |-> [q \in Rank |-> coll'[c][q]]]
      /\ \A c \in Collective, q \in Rank : c \notin {"new", "cost"} \/ q # r => coll'[c][q] = coll[c][q]
  <2>1. CASE coll' = coll BY <1>1, <2>1 DEF TypeInv
  <2>2. CASE Contribute("new", r, sums)
    <3> HIDE DEF sums
    <3> QED BY <1>1, <2>2, Contributed DEF TypeInv, Collective
  <2> QED BY <1>3, <2>1, <2>2
<1>7. TargetInv(r)'
  <2>1. target[r] = [c \in Cells(r) |-> in.part[c]]
    BY <1>1, <1>2 DEF RankInv, TargetInv, Reassigned
  <2>2. new = [c \in Cells(r) |-> map[r][in.part[c]]] BY <2>1
  <2>3. pc'[r] \in Reassigned BY <1>1, <1>4 DEF TypeInv, Reassigned
  <2> HIDE DEF new
  <2> QED BY <1>2, <1>5, <2>2, <2>3 DEF TargetInv, Cells
<1>8. pc[r] \in Mapped /\ pc[r] # "sorted" BY <1>2 DEF Mapped
<1> HIDE DEF new, sums
<1> QED BY <1>2, <1>4, <1>5, <1>6, <1>7, <1>8, MoveOn

LEMMA WeighNewKeeps ==
  ASSUME BalancerInv, NEW r \in Rank, WeighNew(r)
  PROVE  BalancerInv'
<1> DEFINE v == [old |-> WeightOf(Cells(r)),
                 new |-> SumOf([q \in Rank |-> Of("new", q, 1)[r]], P),
                 sendrecv |-> MaxSendrecv(r)]
<1>1. TypeInv /\ RankInv(r) BY DEF BalancerInv
<1>2. /\ pc[r] = "new" /\ pc' = [pc EXCEPT ![r] = "cost"] /\ pc'[r] = "cost"
      /\ UNCHANGED <<in, index, pass, map, target>> /\ Contribute("cost", r, v)
  BY <1>1 DEF WeighNew, TypeInv
<1>3. /\ coll' = [c \in Collective |-> [q \in Rank |-> coll'[c][q]]]
      /\ \A c \in Collective, q \in Rank : c \notin {"new", "cost"} \/ q # r => coll'[c][q] = coll[c][q]
  <2> HIDE DEF v
  <2> QED BY <1>1, <1>2, Contributed DEF TypeInv, Collective
<1>4. TargetInv(r)' BY <1>1, <1>2 DEF RankInv, TargetInv, Cells, Reassigned, Mapped
<1>5. "cost" \in Mapped /\ pc[r] \in Mapped /\ pc[r] # "sorted" BY <1>2 DEF Mapped
<1> HIDE DEF v
<1> QED BY <1>1, <1>2, <1>3, <1>4, <1>5, MoveOn DEF TypeInv

LEMMA DecideKeeps ==
  ASSUME BalancerInv, NEW r \in Rank, Decide(r)
  PROVE  BalancerInv'
<1>1. TypeInv /\ RankInv(r) BY DEF BalancerInv
<1>2. pc[r] = "cost" /\ UNCHANGED <<in, coll, index, pass, map, target>> BY DEF Decide
<1>3. PICK s \in {"moved", "kept"} : pc' = [pc EXCEPT ![r] = s] BY DEF Decide
<1>4. s \in Mapped /\ pc[r] \in Mapped /\ pc[r] # "sorted" BY <1>2 DEF Mapped
<1>5. pc'[r] = s BY <1>1, <1>3 DEF TypeInv
<1>6. TargetInv(r)' BY <1>1, <1>2, <1>5 DEF RankInv, TargetInv, Cells, Reassigned, Mapped
<1> QED BY <1>1, <1>2, <1>3, <1>4, <1>6, MoveOn DEF TypeInv

LEMMA StartsRight == Init => BalancerInv
<1> SUFFICES ASSUME Init PROVE BalancerInv OBVIOUS
<1>1. /\ in \in Inputs /\ pc = [r \in Rank |-> "start"]
      /\ coll = [c \in Collective |-> [r \in Rank |-> <<>>]]
      /\ index = [r \in Rank |-> [i \in Rank |-> i + r * P]]
      /\ pass = [r \in Rank |-> 0] /\ map = [r \in Rank |-> <<>>]
      /\ target = [r \in Rank |-> [c \in Cells(r) |-> in.part[c]]]
  BY DEF Init
<1>2. TypeInv
  <2>1. 0 \in 0 .. (Digits - 1) BY BalancerAssumption
  <2>2. coll = [c \in Collective |-> [r \in Rank |-> coll[c][r]]]
    <3>1. \A c \in Collective : coll[c] = [r \in Rank |-> <<>>] BY <1>1
    <3>2. \A c \in Collective : [r \in Rank |-> coll[c][r]] = coll[c] BY <3>1
    <3>3. coll = [c \in Collective |-> coll[c]] BY <1>1
    <3> QED BY <3>2, <3>3
  <2>3. index = [q \in Rank |-> index[q]] /\ target = [q \in Rank |-> target[q]] BY <1>1
  <2>4. pc \in [Rank -> Stage] BY <1>1 DEF Stage
  <2>5. pass \in [Rank -> 0 .. (Digits - 1)] BY <1>1, <2>1
  <2> QED BY <1>1, <2>2, <2>3, <2>4, <2>5 DEF TypeInv
<1>3. MapInv BY <1>1 DEF MapInv, Mapped
<1>4. ASSUME NEW r \in Rank PROVE RankInv(r)
  <2>1. pc[r] = "start" /\ pass[r] = 0 BY <1>1
  <2>2. CallsInv(r)
    <3>1. /\ WeightCalls(r) = 0 /\ RowCalls(r) = 0 /\ CountCalls(r) = 0
          /\ RingCalls(r) = 0 /\ SortedCalls(r) = 0
      BY <2>1
      DEF WeightCalls, RowCalls, CountCalls, RingCalls, SortedCalls, Sorting, Sorted, Mapped
    <3>2. \A f : FirstCalls(f, 0) = <<>>
      <4>1. TAKE f
      <4>2. 1 .. 0 = {} OBVIOUS
      <4> QED BY <4>2 DEF FirstCalls
    <3>3. \A c \in Collective : coll[c][r] = <<>> BY <1>1
    <3> QED BY <3>1, <3>2, <3>3 DEF CallsInv, Collective
  <2>3. index[r] = Piece(Stages(in)[0], r)
    <3>1. \A k \in Rank : r * P + k \in Pos BY DivMod
    <3>2. \A k \in Rank : k + r * P = r * P + k BY BalancerAssumption DEF Rank
    <3>3. Stages(in)[0] = [n \in Pos |-> n] BY <1>1, StagesRecursion
    <3> QED BY <1>1, <3>1, <3>2, <3>3 DEF Piece
  <2>4. IndexInv(r) BY <2>1, <2>3 DEF IndexInv, Sorting, Sorted, Mapped
  <2>5. AgreeInv(r) BY <2>1 DEF AgreeInv, Sorting, Sorted, Mapped
  <2>6. TargetInv(r) BY <1>1, <2>1 DEF TargetInv, Reassigned, Mapped
  <2> QED BY <2>2, <2>4, <2>5, <2>6 DEF RankInv
<1> QED BY <1>1, <1>2, <1>3, <1>4 DEF BalancerInv

LEMMA NothingHappens == BalancerInv /\ UNCHANGED vars => BalancerInv'
<1> SUFFICES ASSUME BalancerInv, UNCHANGED vars PROVE BalancerInv' OBVIOUS
<1>1. UNCHANGED <<in, pc, coll, index, pass, map, target>> BY DEF vars
<1>2. TypeInv' /\ MapInv' BY <1>1 DEF BalancerInv, TypeInv, MapInv
<1>3. ASSUME NEW r \in Rank PROVE RankInv(r)'
  <2>1. RankInv(r) BY DEF BalancerInv
  <2> QED BY <1>1, <2>1
      DEF RankInv, CallsInv, IndexInv, AgreeInv, TargetInv, WeightCalls, RowCalls, CountCalls,
          RingCalls, SortedCalls, Cells
<1> QED BY <1>2, <1>3 DEF BalancerInv

------------------------------------------------------------------------------
(* What balance() promises *)

(* Whatever the others have done yet, a rank of LoadBalancer.cpp is where  *)
(* the input and its own progress say: the invariant holds for ever.       *)
THEOREM BalancerInvariant == Spec => []BalancerInv
<1>1. ASSUME BalancerInv, [Next]_vars PROVE BalancerInv'
  <2>1. CASE UNCHANGED vars BY <1>1, <2>1, NothingHappens
  <2>2. ASSUME NEW r \in Rank, Step(r) PROVE BalancerInv'
    BY <1>1, <2>2, WeighKeeps, PartitionKeeps, StartSortKeeps, PlaceIndicesKeeps,
       CollectIndicesKeeps, AssignKeeps, ReceiveMapKeeps, ReassignKeeps, WeighNewKeeps,
       DecideKeeps
    DEF Step
  <2> QED BY <1>1, <2>1, <2>2 DEF Next
<1> QED BY <1>1, StartsRight, PTL DEF Spec

(* The 2 P numbers of the receive buffer are enough: a ring of             *)
(* pradixsort_matrix() brings a rank one pair for each of its P places.    *)
THEOREM RingsFit == Spec => []RingFits
<1>1. ASSUME BalancerInv PROVE RingFits
  <2>1. SUFFICES ASSUME NEW r \in Rank, Complete("ring", pass[r] + 1), NEW k \in Rank
                 PROVE  Cardinality({p \in Arrived(r) \cup Of("ring", r, pass[r] + 1)[r] : p[1] = k}) = 1
    BY DEF RingFits
  <2> DEFINE i == pass[r]
             A == Arrived(r) \cup Of("ring", r, i + 1)[r]
  <2>2. in \in Inputs /\ i \in Nat
    <3>1. i \in 0 .. (Digits - 1) BY <1>1 DEF BalancerInv, TypeInv
    <3> QED BY <1>1, <3>1, BalancerAssumption DEF BalancerInv, TypeInv
  <2>3. A = Brought(in, i, r, Rank)
    <3>1. \A q \in Rank : Of("ring", q, i + 1) = Sent(in, i, q) BY <1>1, <2>1, RingKnown
    <3> QED BY <3>1 DEF Arrived, Brought
  <2> HIDE DEF A, i
  <2>4. Rank \in SUBSET Rank OBVIOUS
  <2>5. /\ Source(in, i, r, k) \in Rank
        /\ {p \in Brought(in, i, r, Rank) : p[1] = k}
           = IF Source(in, i, r, k) \in Rank THEN {<<k, Stages(in)[i + 1][r * P + k]>>} ELSE {}
    BY <2>2, <2>4, RingBrings
  <2>6. {p \in A : p[1] = k} = {<<k, Stages(in)[i + 1][r * P + k]>>} BY <2>3, <2>5
  <2>7. Cardinality({p \in A : p[1] = k}) = 1 BY <2>6, FS_Singleton
  <2> QED BY <2>7 DEF A, i
<1> QED BY <1>1, BalancerInvariant, PTL

(* With fewer than 2^32 cells for each part on a rank, the four digits of  *)
(* pradixsort_matrix() sort the whole matrix.                              *)
THEOREM SortsAll == Countable => (Spec => []SortedOrder)
<1> SUFFICES ASSUME Countable PROVE Spec => []SortedOrder OBVIOUS
<1>1. ASSUME BalancerInv PROVE SortedOrder
  <2> DEFINE S == Stages(in)[Digits]
  <2>1. SUFFICES ASSUME Complete("sorted", 1)
                 PROVE  /\ {Order(n) : n \in Pos} = Pos
                        /\ \A n \in 1 .. (P * P - 1) : Similarity(Order(n - 1)) <= Similarity(Order(n))
    BY DEF SortedOrder, Pos
  <2>2. in \in Inputs /\ Digits \in Nat BY <1>1, BalancerAssumption DEF BalancerInv, TypeInv
  <2>3. Permutes(S) /\ SortedBy(in, S, Digits) BY <2>2, StagesSort
  <2>4. \A n \in Pos : Order(n) = S[n] BY <1>1, <2>1, OrderKnown
  <2>5. \A q \in Rank : RowCalls(q) = 1 BY <1>1, <2>1, OrderKnown
  <2> HIDE DEF S
  <2>6. {Order(n) : n \in Pos} = Pos BY <2>3, <2>4 DEF Permutes, Arrays
  <2>7. ASSUME NEW k \in Pos
        PROVE  Similarity(k) = Sim(in, k) % Radix[Digits]
    <3>1. Similarity(k) = Sim(in, k) BY <1>1, <2>5, RowsKnown
    <3>2. Sim(in, k) < Radix[Digits] BY <2>2, DivMod DEF Countable, Sim
    <3>3. Sim(in, k) \in Nat /\ Radix[Digits] \in Nat \ {0} BY <2>2, SimIsNat, RadixRecursion
    <3> QED BY <3>1, <3>2, <3>3
  <2>8. ASSUME NEW n \in 1 .. (P * P - 1)
        PROVE  Similarity(Order(n - 1)) <= Similarity(Order(n))
    <3>1. n \in Pos /\ n - 1 \in Pos /\ n - 1 < n BY PosFinite DEF Pos
    <3>2. S[n] \in Pos /\ S[n - 1] \in Pos BY <2>3, <3>1 DEF Permutes, Arrays
    <3>3. Sim(in, S[n - 1]) % Radix[Digits] <= Sim(in, S[n]) % Radix[Digits]
      BY <2>3, <3>1 DEF SortedBy
    <3> QED BY <2>4, <2>7, <3>1, <3>2, <3>3
  <2> QED BY <2>6, <2>8
<1> QED BY <1>1, BalancerInvariant, PTL

(* process_reassignment() gives each part to one rank and each rank one    *)
(* part: what the partitioner put together stays together.                 *)
THEOREM PartsStayWhole == Spec => []PartsKeptWhole
<1>1. ASSUME BalancerInv PROVE PartsKeptWhole
  <2>1. SUFFICES ASSUME AllDone, ~Balanced(0), NEW r \in Rank
                 PROVE  \E p \in Rank : {c \in DOMAIN in.rank : target[in.rank[c]][c] = r}
                                        = {c \in DOMAIN in.rank : in.part[c] = p}
    BY DEF PartsKeptWhole
  <2>2. in \in Inputs /\ TypeInv /\ MapInv /\ \A q \in Rank : RankInv(q)
    BY <1>1 DEF BalancerInv, TypeInv
  <2>3. 0 \in Rank BY BalancerAssumption DEF Rank
  <2>4. Complete("weight", 1)
    <3>1. ASSUME NEW q \in Rank PROVE Len(coll["weight"][q]) >= 1
      <4>1. WeightCalls(q) = 1 BY <2>1 DEF WeightCalls, AllDone, Done
      <4>2. coll["weight"][q] = FirstCalls(Weights(in, q), 1) BY <2>2, <4>1 DEF RankInv, CallsInv
      <4> QED BY <4>2, CallsMade
    <3> QED BY <3>1 DEF Complete
  <2>5. ~IsBalanced(in) BY <1>1, <2>1, <2>3, <2>4, WeightsKnown
  <2>6. \A q \in Rank : pc[q] \in Reassigned /\ pc[q] \in Mapped
    BY <2>1, <2>2, <2>5 DEF AllDone, Done, RankInv, AgreeInv, Reassigned, Mapped
  <2>7. PICK m \in Bijection(Rank, Rank) : map = [q \in Rank |-> m]
    BY <2>2, <2>3, <2>6, MapGiven
  <2>8. /\ \A p, q \in Rank : m[p] = m[q] => p = q
        /\ \A q \in Rank : \E p \in Rank : m[p] = q
    BY DEF Bijection, Injection, Surjection, IsInjective
  <2>9. ASSUME NEW c \in DOMAIN in.rank
        PROVE  target[in.rank[c]][c] = m[in.part[c]] /\ in.part[c] \in Rank
    <3>1. in.rank[c] \in Rank /\ in.part[c] \in Rank BY <2>2, InputsAssumption
    <3>2. c \in Cells(in.rank[c]) BY DEF Cells
    <3>3. target[in.rank[c]][c] = map[in.rank[c]][in.part[c]]
      <4> DEFINE q == in.rank[c]
      <4>1. q \in Rank /\ c \in Cells(q) BY <3>1, <3>2
      <4> HIDE DEF q
      <4>2. target[q] = [e \in Cells(q) |-> IF pc[q] \in Reassigned THEN map[q][in.part[e]]
                                                                    ELSE in.part[e]]
        BY <2>2, <4>1 DEF RankInv, TargetInv
      <4>3. target[q][c] = map[q][in.part[c]] BY <2>6, <4>1, <4>2
      <4> QED BY <4>3 DEF q
    <3> QED BY <2>7, <3>1, <3>3
  <2>10. PICK p \in Rank : m[p] = r BY <2>8
  <2>11. \A c \in DOMAIN in.rank : target[in.rank[c]][c] = r <=> in.part[c] = p
    BY <2>8, <2>9, <2>10
  <2> QED BY <2>11
<1> QED BY <1>1, BalancerInvariant, PTL
===============================================================================
