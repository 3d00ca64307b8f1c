--------------------------------- MODULE Sums ---------------------------------
(* What the reductions of MPI compute on natural numbers.                  *)
EXTENDS Integers

(* mutant: the smallest contribution sizes the receive buffer *)
MinOf(S) == CHOOSE m \in S : \A n \in S : m <= n

(* MPI_MAX *)
MaxOf(S) == CHOOSE m \in S : \A n \in S : n <= m

(* MPI_SUM, over the ranks below n: f[0] + ... + f[n - 1].                 *)
SumOf(f, n) ==
  LET t[k \in Nat] == IF k = 0 THEN 0 ELSE t[k - 1] + f[k - 1]
  IN  t[n]
==============================================================================
