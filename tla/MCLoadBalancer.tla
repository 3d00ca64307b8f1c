---------------------------- MODULE MCLoadBalancer ----------------------------
(* Small meshes with their weights for TLC.                                *)
EXTENDS LoadBalancer

Unpriced(rank, weight, part) ==
  [rank |-> rank, weight |-> weight, part |-> part, tf |-> 0, tb |-> 0, ts |-> 0, ndims |-> 3]
Priced(rank, weight, part, ts) ==
  [Unpriced(rank, weight, part) EXCEPT !.tf = 1, !.tb = 1, !.ts = ts]

(* Every answer of the partitioner for four cells, three of them on rank 0. *)
Anywhere == {Unpriced(<<0, 0, 0, 1>>, <<1, 1, 1, 1>>, part) : part \in [1 .. 4 -> Rank]}

(* Seven cells, some of one rank more than a digit can count.              *)
Crowded == {Unpriced(<<0, 0, 0, 0, 0, 1, 2>>, [c \in 1 .. 7 |-> 1], part) :
              part \in {<<1, 1, 1, 1, 1, 0, 0>>, <<2, 2, 2, 2, 2, 1, 0>>, <<0, 0, 1, 1, 2, 2, 1>>}}

(* Loads that are even; heavy cells, with the costs of computing and of moving them.            *)
Even == {Unpriced(<<0, 1, 2>>, <<1, 1, 1>>, <<1, 2, 0>>)}
Weighted == {Priced(<<0, 0, 1, 2>>, <<8, 4, 1, 1>>, part, ts) :
               part \in {<<0, 1, 2, 2>>, <<1, 2, 0, 0>>, <<2, 2, 2, 1>>, <<0, 0, 1, 2>>},
               ts \in {1, 34, 400}}

MCInputs == Anywhere \cup Even \cup Crowded \cup Weighted
===============================================================================
