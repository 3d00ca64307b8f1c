------------------------------ MODULE MeshLayout ------------------------------
(***************************************************************************)
(* A mesh distributed over P ranks, as far as the numbering of its         *)
(* entities is concerned.                                                  *)
(***************************************************************************)
EXTENDS Layouts

CONSTANT P \* the number of ranks of the communicator

ASSUME PAssumption == P \in Nat \ {0, 1}

Rank == 0 .. (P - 1)

(***************************************************************************)
(* A layout is well formed when the ranks agree on the owner of an entity  *)
(* and the owner holds it.                                                 *)
(***************************************************************************)
WellFormed(L) ==
  /\ L.size \in [Rank -> Nat]
  /\ L.ids = [r \in Rank |-> L.ids[r]]
  /\ L.owners = [r \in Rank |-> L.owners[r]]
  /\ \A r \in Rank :
       /\ L.ids[r] \in [Local(L, r) -> Nat]
       /\ L.owners[r] \in [Local(L, r) -> Rank]
       /\ \A i, k \in Local(L, r) : L.ids[r][i] = L.ids[r][k] => i = k
  /\ \A r, q \in Rank : \A i \in Local(L, r), k \in Local(L, q) :
       L.ids[r][i] = L.ids[q][k] => L.owners[r][i] = L.owners[q][k]
  /\ \A r \in Rank : \A i \in Local(L, r) :
       \E k \in Local(L, L.owners[r][i]) :
         L.ids[L.owners[r][i]][k] = L.ids[r][i]
==============================================================================
