-------------------------------- MODULE Layouts --------------------------------
(***************************************************************************)
(* What the ranks hold of a distributed mesh, as far as the numbering of   *)
(* its entities is concerned, and the numbers that its owners give.        *)
(***************************************************************************)
EXTENDS Integers, FiniteSets, Sums

(***************************************************************************)
(* A layout is what set_map() and set_ghost() have recorded on each rank:  *)
(* size[r] local entities, the global index ids[r][i] of the local entity  *)
(* i, and its owner owners[r][i] (r itself when set_ghost() was not        *)
(* called).                                                                *)
(***************************************************************************)
Local(L, r) == 0 .. (L.size[r] - 1)

(***************************************************************************)
(* The canonical number of an entity is the number of entities owned by    *)
(* lower ranks than its owner, plus its place among the entities of the    *)
(* owner.                                                                  *)
(***************************************************************************)
Owned(L, r) == {i \in Local(L, r) : L.owners[r][i] = r}

(* How many entities the ranks below r own.                                *)
Below(L, r) == SumOf([q \in 0 .. (r - 1) |-> Cardinality(Owned(L, q))], r)

Canonical(L, r, i) ==
  LET o == L.owners[r][i]
      k == CHOOSE x \in Local(L, o) : L.ids[o][x] = L.ids[r][i]
  IN  Below(L, o) + Cardinality({x \in Owned(L, o) : x < k})
================================================================================
