-------------------------- MODULE MCDistributedData --------------------------
(* Small meshes for TLC: every way to spread NumEntities entities over the *)
(* ranks, with every choice of the owners, up to the names of the entities.*)
EXTENDS DistributedData
LOCAL INSTANCE SequencesExt

CONSTANT NumEntities

Entities == 0 .. (NumEntities - 1)

(* Local indices follow the global ones on even ranks and run against them *)
(* on odd ranks.                                                           *)
Ordered(r, S) ==
  LET q == SetToSortSeq(S, LAMBDA a, b : IF r % 2 = 0 THEN a < b ELSE a > b)
  IN  [i \in 0 .. (Cardinality(S) - 1) |-> q[i + 1]]

Spread(holders, owner) ==
  LET held(r) == {e \in Entities : r \in holders[e]}
      ids(r) == Ordered(r, held(r))
  IN  [size |-> [r \in Rank |-> Cardinality(held(r))],
       ids |-> [r \in Rank |-> ids(r)],
       owners |-> [r \in Rank |-> [i \in DOMAIN ids(r) |-> owner[ids(r)[i]]]]]

(* Who holds an entity and who owns it, and a number for each choice.      *)
Places == {x \in (SUBSET Rank) \X Rank : x[2] \in x[1]}
Code(x) == P * SumOf([r \in Rank |-> IF r \in x[1] THEN 2^r ELSE 0], P) + x[2]

MCLayouts ==
  {Spread([e \in Entities |-> h[e][1]], [e \in Entities |-> h[e][2]]) :
     h \in {k \in [Entities -> Places] :
              \A e, f \in Entities : e < f => Code(k[e]) <= Code(k[f])}}
==============================================================================
