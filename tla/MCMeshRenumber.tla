---------------------------- MODULE MCMeshRenumber ----------------------------
(* Small meshes for TLC: cells spread over the ranks in every way, numbered *)
(* along their edges.                                                      *)
EXTENDS MeshRenumber
LOCAL INSTANCE SequencesExt
LOCAL INSTANCE FiniteSetsExt

(* Three triangles around a vertex: the outer edge of the middle one has    *)
(* both vertices in the two others.                                        *)
Fan == {{0, 1, 2}, {0, 2, 3}, {0, 3, 4}}

(* Three tetrahedra around an edge, which all three may hold.              *)
Wedge == {{0, 1, 2, 3}, {0, 1, 3, 4}, {0, 1, 4, 2}}

(* The entities and vertices of a rank come from its cells; the order of    *)
(* the entities differs from rank to rank.                                 *)
Distributed(cells, rankOf) ==
  LET mine(r) == {c \in cells : rankOf[c] = r}
      edges(r) == UNION {kSubset(2, c) : c \in mine(r)}
      order(r) == IF r % 2 = 0 THEN SetToSeq(edges(r)) ELSE Reverse(SetToSeq(edges(r)))
      vertices(r) == UNION mine(r)
  IN  [size |-> [r \in Rank |-> Cardinality(edges(r))],
       ids |-> [r \in Rank |-> [i \in 0 .. (Cardinality(edges(r)) - 1) |-> order(r)[i + 1]]],
       adj |-> [r \in Rank |-> [v \in vertices(r) |->
                  {q \in Rank \ {r} : v \in vertices(q)}]]]

MCMeshes == {Distributed(Fan, f) : f \in [Fan -> Rank]}
              \cup {Distributed(Wedge, f) : f \in {g \in [Wedge -> Rank] :
                                                     Cardinality({g[c] : c \in Wedge}) = P}}

(* Votes of 0 and 1 that each rank mixes in one of two ways.               *)
MCDraws ==
  [m \in Meshes |-> {[r \in Rank |-> [i \in Local(m, r) |-> (i + s[r]) % 2]] : s \in [Rank -> {0, 1}]}]
==============================================================================
