------------------------------- MODULE MCDMesh -------------------------------
(* Small meshes for TLC, spread over the ranks in every way.               *)
EXTENDS DMesh

(* Two rows of vertices, skewed so that longest edges chain across cells.  *)
Strip == [pos |-> [v \in 0 .. 5 |-> << <<0, 0>>, <<64, 0>>, <<192, 0>>,
                                       <<0, 64>>, <<128, 64>>, <<192, 64>> >>[v + 1]],
          cells |-> << <<0, 1, 3>>, <<3, 1, 4>>, <<1, 2, 4>>, <<4, 2, 5>> >>]

(* A long and flat one, where ranks hear of the halves of an edge before   *)
(* they hear of the edge.                                                  *)
Flat == [pos |-> [v \in 0 .. 5 |-> << <<128, 240>>, <<776, 16>>, <<8, 264>>,
                                      <<776, 240>>, <<-16, -16>>, <<144, 0>> >>[v + 1]],
         cells |-> << <<1, 0, 3>>, <<1, 0, 5>>, <<4, 2, 5>>, <<5, 0, 2>> >>]

(* Three tetrahedra around an edge.                                        *)
Wedge == [pos |-> [v \in 0 .. 4 |-> << <<0, 0, 0>>, <<0, 0, 128>>, <<64, 0, 64>>,
                                       <<-32, 64, 64>>, <<-32, -64, 0>> >>[v + 1]],
          cells |-> << <<0, 1, 2, 3>>, <<1, 0, 3, 4>>, <<4, 2, 0, 1>> >>]

(* Five tetrahedra, where a rank may hear of two edges of which one ends   *)
(* in the middle of the other.                                             *)
Chain == [pos |-> [v \in 0 .. 7 |-> << <<704, 448, 192>>, <<128, 704, 2240>>, <<576, 320, 1408>>,
                                       <<-1088, 704, 2368>>, <<0, 0, 3392>>, <<0, 0, 0>>,
                                       <<0, 960, 0>>, <<1088, 0, 0>> >>[v + 1]],
          cells |-> << <<6, 5, 4, 7>>, <<3, 5, 6, 4>>, <<4, 6, 1, 2>>, <<2, 7, 0, 6>>, <<6, 4, 2, 7>> >>]

Holder(s, rank, v) ==
  {rank[c] : c \in {b \in DOMAIN s.cells : \E k \in DOMAIN s.cells[b] : s.cells[b][k] = v}}
Distributed(s, rank) ==
  [pos |-> s.pos, cells |-> s.cells, rank |-> rank,
   owner |-> [v \in DOMAIN s.pos |-> MaxOf(Holder(s, rank, v))]]

MCMeshes ==
  UNION {{Distributed(s, f) : f \in [DOMAIN s.cells -> Rank]} : s \in {Flat, Wedge}}
    \cup {Distributed(Strip, f) : f \in {<<0, 1, 2, 0>>, <<2, 1, 0, 1>>}}
MCMarks == [m \in Meshes |-> {s \in SUBSET (DOMAIN m.cells) : Cardinality(s) \in {1, 2}}]

ChainMeshes == {Distributed(Chain, <<0, 1, 0, 0, 0>>)}
ChainMarks == [m \in Meshes |-> {{1, 4}}]
==============================================================================
