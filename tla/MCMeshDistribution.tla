-------------------------- MODULE MCMeshDistribution --------------------------
(* Small meshes for TLC: the owner of a vertex is the first or the last     *)
(* rank that has it.                                                       *)
EXTENDS MeshDistribution

CONSTANTS Fan, Loose \* the triangles of a mesh; the vertices of one without cells

(* Four triangles around vertex 0.                                         *)
MCFan == <<<<0, 1, 2>>, <<0, 2, 3>>, <<0, 3, 4>>, <<0, 4, 5>>>>
MCLoose == <<0, 1, 2>>

Owner(holders, last) ==
  CHOOSE o \in holders : \A q \in holders : IF last THEN q <= o ELSE o <= q

(* Only where every rank gets a cell does the caller renumber.             *)
ByCells(at, to, last, renumber) ==
  LET places(r) == Places(at, LAMBDA k : at[k] = r)
      mine(r) == Take(Fan, places(r))
      verts(r) == UNION {ToSet(c) : c \in ToSet(mine(r))}
      all == UNION {ToSet(c) : c \in ToSet(Fan)}
  IN  [by |-> "cells", renumber |-> renumber,
       verts |-> [r \in Rank |-> SetToSeq(verts(r))],
       cells |-> [r \in Rank |-> mine(r)],
       dest |-> [r \in Rank |-> Take(to, places(r))],
       owner |-> [v \in all |-> Owner({r \in Rank : v \in verts(r)}, last)]]

ByVertices(at, to) ==
  LET places(r) == Places(at, LAMBDA k : at[k] = r)
  IN  [by |-> "vertices", renumber |-> FALSE,
       verts |-> [r \in Rank |-> Take(Loose, places(r))],
       cells |-> [r \in Rank |-> <<>>],
       dest |-> [r \in Rank |-> Take(to, places(r))],
       owner |-> [v \in ToSet(Loose) |-> at[LocalIndex(Loose, v)]]]

(* From a rank each or from two ranks, to a rank each or to one to three.   *)
MCMeshes ==
  {ByCells(at, to, last, ToSet(to) = Rank) :
      at \in {<<0, 1, 2, 3>>, <<0, 0, 2, 2>>}, last \in BOOLEAN,
      to \in {s \in SetToSeqs(Rank) : s[1] = 1}
              \cup {<<0, 1, 2, 3>>, <<1, 1, 3, 3>>, <<2, 2, 2, 2>>, <<2, 3, 1, 1>>}}
    \cup {ByVertices(<<0, 2, 2>>, to) : to \in {<<0, 2, 0>>, <<1, 3, 3>>, <<3, 2, 1>>}}
==============================================================================
