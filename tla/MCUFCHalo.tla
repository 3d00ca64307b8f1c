------------------------------- MODULE MCUFCHalo ---------------------------
(* A small mesh for TLC: three or four triangles around vertex 0, of       *)
(* elements with a dof at each vertex and one inside.                      *)
EXTENDS UFCHalo

CONSTANT Fan \* the triangles, each with its four dofs

MCFan == <<<<0, 1, 2, 6>>, <<0, 2, 3, 7>>, <<0, 3, 4, 8>>, <<0, 4, 5, 9>>>>

Corners(k) == {Fan[k][i] : i \in 1 .. 3}
Common(k, j) == Corners(k) \cap Corners(j)

(* The boundary has its facets in the order of the cells; the local        *)
(* indices of the facets, their order in shared_ and the facets that are   *)
(* marked are others.  The first edge of the fan is mapped to the last.    *)
Spread(at, kind, last, rand, eager) ==
  LET on(r) == SelectSeq([i \in DOMAIN at |-> i], LAMBDA k : at[k] = r)
      behind(r, e) == SelectSeq([n \in DOMAIN on(r) |-> n], LAMBDA n : e \subseteq Corners(on(r)[n]))
      key(r, e) == (13 * (10 * MinOf(e) + MaxOf(e)) + 3 * r) % 101
      all(r) == SetToSortSeq({e \in SUBSET UNION {Corners(on(r)[n]) : n \in DOMAIN on(r)} :
                                Cardinality(e) = 2 /\ behind(r, e) # <<>>},
                             LAMBDA e, f : key(r, e) < key(r, f))
      edges(r) == SelectSeq(FlattenSeq([n \in DOMAIN on(r) |->
                    [m \in DOMAIN at |-> <<on(r)[n], m>>]]),
                    LAMBDA f : at[f[2]] # r /\ Cardinality(Common(f[1], f[2])) = 2)
      edge(r, n) == Common(edges(r)[n][1], edges(r)[n][2])
      holders(d) == {at[k] : k \in {j \in DOMAIN at : d \in ToSet(Fan[j])}}
      dofs == UNION {ToSet(Fan[k]) : k \in DOMAIN at}
      end == Fan[Len(at)]
  IN  [kind |-> kind,
       cells |-> [r \in Rank |-> [n \in DOMAIN on(r) |-> Fan[on(r)[n]]]],
       boundary |-> [r \in Rank |-> FlattenSeq([n \in DOMAIN edges(r) |-> SetToSeq(edge(r, n))])],
       facets |-> [r \in Rank |-> [n \in DOMAIN all(r) |->
                     [cells |-> behind(r, all(r)[n]), marked |-> key(0, all(r)[n]) % 4 # 3]]],
       shared |-> [r \in Rank |->
                     SetToSortSeq({[index |-> (CHOOSE k \in DOMAIN all(r) : all(r)[k] = edge(r, n)) - 1,
                                    id |-> MaxOf(edge(r, n)), adj |-> at[edges(r)[n][2]],
                                    cell |-> CHOOSE i \in DOMAIN on(r) : on(r)[i] = edges(r)[n][1]] :
                                      n \in DOMAIN edges(r)},
                                  LAMBDA f, g : (7 * f.id + 3 * r) % 11 < (7 * g.id + 3 * r) % 11)],
       eager |-> eager,
       periodic |-> [r \in Rank |-> IF at[1] = r THEN {<<0, end[2]>>, <<1, end[3]>>} ELSE {}],
       owner |-> [d \in dofs |->
                    CHOOSE o \in holders(d) : \A q \in holders(d) :
                      IF last THEN q <= o ELSE o <= q],
       rand |-> rand,
       place |-> [d \in dofs |-> (7 * d) % 11]]

(* Equal draws, draws that make the votes of two ranks equal, and others.  *)
Draws == {[r \in Rank |-> [i \in 1 .. 16 |-> 0]],
          [r \in Rank |-> [i \in 1 .. 16 |-> (2 * P + i - r) % (3 + (i % 2))]],
          [r \in Rank |-> [i \in 1 .. 16 |-> (i * (r + 1)) % 3]]}

MCSpaces ==
  {Spread(at, <<"votes", "votes">>, FALSE, rand, TRUE) :
      at \in {<<0, 1, 2>>, <<0, 1, 2, 2>>, <<2, 0, 1, 0>>, <<1, 2, 0, 1>>}, rand \in Draws}
    \cup {Spread(<<1, 0, 2, 2>>, <<"entities", k>>, last, [r \in Rank |-> [i \in 1 .. 16 |-> i % 2]], eager) :
            k \in {"votes", "entities"}, last \in BOOLEAN, eager \in BOOLEAN}
==============================================================================
