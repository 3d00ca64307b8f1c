-------------------------------- MODULE DMesh --------------------------------
(***************************************************************************)
(* Rivara refinement of a distributed simplicial mesh: each rank bisects   *)
(* its marked cells across their longest edges, then the cells around each *)
(* bisected edge.  A rank that bisects an edge other ranks may hold tells  *)
(* them; they bisect in turn, until no rank has anything to tell.          *)
(*                                                                         *)
(* A vertex is its global index.  The index of a midpoint is computed from *)
(* those of its edge, so that ranks that bisect an edge independently      *)
(* agree.  Coordinates are integers, scaled so that midpoints are too.     *)
(*                                                                         *)
(* The work between two calls of propagate_refinement() touches one rank   *)
(* only and is one step.                                                   *)
(***************************************************************************)
EXTENDS MeshLayout, Sequences
LOCAL INSTANCE SequencesExt

CONSTANTS
  Meshes,  \* the meshes that may be refined
  Marks    \* for each mesh, the sets of cells that may be marked

(***************************************************************************)
(* pos[v] the point of vertex v, cells[c] the vertices of cell c and       *)
(* rank[c] the rank that holds it, owner[v] the owner of vertex v.         *)
(***************************************************************************)
Holding(m, v) == {m.rank[c] : c \in {b \in DOMAIN m.cells : v \in Range(m.cells[b])}}
WellFormedMesh(m) ==
  /\ \A c \in DOMAIN m.cells : m.rank[c] \in Rank /\ Range(m.cells[c]) \subseteq DOMAIN m.pos
  /\ \A v \in DOMAIN m.pos : m.owner[v] \in Holding(m, v)

ASSUME MeshesAssumption == \A m \in Meshes : WellFormedMesh(m)
ASSUME MarksAssumption == \A m \in Meshes : \A s \in Marks[m] : s \subseteq DOMAIN m.cells

VARIABLES
  mesh,     \* the mesh before it is refined; never changes
  marked,   \* the marked cells; never changes
  pc,       \* where a rank is
  dm,       \* the DMesh of each rank
  posts,    \* what a rank contributed to each call of propagate_refinement
  pending,  \* propagated: what a rank could not use yet
  exported  \* the DistributedData each rank exported, before it is finalised

vars == <<mesh, marked, pc, dm, posts, pending, exported>>

Stage == {"marked", "exchange", "refined", "exported"}

------------------------------------------------------------------------------
(* The DMesh of a rank, d:                                                 *)
(*   pos     the point of each of its vertices                             *)
(*   cells   its cells, deleted ones included                              *)
(*   shared  the vertices with is_shared, which are those in bc_dvs        *)
(*   owner   the owner of each shared vertex                               *)
(*   mid     ref_edge: the midpoint of each bisected shared edge           *)
(*   out     propagate: what to tell the other ranks                       *)
(*   again   midpoints that were made although the rank had them           *)

(* The positions of mesh cells of a rank, in order.                        *)
CellsOf(m, r) == SelectSeq([c \in DOMAIN m.cells |-> c], LAMBDA c : m.rank[c] = r)

Imported(m, r) ==
  LET mine == CellsOf(m, r)
      here == {v \in DOMAIN m.pos : r \in Holding(m, v)}
      shared == {v \in here : Holding(m, v) # {r}}
  IN  [pos |-> [v \in here |-> m.pos[v]],
       cells |-> [c \in DOMAIN mine |->
                    [vertices |-> m.cells[mine[c]], deleted |-> FALSE, nref |-> 0]],
       shared |-> shared,
       owner |-> [v \in shared |-> m.owner[v]],
       mid |-> <<>>,
       out |-> <<>>,
       again |-> {}]

GlbMax == Cardinality(DOMAIN mesh.pos)
Salt == Len(mesh.cells[1]) * Len(mesh.cells)

(* mutant: the end points are taken in the order of the cell               *)
MidpointUnordered(e) == e[1] * Salt + e[2] + GlbMax

(* The index of the midpoint of the edge <<v0, v1>>.                       *)
Midpoint(e) ==
  LET hi == IF e[1] > e[2] THEN e[1] ELSE e[2]
  IN  hi * Salt + (e[1] + e[2] - hi) + GlbMax

Ends(e) == {e[1], e[2]}
Halfway(p, q) == [k \in DOMAIN p |-> (p[k] + q[k]) \div 2]
Distance(p, q) == SumOf([k \in 0 .. (Len(p) - 1) |-> (p[k + 1] - q[k + 1]) * (p[k + 1] - q[k + 1])], Len(p))

Holds(cell, vs) == ~cell.deleted /\ vs \subseteq Range(cell.vertices)
Around(d, vs) == {c \in DOMAIN d.cells : Holds(d.cells[c], vs)}

(* The edges of a cell in the order bisect() looks at them.                *)
Edges(vs) ==
  FlattenSeq([i \in DOMAIN vs |-> [k \in 1 .. (Len(vs) - i) |-> <<vs[i], vs[i + k]>>]])

(* Longer, or as long with a larger sum of indices: the cells around an    *)
(* edge, on any rank, are of one mind about it.                            *)
Longer(d, e, f) ==
  LET le == Distance(d.pos[e[1]], d.pos[e[2]])
      lf == Distance(d.pos[f[1]], d.pos[f[2]])
  IN  le > lf \/ (le = lf /\ e[1] + e[2] > f[1] + f[2])

Longest(d, c) ==
  LET edges == Edges(d.cells[c].vertices)
  IN  FoldLeft(LAMBDA f, e : IF Longer(d, e, f) THEN e ELSE f, edges[1], edges)

(* add_cell() twice and removeCell().                                      *)
Split(d, c, e, mv) ==
  LET cell == d.cells[c]
      without(v) == [vertices |-> Append(SelectSeq(cell.vertices, LAMBDA w : w # v), mv),
                     deleted |-> FALSE, nref |-> cell.nref]
      rest == [d.cells EXCEPT ![c] = [cell EXCEPT !.deleted = TRUE]]
  IN  [d EXCEPT !.cells = rest \o <<without(e[1]), without(e[2])>>]

(* A vertex at the middle of the edge; when both ends are shared other     *)
(* ranks may hold the edge, and are told.                                  *)
NewMidpoint(d, r, c, e) ==
  LET mv == Midpoint(e)
      added == [d EXCEPT !.pos = (mv :> Halfway(d.pos[e[1]], d.pos[e[2]])) @@ @,
                         !.again = IF mv \in DOMAIN d.pos THEN @ \cup {mv} ELSE @]
      node == [nref |-> d.cells[c].nref, mv |-> mv, edge |-> Ends(e), owner |-> r]
  IN  IF Ends(e) \subseteq d.shared
      THEN [added EXCEPT !.out = Append(@, node),
                         !.cells = [d.cells EXCEPT ![c] = [d.cells[c] EXCEPT !.nref = @ + 1]],
                         !.shared = @ \cup {mv},
                         !.owner = (mv :> r) @@ @,
                         !.mid = (Ends(e) :> mv) @@ @]
      ELSE added

(* bisect() of a cell; hang is the edge whose midpoint mv hangs on it.     *)
RECURSIVE Bisect(_, _, _, _, _), CloseAround(_, _, _, _)
Bisect(d, r, c, hang, mv) ==
  LET e == Longest(d, c)
  IN  IF Ends(e) = hang
      THEN LET closed == [d EXCEPT !.shared = IF hang \subseteq @ THEN @ \cup {mv} ELSE @]
           IN  Split(closed, c, e, mv)
      ELSE CloseAround(Split(NewMidpoint(d, r, c, e), c, e, Midpoint(e)), r, Ends(e), Midpoint(e))

(* mutant: one cell at most is on the other side of an edge                *)
CloseOnce(d, r, edge, mv) ==
  LET open == Around(d, edge)
      opposite == CHOOSE c \in open : \A b \in open : c <= b
  IN  IF open = {} THEN d ELSE Bisect(d, r, opposite, edge, mv)

(* As long as a cell holds the edge it is bisected, with mv hanging on it. *)
CloseAround(d, r, edge, mv) ==
  LET open == Around(d, edge)
      opposite == CHOOSE c \in open : \A b \in open : c <= b
  IN  IF open = {} THEN d
      ELSE CloseAround(Bisect(d, r, opposite, edge, mv), r, edge, mv)

------------------------------------------------------------------------------
(* bisectMarked(), up to the first propagation.                            *)
SweepMarked(m, cells, d, r) ==
  LET mine == CellsOf(m, r)
      sweep(acc, c) ==
        IF mine[c] \in cells /\ ~acc.cells[c].deleted THEN Bisect(acc, r, c, {}, -1) ELSE acc
  IN  FoldLeft(sweep, d, [c \in DOMAIN mine |-> c])

(* One propagated edge.  It was bisected here already, and the lowest rank *)
(* becomes the owner of its midpoint; or one of its ends is not known yet; *)
(* or the cells here that hold it are bisected.                            *)

(* mutant: the owner of a midpoint that is known stays                     *)
LowerOwnerNot(d, mv, q) == d

LowerOwner(d, mv, q) == [d EXCEPT !.owner[mv] = IF @ > q THEN q ELSE @]

Defer(acc, node) == [acc EXCEPT !.left = Append(@, node)]

(* mutant: the lower rank that takes a midpoint over keeps it to itself    *)
TakeOverSilently(d, r, c, node) ==
  [d EXCEPT !.owner = (node.mv :> IF r < node.owner THEN r ELSE node.owner) @@ @]

TakeOver(d, r, c, node) ==
  IF r < node.owner
  THEN [d EXCEPT !.owner = (node.mv :> r) @@ @,
                 !.out = Append(@, [node EXCEPT !.nref = d.cells[c].nref, !.owner = r])]
  ELSE [d EXCEPT !.owner = (node.mv :> node.owner) @@ @]

Hang(d, r, node) ==
  LET open == Around(d, node.edge)
      first == CHOOSE c \in open : \A b \in open : c <= b
      ends == CHOOSE e \in node.edge \X node.edge : Ends(e) = node.edge
      taken == TakeOver(d, r, first, node)
      added == [taken EXCEPT !.pos = (node.mv :> Halfway(d.pos[ends[1]], d.pos[ends[2]])) @@ @,
                             !.again = IF node.mv \in DOMAIN d.pos THEN @ \cup {node.mv} ELSE @,
                             !.shared = @ \cup {node.mv},
                             !.mid = (node.edge :> node.mv) @@ @]
  IN  CloseAround(added, r, node.edge, node.mv)

ProcessOne(acc, r, node) ==
  LET d == acc.d
  IN  IF node.edge \in DOMAIN d.mid
      THEN [acc EXCEPT !.d = LowerOwner(d, d.mid[node.edge], node.owner)]
      ELSE IF ~(node.edge \subseteq d.shared) THEN Defer(acc, node)
      ELSE IF Around(d, node.edge) = {} THEN acc
      ELSE [acc EXCEPT !.d = Hang(d, r, node)]

(* The loop over what was propagated to rank r.                            *)
Process(d, r, nodes) ==
  LET one(acc, node) == ProcessOne(acc, r, node)
  IN  FoldLeft(one, [d |-> [d EXCEPT !.out = <<>>], left |-> <<>>], nodes)

(* std::sort with less_pair_comp: by nref, equals in any order.            *)
RECURSIVE Sortings(_, _)
Sortings(nodes, left) ==
  LET first == {i \in left : \A k \in left : nodes[i].nref <= nodes[k].nref}
  IN  IF left = {} THEN {<<>>}
      ELSE UNION {{<<nodes[i]>> \o rest : rest \in Sortings(nodes, left \ {i})} : i \in first}

------------------------------------------------------------------------------
Init ==
  /\ mesh \in Meshes
  /\ marked \in Marks[mesh]
  /\ pc = [r \in Rank |-> "marked"]
  /\ dm = [r \in Rank |-> Imported(mesh, r)]
  /\ posts = [r \in Rank |-> <<>>]
  /\ pending = [r \in Rank |-> <<>>]
  /\ exported = [r \in Rank |-> <<>>]

(* The rank bisects its marked cells and enters propagate_refinement().    *)
BisectMarked(r) ==
  LET d == SweepMarked(mesh, marked, dm[r], r)
  IN  /\ pc[r] = "marked"
      /\ dm' = [dm EXCEPT ![r] = d]
      /\ posts' = [posts EXCEPT ![r] = <<d.out>>]
      /\ pc' = [pc EXCEPT ![r] = "exchange"]
      /\ UNCHANGED <<mesh, marked, pending, exported>>

(* The calls of propagate_refinement() a rank has made; the ranks make     *)
(* each call together.                                                     *)
Calls(r) == Len(posts[r])
Gathered(r) == \A q \in Rank : Calls(q) >= Calls(r)
Received(r) == FlattenSeq([j \in 1 .. (P - 1) |-> posts[(r - j + P) % P][Calls(r)]])

(* mutant: a rank looks at what it received and not at what all did        *)
NothingReceived(r) == Received(r) = <<>>

NothingPropagated(r) == \A q \in Rank : posts[q][Calls(r)] = <<>>

(* When nothing is propagated a rank still tries what was left over, and   *)
(* leaves the loop without another call.                                   *)
Propagate(r) ==
  /\ pc[r] = "exchange" /\ Gathered(r)
  /\ LET all == pending[r] \o Received(r)
     IN \E nodes \in Sortings(all, DOMAIN all) :
       LET done == Process(dm[r], r, nodes)
       IN  /\ dm' = [dm EXCEPT ![r] = done.d]
           /\ pending' = [pending EXCEPT ![r] = done.left]
           /\ IF NothingPropagated(r)
              THEN /\ pc' = [pc EXCEPT ![r] = "refined"]
                   /\ posts' = posts
              ELSE /\ posts' = [posts EXCEPT ![r] = Append(@, done.d.out)]
                   /\ pc' = pc
  /\ UNCHANGED <<mesh, marked, exported>>

------------------------------------------------------------------------------
(* exp() and renumber_glb() *)

Ghosts(d, r) == {v \in d.shared : d.owner[v] # r}
OwnedBy(d, r) == DOMAIN d.pos \ Ghosts(d, r)
LowerIn(s, v) == Cardinality({w \in s : w < v})

Offset(r) == SumOf([q \in 0 .. (r - 1) |-> Cardinality(OwnedBy(dm[q], q))], r)

(* What rank o answers of vertex v: the entry that operator[] makes for a  *)
(* vertex it does not own is 0.                                            *)
NewGlobal(o, v) ==
  IF v \in OwnedBy(dm[o], o) THEN Offset(o) + LowerIn(OwnedBy(dm[o], o), v) ELSE 0

(* The ranks meet in renumber_glb().  VertexSet is ordered by address: the *)
(* order of the indices stands for it.                                     *)
Export(r) ==
  LET d == dm[r]
      owner(v) == IF v \in Ghosts(d, r) THEN d.owner[v] ELSE r
      vertex(i) == CHOOSE v \in DOMAIN d.pos : LowerIn(DOMAIN d.pos, v) = i
      here == 0 .. (Cardinality(DOMAIN d.pos) - 1)
  IN  /\ pc[r] = "refined"
      /\ \A q \in Rank : pc[q] \in {"refined", "exported"}
      /\ exported' = [exported EXCEPT ![r] =
                        [vertices |-> [i \in here |-> vertex(i)],
                         ids |-> [i \in here |-> NewGlobal(owner(vertex(i)), vertex(i))],
                         owners |-> [i \in here |-> owner(vertex(i))]]]
      /\ pc' = [pc EXCEPT ![r] = "exported"]
      /\ UNCHANGED <<mesh, marked, dm, posts, pending>>

Step(r) == BisectMarked(r) \/ Propagate(r) \/ Export(r)
AllExported == \A r \in Rank : pc[r] = "exported"
Next == \E r \in Rank : Step(r)

Spec == Init /\ [][Next]_vars

(* The ranks are processes that run on, and MPI progresses: WF_vars of     *)
(* Step(r), with ENABLED Step(r) spelled out.                              *)
Able(r) ==
  \/ pc[r] = "marked"
  \/ pc[r] = "exchange" /\ Gathered(r)
  \/ pc[r] = "refined" /\ \A q \in Rank : pc[q] \in {"refined", "exported"}

FairSpec == Spec /\ \A r \in Rank : []<>~Able(r) \/ []<><<Step(r)>>_vars
------------------------------------------------------------------------------
(* Properties *)

Refined(r) == pc[r] \in {"refined", "exported"}
AllRefined == \A r \in Rank : Refined(r)

Cells(r) == {d \in DOMAIN dm[r].cells : ~dm[r].cells[d].deleted}
Points == UNION {UNION {{dm[r].pos[v] : v \in Range(dm[r].cells[c].vertices)} : c \in Cells(r)} : r \in Rank}

(* When all ranks have left the loop the mesh conforms: no vertex of any   *)
(* rank is at the middle of an edge of any cell, whichever ranks bisected  *)
(* the edge and in whatever order they heard of it.                        *)
Conforming ==
  AllRefined => \A r \in Rank : \A c \in Cells(r) :
    \A k \in DOMAIN Edges(dm[r].cells[c].vertices) :
      LET e == Edges(dm[r].cells[c].vertices)[k]
      IN  Halfway(dm[r].pos[e[1]], dm[r].pos[e[2]]) \notin Points

(* A vertex has one index, and an index one vertex: ranks that bisect an   *)
(* edge on their own give its midpoint the same index, no two edges give   *)
(* the same one, and no rank makes a midpoint twice.                       *)
OneIndex ==
  /\ \A r, q \in Rank : \A v \in DOMAIN dm[r].pos, w \in DOMAIN dm[q].pos :
       v = w <=> dm[r].pos[v] = dm[q].pos[w]
  /\ \A r \in Rank : dm[r].again = {}

(* The mesh that is exported is a layout that DistributedData can finalise *)
(* and renumber: the ranks agree on the owner of each vertex and the owner *)
(* has it, though each lowered the owners it knows as it heard of others.  *)
Layout == [size |-> [r \in Rank |-> Cardinality(DOMAIN exported[r].ids)],
           ids |-> [r \in Rank |-> exported[r].vertices],
           owners |-> [r \in Rank |-> exported[r].owners]]
ExportWellFormed == AllExported => WellFormed(Layout)

(* Two ranks export the same number for a vertex exactly when it is the    *)
(* same vertex, and the numbers have no gap.                               *)
ExportNumbers ==
  AllExported =>
    LET all == UNION {Range(exported[r].ids) : r \in Rank}
    IN  /\ \A r, q \in Rank : \A i \in DOMAIN exported[r].ids, k \in DOMAIN exported[q].ids :
             exported[r].vertices[i] = exported[q].vertices[k]
               <=> exported[r].ids[i] = exported[q].ids[k]
        /\ all = 0 .. (Cardinality(all) - 1)

(* Every rank leaves the loop, and exports.                                *)
Termination == <>AllExported
==============================================================================
