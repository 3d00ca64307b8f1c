--------------------------- MODULE MeshDistribution ---------------------------
(***************************************************************************)
(* MPIMeshCommunicator::distribute(): every cell, or every vertex of a     *)
(* mesh that has no cells yet, goes to the rank a partitioner chose for it.*)
(* By cells, a vertex goes with the first cell of its owner that uses it,  *)
(* and the rank it comes to becomes its owner; whoever else needs it asks  *)
(* for its coordinates.  Mesh::distribute() then renumbers the topology.   *)
(*                                                                         *)
(* The messages of one round of the first ring (cells, vertices and        *)
(* coordinates, cell functions, vertex functions) are one parcel.  The     *)
(* value of a cell function on a cell is the cell itself, that of a vertex *)
(* function or of the coordinates at a vertex is the vertex, so that one   *)
(* sees where a value ends up.                                             *)
(***************************************************************************)
EXTENDS RingExchange

CONSTANTS
  Meshes,  \* the meshes, with the ranks the partitioner chose
  Missing, \* DOLFIN_REAL_MIN, in the place of coordinates still to come
  Unset    \* the value with which a mesh function is created

(***************************************************************************)
(* On each rank the vertices and the cells in local order, a cell as the   *)
(* sequence of its vertices; the owner of each vertex; for each cell, or   *)
(* each vertex when that is what is distributed, the rank chosen.          *)
(***************************************************************************)
WellFormedMesh(m) ==
  /\ m.by \in {"cells", "vertices"} /\ m.renumber \in BOOLEAN
  /\ \A v \in DOMAIN m.owner : m.owner[v] \in Rank /\ v \in ToSet(m.verts[m.owner[v]])
  /\ \A r \in Rank :
       /\ IsInjective(m.verts[r]) /\ ToSet(m.verts[r]) \subseteq DOMAIN m.owner
       /\ DOMAIN m.dest[r] = DOMAIN (IF m.by = "cells" THEN m.cells[r] ELSE m.verts[r])
       /\ ToSet(m.dest[r]) \subseteq Rank
       /\ m.by = "vertices" => m.cells[r] = <<>>
       /\ m.by = "cells" =>
            ToSet(m.verts[r]) = UNION {ToSet(c) : c \in ToSet(m.cells[r])}

ASSUME MeshesAssumption ==
  \A m \in Meshes : WellFormedMesh(m) /\ {Missing, Unset} \cap DOMAIN m.owner = {}

VARIABLES
  mesh,     \* what is to be distributed; never changes
  pc,       \* where a rank is, see Stage
  ids,      \* the new distdata: the global index of each local vertex
  ghost,    \* its ghosts with their owners, P for a vertex that is none
  adj,      \* its shared vertices with their adjacent ranks
  coords,   \* local_vcoords
  cells,    \* local_cells: the local vertices of each cell
  cellVals, \* UC of the rank itself: cell functions of the new cells
  vertVals, \* RV of the rank itself: vertex functions
  cellFun,  \* the recreated cell functions, at each local cell
  vertFun,  \* the recreated vertex functions, at each local vertex
  wanted,   \* shared_buffer: vertices whose coordinates are missing
  sendbuf,  \* the parcel for each rank
  got,      \* recv_cells, recv_vgindex and recv_vcoords so far
  room,     \* recvmax, their sizes
  reply     \* send_buff and send_buff_indices

functions == <<cellFun, vertFun>>
built == <<ids, ghost, adj, coords, cells, cellVals, vertVals, functions, wanted>>
buffers == <<sendbuf, got, room, reply>>
vars == <<mesh, pc, mpi, built, buffers>>

Collective == {"count", "most", "adjmax", "sum", "renumber"}
Ring == {"parcels", "ask", "answer", "adj"}
Tag == 0 .. 3
Stage == {"start", "received", "answered", "linked", "distributed", "returned", "error"}
           \cup Collective \cup Ring

Vertex == DOMAIN mesh.owner
Nowhere == P

------------------------------------------------------------------------------
(* MPI *)

To(r) == IF pc[r] = "answer" THEN Src(r, round[r]) ELSE Dst(r, round[r])
From(r) == IF pc[r] = "answer" THEN Dst(r, round[r]) ELSE Src(r, round[r])
TagOf(r) == CASE pc[r] = "parcels" -> 0 [] pc[r] = "ask" -> 1
              [] pc[r] = "answer" -> 2 [] OTHER -> 3

(* remap_shared_adj() sends every shared vertex to every rank.             *)
SharedHere(r) == {v \in Vertex : adj[r][v] # {}}

(* mutant: only the owner of a shared vertex announces it *)
AnnouncedOwned(r) == {v \in SharedHere(r) : ghost[r][v] = Nowhere}

Announced(r) == SharedHere(r)

Payload(r) ==
  CASE pc[r] = "parcels" -> sendbuf[r][To(r)]
    [] pc[r] = "ask"     -> wanted[r]
    [] pc[r] = "answer"  -> reply[r]
    [] pc[r] = "adj"     -> Announced(r)

Post(r) ==
  /\ pc[r] \in Ring
  /\ Send(r, To(r), TagOf(r), Payload(r))
  /\ UNCHANGED <<mesh, pc, round, coll, built, buffers>>

Message(r) == Arriving(r, From(r), TagOf(r))
Receive(r) == Recv(r, From(r), TagOf(r))

(* The stage after this round of a ring.                                   *)
After(r, again, next) == pc' = [pc EXCEPT ![r] = IF LastRound(r) THEN next ELSE again]

------------------------------------------------------------------------------
(* What a rank collects for each destination, in the order of its cells.   *)

Places(s, Test(_)) == SelectSeq([i \in 1 .. Len(s) |-> i], Test)
Take(s, places) == [n \in 1 .. Len(places) |-> s[places[n]]]

CellsTo(r, d) ==
  Take(mesh.cells[r], Places(mesh.cells[r], LAMBDA k : mesh.dest[r][k] = d))

(* mutant: without vertex_used, a vertex goes along with every cell *)
CollectedAlways(r, k) ==
  SelectSeq(mesh.cells[r][k], LAMBDA v : mesh.owner[v] = r)

(* The owned vertices that no earlier cell has used.                       *)
Collected(r, k) ==
  SelectSeq(mesh.cells[r][k], LAMBDA v :
    /\ mesh.owner[v] = r
    /\ \A j \in 1 .. (k - 1) : v \notin ToSet(mesh.cells[r][j]))

VerticesTo(r, d) ==
  IF mesh.by = "cells"
  THEN FlattenSeq([k \in DOMAIN mesh.cells[r] |->
                     IF mesh.dest[r][k] = d THEN Collected(r, k) ELSE <<>>])
  ELSE Take(mesh.verts[r], Places(mesh.dest[r], LAMBDA k :
              mesh.dest[r][k] = d /\ mesh.owner[mesh.verts[r][k]] = r))

Parcel(r, d) ==
  LET leaving == d # r
      vs == IF leaving THEN VerticesTo(r, d) ELSE <<>>
      cs == IF leaving THEN CellsTo(r, d) ELSE <<>>
  IN  [cells |-> cs, verts |-> vs, xs |-> vs, cellVals |-> cs, vertVals |-> vs]

Init ==
  /\ mesh \in Meshes
  /\ pc = [r \in Rank |-> "start"]
  /\ InitMPI(Tag, Collective)
  /\ ids = [r \in Rank |-> <<>>]
  /\ ghost = [r \in Rank |-> [v \in Vertex |-> Nowhere]]
  /\ adj = [r \in Rank |-> [v \in Vertex |-> {}]]
  /\ coords = [r \in Rank |-> <<>>]
  /\ cells = [r \in Rank |-> <<>>]
  /\ cellVals = [r \in Rank |-> <<>>]
  /\ vertVals = [r \in Rank |-> <<>>]
  /\ cellFun = [r \in Rank |-> <<>>]
  /\ vertFun = [r \in Rank |-> <<>>]
  /\ wanted = [r \in Rank |-> <<>>]
  /\ sendbuf = [r \in Rank |-> <<>>]
  /\ got = [r \in Rank |-> [cells |-> <<>>, verts |-> <<>>, xs |-> <<>>]]
  /\ room = [r \in Rank |-> [cells |-> 0, verts |-> 0]]
  /\ reply = [r \in Rank |-> <<>>]

(* What stays is entered at once, its cell functions too; the functions of *)
(* the vertices that stay are not collected.                               *)
Collect(r) ==
  /\ pc[r] = "start"
  /\ ids' = [ids EXCEPT ![r] = VerticesTo(r, r)]
  /\ coords' = [coords EXCEPT ![r] = VerticesTo(r, r)]
  /\ cellVals' = [cellVals EXCEPT ![r] = CellsTo(r, r)]
  /\ sendbuf' = [sendbuf EXCEPT ![r] = [d \in Rank |-> Parcel(r, d)]]
  /\ Contribute("count", r, [d \in Rank |-> [cells |-> Len(Parcel(r, d).cells),
                                              verts |-> Len(Parcel(r, d).verts)]])
  /\ pc' = [pc EXCEPT ![r] = "count"]
  /\ UNCHANGED <<mesh, round, posted, net, ghost, adj, cells, vertVals, functions,
                 wanted, got, room, reply>>

(* mutant: the largest parcel sizes the buffers that hold all of them *)
RoomMost(f) == MaxOf({f[q] : q \in Rank})

(* MPI_SUM with the rank itself as the root.                               *)
Room(f) == SumOf(f, P)

EndCount(r) ==
  /\ pc[r] = "count" /\ Reduced("count")
  /\ room' = [room EXCEPT ![r] =
       [cells |-> Room([q \in Rank |-> coll["count"][q][r].cells]),
        verts |-> Room([q \in Rank |-> coll["count"][q][r].verts])]]
  /\ pc' = [pc EXCEPT ![r] = "parcels"]
  /\ UNCHANGED <<mesh, mpi, built, sendbuf, got, reply>>

ReturnParcel(r) ==
  LET p == Message(r)
  IN  /\ pc[r] = "parcels"
      /\ Receive(r)
      /\ got' = [got EXCEPT ![r] = [cells |-> @.cells \o p.cells,
                                     verts |-> @.verts \o p.verts,
                                     xs |-> @.xs \o p.xs]]
      /\ cellVals' = [cellVals EXCEPT ![r] = @ \o p.cellVals]
      /\ vertVals' = [vertVals EXCEPT ![r] = @ \o p.vertVals]
      /\ NextRound(r) /\ After(r, "parcels", "received")
      /\ UNCHANGED <<mesh, coll, ids, ghost, adj, coords, cells, functions, wanted,
                     sendbuf, room, reply>>

------------------------------------------------------------------------------
(* The new mesh *)

(* The places in s of the vertices that are not known, each once.          *)
NewIn(s, known) ==
  Places(s, LAMBDA i : /\ s[i] \notin ToSet(known)
                       /\ \A j \in 1 .. (i - 1) : s[j] # s[i])

LocalIndex(s, v) == CHOOSE i \in DOMAIN s : s[i] = v

(* mutant: the received cells come before those that stayed *)
NewCellsFirst(r) == got[r].cells \o CellsTo(r, r)

NewCells(r) == CellsTo(r, r) \o got[r].cells

(* Vertices received, then the cells that stayed, then those received; a   *)
(* vertex met in a cell for the first time has no coordinates yet.         *)
BuildCells(r) ==
  LET come == NewIn(got[r].verts, ids[r])
      known == ids[r] \o Take(got[r].verts, come)
      corners == FlattenSeq(NewCells(r))
      lacking == Take(corners, NewIn(corners, known))
      all == known \o lacking
  IN  /\ pc[r] = "received" /\ mesh.by = "cells"
      /\ ids' = [ids EXCEPT ![r] = all]
      /\ coords' = [coords EXCEPT ![r] = @ \o Take(got[r].xs, come)
                                           \o [i \in 1 .. Len(lacking) |-> Missing]]
      /\ cells' = [cells EXCEPT ![r] = [k \in DOMAIN NewCells(r) |->
                     [i \in DOMAIN NewCells(r)[k] |-> LocalIndex(all, NewCells(r)[k][i])]]]
      /\ wanted' = [wanted EXCEPT ![r] = lacking]
      /\ Contribute("most", r, Len(lacking))
      /\ pc' = [pc EXCEPT ![r] = "most"]
      /\ UNCHANGED <<mesh, round, posted, net, ghost, adj, cellVals, vertVals, functions,
                     buffers>>

BuildVertices(r) ==
  /\ pc[r] = "received" /\ mesh.by = "vertices"
  /\ ids' = [ids EXCEPT ![r] = @ \o got[r].verts]
  /\ coords' = [coords EXCEPT ![r] = @ \o got[r].xs]
  /\ pc' = [pc EXCEPT ![r] = "linked"]
  /\ UNCHANGED <<mesh, mpi, ghost, adj, cells, cellVals, vertVals, functions, wanted,
                 buffers>>

EndMost(r) ==
  /\ pc[r] = "most" /\ Reduced("most")
  /\ pc' = [pc EXCEPT ![r] = "ask"]
  /\ UNCHANGED <<mesh, mpi, built, buffers>>

(* mutant: a rank answers for a vertex it asks for itself *)
CanAnswerAnyone(r, v) == v \in ToSet(ids[r]) /\ ghost[r][v] = Nowhere

(* A rank answers for what is its own: not known as a ghost, and with      *)
(* coordinates.                                                            *)
CanAnswer(r, v) ==
  /\ v \in ToSet(ids[r])
  /\ ghost[r][v] = Nowhere
  /\ coords[r][LocalIndex(ids[r], v)] # Missing

ReturnAsk(r) ==
  LET answered == SelectSeq(Message(r), LAMBDA v : CanAnswer(r, v))
  IN  /\ pc[r] = "ask"
      /\ Receive(r)
      /\ reply' = [reply EXCEPT ![r] = [n \in DOMAIN answered |->
                     [vert |-> answered[n],
                      x |-> coords[r][LocalIndex(ids[r], answered[n])]]]]
      /\ adj' = [adj EXCEPT ![r] = [v \in Vertex |->
                   IF v \in ToSet(answered) THEN @[v] \cup {From(r)} ELSE @[v]]]
      /\ pc' = [pc EXCEPT ![r] = "answer"]
      /\ UNCHANGED <<mesh, round, coll, ids, ghost, coords, cells, cellVals, vertVals,
                     functions, wanted, sendbuf, got, room>>

(* Who answers is the owner: set_ghost().                                  *)
ReturnAnswer(r) ==
  LET q == From(r)
      back == Message(r)
      answered == {back[n].vert : n \in DOMAIN back} \cap ToSet(ids[r])
      value(v) == back[CHOOSE n \in DOMAIN back : back[n].vert = v].x
  IN  /\ pc[r] = "answer"
      /\ Receive(r)
      /\ coords' = [coords EXCEPT ![r] = [i \in DOMAIN @ |->
                      IF ids[r][i] \in answered THEN value(ids[r][i]) ELSE @[i]]]
      /\ ghost' = [ghost EXCEPT ![r] = [v \in Vertex |-> IF v \in answered THEN q ELSE @[v]]]
      /\ adj' = [adj EXCEPT ![r] = [v \in Vertex |->
                   IF v \in answered THEN @[v] \cup {q} ELSE @[v]]]
      /\ NextRound(r) /\ After(r, "ask", "answered")
      /\ UNCHANGED <<mesh, coll, ids, cells, cellVals, vertVals, functions, wanted,
                     buffers>>

------------------------------------------------------------------------------
(* remap_shared_adj(), finalize() and the checks *)

StartLink(r) ==
  /\ pc[r] = "answered"
  /\ Contribute("adjmax", r, Cardinality(Announced(r)))
  /\ pc' = [pc EXCEPT ![r] = "adjmax"]
  /\ UNCHANGED <<mesh, round, posted, net, built, buffers>>

EndLinkMax(r) ==
  /\ pc[r] = "adjmax" /\ Reduced("adjmax")
  /\ pc' = [pc EXCEPT ![r] = "adj"]
  /\ UNCHANGED <<mesh, mpi, built, buffers>>

ReturnAdj(r) ==
  /\ pc[r] = "adj"
  /\ Receive(r)
  /\ adj' = [adj EXCEPT ![r] = [v \in Vertex |->
               IF v \in Message(r) \cap ToSet(ids[r]) THEN @[v] \cup {From(r)} ELSE @[v]]]
  /\ NextRound(r) /\ After(r, "adj", "linked")
  /\ UNCHANGED <<mesh, coll, ids, ghost, coords, cells, cellVals, vertVals, functions, wanted,
                 buffers>>

NumOwned(r) == Len(ids[r]) - Cardinality({v \in Vertex : ghost[r][v] # Nowhere})

StartSum(r) ==
  /\ pc[r] = "linked"
  /\ Contribute("sum", r, [verts |-> NumOwned(r), cells |-> Len(cells[r])])
  /\ pc' = [pc EXCEPT ![r] = "sum"]
  /\ UNCHANGED <<mesh, round, posted, net, built, buffers>>

(* A mesh function of the given size is created, and what was collected    *)
(* stored in it from its first place on.                                   *)
Recreated(size, vals) ==
  [k \in 1 .. size |-> IF k \in DOMAIN vals THEN vals[k] ELSE Unset]

(* It is an error when the mesh has not as many vertices and cells as      *)
(* before.                                                                 *)
Complete ==
  LET total(f) == SumOf([q \in Rank |-> coll["sum"][q][f]], P)
  IN  /\ total("verts") = Cardinality(Vertex)
      /\ total("cells") = SumOf([q \in Rank |-> Len(mesh.cells[q])], P)

(* The mesh functions are recreated last; a distribution by vertices       *)
(* carries none.                                                           *)
EndSum(r) ==
  /\ pc[r] = "sum" /\ Reduced("sum")
  /\ pc' = [pc EXCEPT ![r] = IF Complete THEN "distributed" ELSE "error"]
  /\ IF Complete /\ mesh.by = "cells"
     THEN /\ cellFun' = [cellFun EXCEPT ![r] = Recreated(Len(cells[r]), cellVals[r])]
          /\ vertFun' = [vertFun EXCEPT ![r] = Recreated(Len(ids[r]), vertVals[r])]
     ELSE UNCHANGED functions
  /\ UNCHANGED <<mesh, mpi, ids, ghost, adj, coords, cells, cellVals, vertVals, wanted,
                 buffers>>

(* finalize() takes a rank that has no vertices for one whose numbering    *)
(* needs no renumbering.                                                   *)
ValidNumbering(r) == ids[r] = <<>>

(* MeshRenumber::renumber() of the vertices, as far as the first reduction *)
(* of renumber_global(), which DistributedData continues.                  *)
Renumber(r) ==
  /\ pc[r] = "distributed" /\ mesh.renumber /\ ~ValidNumbering(r)
  /\ Contribute("renumber", r, 0)
  /\ pc' = [pc EXCEPT ![r] = "renumber"]
  /\ UNCHANGED <<mesh, round, posted, net, built, buffers>>

EndRenumber(r) ==
  /\ pc[r] = "renumber" /\ Reduced("renumber")
  /\ pc' = [pc EXCEPT ![r] = "returned"]
  /\ UNCHANGED <<mesh, mpi, built, buffers>>

Return(r) ==
  /\ pc[r] = "distributed" /\ (mesh.renumber => ValidNumbering(r))
  /\ pc' = [pc EXCEPT ![r] = "returned"]
  /\ UNCHANGED <<mesh, mpi, built, buffers>>

------------------------------------------------------------------------------
Step(r) ==
  \/ Collect(r) \/ EndCount(r) \/ Post(r) \/ ReturnParcel(r)
  \/ BuildCells(r) \/ BuildVertices(r) \/ EndMost(r) \/ ReturnAsk(r) \/ ReturnAnswer(r)
  \/ StartLink(r) \/ EndLinkMax(r) \/ ReturnAdj(r)
  \/ StartSum(r) \/ EndSum(r) \/ Renumber(r) \/ EndRenumber(r) \/ Return(r)

Next == \E r \in Rank : Step(r)

Spec == Init /\ [][Next]_vars

(* A rank that can go on does: the ranks are processes of the system and   *)
(* MPI progresses.                                                         *)
FairSpec == Spec /\ \A r \in Rank : WF_vars(Step(r))

------------------------------------------------------------------------------
(* Properties *)

Settled(r) == pc[r] \in {"distributed", "renumber", "returned"}
AllSettled == \A r \in Rank : Settled(r)

(* Every cell ends, with the vertices it had, on the rank chosen for it    *)
(* and on no other, and the cell functions follow it: they have at the     *)
(* k-th cell of a rank the value of that cell, although the cells and the  *)
(* values travel and are appended apart.  The vertex functions follow the  *)
(* vertices to a rank where no vertex stays.                               *)
CellsArrive ==
  \A r \in Rank : Settled(r) /\ mesh.by = "cells" =>
    LET global == [k \in DOMAIN cells[r] |->
                     [i \in DOMAIN cells[r][k] |-> ids[r][cells[r][k][i]]]]
    IN  /\ cellFun[r] = global
        /\ IsInjective(global)
        /\ ToSet(global) = UNION {ToSet(CellsTo(q, r)) : q \in Rank}
        /\ VerticesTo(r, r) = <<>> =>
             SubSeq(vertFun[r], 1, NumOwned(r)) = SubSeq(ids[r], 1, NumOwned(r))

(* "Support the same cell and vertex function as before": a rank has the   *)
(* value of each vertex it owns, those that stayed included (line 621      *)
(* asserts that it has collected as many values).                          *)
VertexValuesKept ==
  \A r \in Rank : Settled(r) /\ mesh.by = "cells" =>
    \A i \in 1 .. NumOwned(r) : vertFun[r][i] = ids[r][i]

(* What is exported is what DistributedData requires of its clients: the   *)
(* holders of a vertex agree on one owner that holds it.  Each rank has    *)
(* the vertices of its cells, or those chosen for it, and no others; every *)
(* one of them has its own coordinates, whoever they came from.            *)
NewLayout ==
  [size |-> [r \in Rank |-> Len(ids[r])],
   ids |-> [r \in Rank |-> [i \in 0 .. (Len(ids[r]) - 1) |-> ids[r][i + 1]]],
   owners |-> [r \in Rank |-> [i \in 0 .. (Len(ids[r]) - 1) |->
                 LET o == ghost[r][ids[r][i + 1]] IN IF o = Nowhere THEN r ELSE o]]]

OneHome ==
  AllSettled =>
    /\ WellFormed(NewLayout)
    /\ \A r \in Rank :
         /\ coords[r] = ids[r]
         /\ ToSet(ids[r]) =
              IF mesh.by = "cells"
              THEN UNION {ToSet(c) : c \in UNION {ToSet(CellsTo(q, r)) : q \in Rank}}
              ELSE UNION {ToSet(VerticesTo(q, r)) : q \in Rank}

(* A vertex is shared with exactly the other ranks that have it, ghosts    *)
(* with ghosts too, which have never exchanged a question.                 *)
AdjacencyComplete ==
  AllSettled =>
    \A r \in Rank : \A v \in ToSet(ids[r]) :
      adj[r][v] = {q \in Rank \ {r} : v \in ToSet(ids[q])}

(* No parcel is longer than what is left of the buffers, and no answer     *)
(* longer than the question it is for.                                     *)
ParcelsFit ==
  \A r \in Rank : pc[r] \in Ring /\ Arrived(r, From(r), TagOf(r)) =>
    /\ pc[r] = "parcels" =>
         /\ Len(got[r].cells) + Len(Message(r).cells) <= room[r].cells
         /\ Len(got[r].verts) + Len(Message(r).verts) <= room[r].verts
    /\ pc[r] = "answer" => Len(Message(r)) <= Len(wanted[r])

(* Every rank comes back from the distribution, and from the renumbering   *)
(* where no rank is left without vertices.                                 *)
Termination == <>(\A r \in Rank : pc[r] = "returned")
==============================================================================
