-------------------------------- MODULE UFCHalo --------------------------------
(***************************************************************************)
(* The halo of the facets between the ranks, which the Assembler builds    *)
(* for the integrals over interior facets once the matrix has its pattern. *)
(* The SharedMapping of the facets finds out in which order a neighbour    *)
(* lists the facets shared with it; UFCHalo then sends, in that order, the *)
(* cell behind each of them, and update(facet) picks the two cells of a    *)
(* facet.                                                                  *)
(***************************************************************************)
EXTENDS SparsityPattern

VARIABLES
  to, from,  \* the SharedMapping: local facets, for each adjacent rank
  facetMap,  \* facet_map_: where a facet is in data0 and in data1
  data0,     \* r_data0_ and u_data0_, one entry for each shared facet
  data1,     \* r_data1_ and u_data1_
  macros     \* the two cells the integral of each facet was tabulated for

halo == <<to, from, facetMap, data0, data1, macros>>
vars == <<patternVars, halo>>

(***************************************************************************)
(* space.shared[r] is the sequence in which a SharedIterator of rank r     *)
(* meets its shared facets: the local index, the global index, the one     *)
(* adjacent rank and the cell behind it.  space.eager says that MPI has    *)
(* copied what MPI_Isend() is given when it returns; otherwise it may read *)
(* the buffer until the request completes.                                 *)
(***************************************************************************)
Facets(r) == ToSet(space.shared[r])
Adj(r) == {f.adj : f \in Facets(r)}

SharedWith(r, q) == SelectSeq(space.shared[r], LAMBDA f : f.adj = q)
Ids(s) == [k \in DOMAIN s |-> s[k].id]
Indices(s) == [k \in DOMAIN s |-> s[k].index]

WellFormedShared(s) ==
  \A r \in Rank : \A f \in ToSet(s.shared[r]) :
    /\ f.adj \in Rank \ {r} /\ f.cell \in DOMAIN s.cells[r]
    /\ f.index + 1 \in DOMAIN s.facets[r] /\ s.facets[r][f.index + 1].cells = <<f.cell>>
    /\ \E g \in ToSet(s.shared[f.adj]) : g.id = f.id /\ g.adj = r
    /\ \A g \in ToSet(s.shared[r]) : (g.id = f.id \/ g.index = f.index) => g = f

ASSUME SharedAssumption == \A s \in Spaces : WellFormedShared(s)

HaloRings == {"halo reals", "halo dofs"}

Init ==
  /\ NumberingInit
  /\ InitMPI({0, 1}, NumberingReductions \cup PatternReductions)
  /\ PatternInit
  /\ to = [r \in Rank |-> [q \in Rank |-> <<>>]]
  /\ from = [r \in Rank |-> [q \in Rank |-> <<>>]]
  /\ facetMap = [r \in Rank |-> <<>>]
  /\ data0 = [r \in Rank |-> <<>>] /\ data1 = [r \in Rank |-> <<>>]
  /\ macros = [r \in Rank |-> <<>>]

------------------------------------------------------------------------------
(* SharedMapping::SharedMapping() *)

(* The global indices are sent and then overwritten by the local ones: of  *)
(* the buffers that MPI has not copied it sends the one or the other.      *)
StartMapping(r) ==
  /\ pc[r] = "done"
  /\ \E copied \in SUBSET Adj(r) :
       /\ space.eager => copied = Adj(r)
       /\ net' = [c \in DOMAIN net |->
            IF c[1] = r /\ c[2] \in Adj(r) /\ c[3] = 0
            THEN Append(net[c], IF c[2] \in copied THEN Ids(SharedWith(r, c[2]))
                                ELSE Indices(SharedWith(r, c[2])))
            ELSE net[c]]
  /\ to' = [to EXCEPT ![r] = [q \in Rank |-> Indices(SharedWith(r, q))]]
  /\ pc' = [pc EXCEPT ![r] = "mapping"]
  /\ UNCHANGED <<numbering, round, posted, coll, buffers, pattern,
                 from, facetMap, data0, data1, macros>>

(* A list of another length is an error; so is a facet that is not there.  *)
EndMapping(r) ==
  LET list(q) == Head(net[<<q, r, 0>>])
      local(id) == (CHOOSE f \in Facets(r) : f.id = id).index
      known == \A q \in Adj(r) :
                 /\ Len(list(q)) = Len(to[r][q])
                 /\ ToSet(list(q)) \subseteq {f.id : f \in Facets(r)}
  IN  /\ pc[r] = "mapping" /\ \A q \in Adj(r) : net[<<q, r, 0>>] # <<>>
      /\ net' = [c \in DOMAIN net |->
                   IF c[1] \in Adj(r) /\ c[2] = r /\ c[3] = 0 THEN Tail(net[c]) ELSE net[c]]
      /\ from' = [from EXCEPT ![r] = [q \in Rank |->
                   IF known /\ q \in Adj(r)
                   THEN [k \in DOMAIN list(q) |-> local(list(q)[k])] ELSE <<>>]]
      /\ pc' = [pc EXCEPT ![r] = IF known THEN "mapped" ELSE "error"]
      /\ UNCHANGED <<numbering, round, posted, coll, buffers, pattern,
                     to, facetMap, data0, data1, macros>>

------------------------------------------------------------------------------
(* UFCHalo::UFCHalo() and UFCHalo::update() *)

(* rank_offsets_: the facets shared with rank q come after those shared    *)
(* with the ranks before it.                                               *)
Offset(r, q) == SumOf([p \in 0 .. (q - 1) |-> Len(to[r][p])], q)

(* A cell: in place of its coordinates and coefficients the cell itself,   *)
(* and the numbers of its dofs in both dof maps.                           *)
CellData(r, k) ==
  LET cell == space.cells[r][k]
  IN  [reals |-> cell,
       dofs |-> [b \in 1 .. 2 |-> [n \in DOMAIN cell |-> array[r][b][cell[n]]]]]

(* The cell behind a facet.                                                *)
Packet(r, f) == CellData(r, f.cell)

(* The place of the k-th facet shared with rank q, in data0 and in data1.  *)
FacetPlaces(r, q, k) == [first |-> Offset(r, q) + k - 1, second |-> Offset(r, q) + to[r][q][k]]

FillHalo(r) ==
  LET slots == {s \in Adj(r) \X (1 .. Len(space.shared[r])) : s[2] <= Len(to[r][s[1]])}
      slot(i) == CHOOSE s \in slots : to[r][s[1]][s[2]] = i
      place(i) == FacetPlaces(r, slot(i)[1], slot(i)[2])
      facet(n) == CHOOSE f \in Facets(r) : place(f.index).first = n
  IN  /\ pc[r] = "mapped"
      /\ facetMap' = [facetMap EXCEPT ![r] = [i \in {f.index : f \in Facets(r)} |-> place(i)]]
      /\ data0' = [data0 EXCEPT ![r] =
                     [n \in 0 .. (Len(space.shared[r]) - 1) |-> Packet(r, facet(n))]]
      /\ data1' = [data1 EXCEPT ![r] =
                     [n \in 0 .. (Len(space.shared[r]) - 1) |->
                        [reals |-> <<>>, dofs |-> <<>>]]]
      /\ pc' = [pc EXCEPT ![r] = "halo reals"]
      /\ UNCHANGED <<numbering, mpi, buffers, pattern, to, from, macros>>

(* mutant: the blocks are sent to the rank they come from *)
BlockFrom(r) == Src(r, round[r])

(* The block of the rank the round sends to.                               *)
BlockTo(r) == Dst(r, round[r])

(* A round is two messages with one tag: the reals and the dofs.           *)
Part(r) == IF pc[r] = "halo reals" THEN "reals" ELSE "dofs"

SendHalo(r) ==
  LET q == BlockTo(r)
  IN  /\ pc[r] \in HaloRings
      /\ Send(r, Dst(r, round[r]), 1,
              [k \in 1 .. Len(to[r][q]) |-> data0[r][Offset(r, q) + k - 1][Part(r)]])
      /\ UNCHANGED <<numbering, pc, round, coll, buffers, pattern, halo>>

(* The block is received where the facets shared with its sender begin.    *)
ReturnHalo(r) ==
  LET q == From(r)
      block == Message(r)
      n0 == Offset(r, q)
  IN  /\ pc[r] \in HaloRings
      /\ Recv(r, q, 1)
      /\ data1' = [data1 EXCEPT ![r] = [n \in DOMAIN @ |->
                     IF n - n0 \in 0 .. (Len(block) - 1)
                     THEN [@[n] EXCEPT ![Part(r)] = block[n - n0 + 1]] ELSE @[n]]]
      /\ IF Part(r) = "reals"
         THEN /\ pc' = [pc EXCEPT ![r] = "halo dofs"]
              /\ UNCHANGED round
         ELSE /\ pc' = [pc EXCEPT ![r] = IF LastRound(r) THEN "filled" ELSE "halo reals"]
              /\ NextRound(r)
      /\ UNCHANGED <<numbering, coll, buffers, pattern, to, from, facetMap, data0, macros>>

------------------------------------------------------------------------------
(* Assembler::assembleInteriorFacets() and UFCHalo::update( facet )        *)

Marked(r) == {i \in 0 .. (Len(space.facets[r]) - 1) : space.facets[r][i + 1].marked}
FacetCells(r, i) == space.facets[r][i + 1].cells
Interior(r, i) == Len(FacetCells(r, i)) = 2

(* Whatever is past the end of data1, here no dofs.                        *)
Outside == [reals |-> <<>>, dofs |-> [b \in 1 .. 2 |-> <<>>]]

(* A facet between two cells of the rank is given these, one that is       *)
(* shared the data of the halo.                                            *)
Update(r, i) ==
  IF Interior(r, i)
  THEN [own |-> CellData(r, FacetCells(r, i)[1]), adjacent |-> CellData(r, FacetCells(r, i)[2])]
  ELSE LET n == facetMap[r][i].second
       IN  [own |-> data0[r][facetMap[r][i].first],
            adjacent |-> IF n \in DOMAIN data1[r] THEN data1[r][n] ELSE Outside]

(* The cells of the halo are the first of the mesh to begin with, and the  *)
(* dofs in the cache of the form zeros, or those of the last interior      *)
(* facet that SparsityPatternBuilder::build() met.                         *)
Stale(r) ==
  LET met == {i \in 0 .. (Len(space.facets[r]) - 1) : Interior(r, i)}
      dofs(n) == IF met = {} THEN [b \in 1 .. 2 |-> <<0>>]
                 ELSE CellData(r, FacetCells(r, MaxOf(met))[n]).dofs
  IN  [own |-> [reals |-> space.cells[r][1], dofs |-> dofs(1)],
       adjacent |-> [reals |-> space.cells[r][1], dofs |-> dofs(2)]]

(* The integral over each facet that is marked is tabulated and added, the *)
(* facets on the outer boundary too: with what the last facet before left. *)
AssembleFacets(r) ==
  LET given == {i \in Marked(r) : Interior(r, i) \/ i \in DOMAIN facetMap[r]}
      last(i) == {j \in given : j <= i}
  IN  /\ pc[r] = "filled"
      /\ macros' = [macros EXCEPT ![r] = [i \in Marked(r) |->
                      IF last(i) = {} THEN Stale(r) ELSE Update(r, MaxOf(last(i)))]]
      /\ pc' = [pc EXCEPT ![r] = "assembled"]
      /\ UNCHANGED <<numbering, mpi, buffers, pattern, to, from, facetMap, data0, data1>>

------------------------------------------------------------------------------
HaloStep(r) ==
  \/ StartMapping(r) \/ EndMapping(r) \/ FillHalo(r)
  \/ SendHalo(r) \/ ReturnHalo(r) \/ AssembleFacets(r)

Step(r) == (BuildStep(r) /\ UNCHANGED halo) \/ HaloStep(r)

Next == \E r \in Rank : Step(r)

Spec == Init /\ [][Next]_vars

(* A rank that can go on does: the ranks are processes of the system and   *)
(* MPI progresses.                                                         *)
FairSpec == Spec /\ \A r \in Rank : WF_vars(Step(r))

------------------------------------------------------------------------------
(* Properties *)

(* The facet of rank q that is the facet f of rank r.                      *)
Twin(f) == CHOOSE g \in Facets(f.adj) : g.id = f.id

Filled(r) == pc[r] \in {"filled", "assembled"}

(* When MPI copies what it sends, the two ranks of a facet list it at the  *)
(* same place of their mappings, and the halo has at that place the cell   *)
(* of the other rank and at the place in data0 the cell of this one.       *)
HaloExact ==
  space.eager =>
    \A r \in Rank : Filled(r) =>
      \A f \in Facets(r) :
        LET q == f.adj
        IN  /\ data0[r][facetMap[r][f.index].first] = Packet(r, f)
            /\ \E k \in DOMAIN from[r][q] :
                 /\ from[r][q][k] = f.index
                 /\ to[q][r][k] = Twin(f).index
                 /\ data1[r][Offset(r, q) + k - 1] = Packet(q, Twin(f))

(* "Contributions from cell0 are restored from the halo data while         *)
(* contributions from cell1 are fetched from adjacent ranks": the integral *)
(* over a shared facet is given the cells on both sides of it.             *)
CellsOfFacet ==
  space.eager =>
    \A r \in Rank : pc[r] = "assembled" =>
      \A f \in {g \in Facets(r) : g.index \in Marked(r)} :
        macros[r][f.index] = [own |-> Packet(r, f), adjacent |-> Packet(f.adj, Twin(f))]

(* The entries that a rank adds: for its cells, for the facets it was left *)
(* to tabulate, for periodic dofs.  The entries between the two cells of a *)
(* facet that is not between cells of the rank are not counted: there is   *)
(* no place for them, as the pattern was built from Elements.              *)
Dense(x, y) == ToSet(x.dofs[1]) \X ToSet(y.dofs[2])

Added(r) ==
  LET alone(m) == Dense(m.own, m.own) \cup Dense(m.adjacent, m.adjacent)
      across(m) == Dense(m.own, m.adjacent) \cup Dense(m.adjacent, m.own)
  IN  UNION {Dense(CellData(r, k), CellData(r, k)) : k \in DOMAIN space.cells[r]}
        \cup UNION {alone(macros[r][i]) : i \in Marked(r)}
        \cup UNION {across(macros[r][i]) : i \in {j \in Marked(r) : Interior(r, j)}}
        \cup Periodic(r)


(* Every rank comes to the end of the assembly, and none has thrown, when  *)
(* MPI copies what it sends.                                               *)
Termination == <>(space.eager => \A r \in Rank : pc[r] = "assembled")
==============================================================================
