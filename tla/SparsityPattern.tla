---------------------------- MODULE SparsityPattern ----------------------------
(***************************************************************************)
(* SparsityPatternBuilder::build() for a matrix, after its two dof maps:   *)
(* each rank inserts the couplings of its cells, and of the pairs of its   *)
(* cells that meet in a facet when the form has integrals over interior    *)
(* facets, and those of periodic dofs.  SparsityPattern::apply() sends the *)
(* couplings in rows of other ranks to the ranks that own the rows.        *)
(***************************************************************************)
EXTENDS DofNumbering

VARIABLES
  rowRange, \* range_[0], from rank 0 to rank P: where the rows of a rank begin
  colRange, \* range_[1]
  d_entries, o_entries, r_entries, \* pairs of a row and a column
  packets   \* sendbuf of apply(), for each rank

entries == <<d_entries, o_entries, r_entries>>
pattern == <<rowRange, colRange, entries, packets>>
patternVars == <<numbering, pc, mpi, buffers, pattern>>

PatternReductions == {<<"ranges", 1>>, <<"rows max", 1>>}

PatternInit ==
  /\ rowRange = [r \in Rank |-> <<>>] /\ colRange = [r \in Rank |-> <<>>]
  /\ d_entries = [r \in Rank |-> {}]
  /\ o_entries = [r \in Rank |-> {}]
  /\ r_entries = [r \in Rank |-> {}]
  /\ packets = [r \in Rank |-> <<>>]

(* The pattern is distributed unless the rank has the whole of it.         *)
Distributed(r) == \E b \in 1 .. 2 : range[r][b].size # Cardinality(Dofs(space))

(* The sizes are gathered, those of the rows and those of the columns.     *)
StartInit(r) ==
  /\ pc[r] = "built" /\ Distributed(r)
  /\ Contribute(<<"ranges", 1>>, r, [b \in 1 .. 2 |-> range[r][b].size])
  /\ pc' = [pc EXCEPT ![r] = "ranges"]
  /\ UNCHANGED <<numbering, round, posted, net, buffers, pattern>>

EndInit(r) ==
  LET gathered == coll[<<"ranges", 1>>]
      begin(b) == [q \in 0 .. P |-> SumOf([p \in 0 .. (q - 1) |-> gathered[p][b]], q)]
  IN  /\ pc[r] = "ranges" /\ Reduced(<<"ranges", 1>>)
      /\ rowRange' = [rowRange EXCEPT ![r] = begin(1)]
      /\ colRange' = [colRange EXCEPT ![r] = begin(2)]
      /\ pc' = [pc EXCEPT ![r] = "ready"]
      /\ UNCHANGED <<numbering, mpi, buffers, entries, packets>>

------------------------------------------------------------------------------
(* space.facets[r] are the facets of rank r in the order of its local      *)
(* indices, each with the one or two cells it has on the rank and whether  *)
(* it is marked: in a domain with an integral.  space.periodic[r] are the  *)
(* pairs of a dof on the facets that rank r has in G, where the periodic   *)
(* boundary begins, and a dof that is mapped to it; it is empty when the   *)
(* mesh has no periodic constraint.                                        *)
ASSUME FacetsAssumption ==
  \A s \in Spaces, r \in Rank :
    /\ \A f \in ToSet(s.facets[r]) :
         /\ Len(f.cells) \in 1 .. 2 /\ f.marked \in BOOLEAN
         /\ \A n \in 1 .. Len(f.cells) : f.cells[n] \in DOMAIN s.cells[r]
    /\ s.periodic[r] \subseteq DofsOf(s, r) \X Dofs(s)

(* The interior facets, marked or not.                                     *)
Pairs(r) == {f \in ToSet(space.facets[r]) : Len(f.cells) = 2}

CellDofs(r, k) == ToSet(space.cells[r][k])


(* The dofs that are coupled on a rank, cell by cell and facet by facet: a *)
(* facet to another rank has one cell, and is passed over.                 *)
Elements(r) ==
  {CellDofs(r, k) : k \in DOMAIN space.cells[r]}
    \cup {CellDofs(r, f.cells[1]) \cup CellDofs(r, f.cells[2]) : f \in Pairs(r)}

(* The number of a dof that may be on other ranks only.                    *)
Number(b, d) == array[CHOOSE q \in Rank : q \in HoldersOf(space, d)][b][d]

(* PeriodicDofsMapping of the first dof map: of the dofs in G those that   *)
(* are no ghosts.  Rows and columns are both numbered by that dof map,     *)
(* whether or not the second one is the same.                              *)
Periodic(r) ==
  {<<array[r][1][x[1]], Number(1, x[2])>> :
     x \in {y \in space.periodic[r] : array[r][1][y[1]] \notin ghosts[r][1]}}

Couplings(r) ==
  {<<array[r][1][x[1]], array[r][2][x[2]]>> : x \in UNION {e \X e : e \in Elements(r)}}
    \cup Periodic(r)

RowsOf(r, q) == rowRange[r][q] .. (rowRange[r][q + 1] - 1)
ColsOf(r, q) == colRange[r][q] .. (colRange[r][q + 1] - 1)

(* mutant: the diagonal part is split off by the range of the rows *)
DiagonalByRows(r, s) == {e \in s : e[2] \in RowsOf(r, r)}

(* The entries whose column is in the range of the rank.                   *)
Diagonal(r, s) == {e \in s : e[2] \in ColsOf(r, r)}

Insert(r) ==
  LET own == {e \in Couplings(r) : e[1] \in RowsOf(r, r)}
  IN  /\ pc[r] = "ready"
      /\ d_entries' = [d_entries EXCEPT ![r] = Diagonal(r, own)]
      /\ o_entries' = [o_entries EXCEPT ![r] = own \ Diagonal(r, own)]
      /\ r_entries' = [r_entries EXCEPT ![r] = Couplings(r) \ own]
      /\ pc' = [pc EXCEPT ![r] = "inserted"]
      /\ UNCHANGED <<numbering, mpi, buffers, rowRange, colRange, packets>>

------------------------------------------------------------------------------
(* apply() *)

(* A packet has for each row the row, the number of its entries and the    *)
(* columns.                                                                *)
PacketSize(s) == 2 * Cardinality({e[1] : e \in s}) + Cardinality(s)

(* The first rank whose range does not end before the row.                 *)
OwnerOf(r, row) ==
  CHOOSE q \in Rank : row < rowRange[r][q + 1] /\ \A p \in 0 .. (q - 1) : rowRange[r][p + 1] <= row

StartApply(r) ==
  /\ pc[r] = "inserted"
  /\ packets' = [packets EXCEPT ![r] =
       [q \in Rank |-> {e \in r_entries[r] : OwnerOf(r, e[1]) = q}]]
  /\ Contribute(<<"rows max", 1>>, r, MaxOf({PacketSize(packets'[r][q]) : q \in Rank}))
  /\ pc' = [pc EXCEPT ![r] = "rows max"]
  /\ UNCHANGED <<numbering, round, posted, net, buffers, rowRange, colRange, entries>>

(* There is no ring when no rank has rows of another.                      *)
EndApplyMax(r) ==
  LET most == Longest(r, <<"rows max", 1>>)
  IN  /\ pc[r] = "rows max" /\ Reduced(<<"rows max", 1>>)
      /\ recvmax' = [recvmax EXCEPT ![r] = most]
      /\ pc' = [pc EXCEPT ![r] = IF most = 0 THEN "done" ELSE "rows"]
      /\ UNCHANGED <<numbering, mpi, sendbuf, pattern>>

SendRows(r) ==
  /\ pc[r] = "rows"
  /\ Send(r, Dst(r, round[r]), 1, packets[r][Dst(r, round[r])])
  /\ UNCHANGED <<numbering, pc, round, coll, buffers, pattern>>

(* A row that the rank does not own is an error.                           *)
ReturnRows(r) ==
  LET new == Message(r)
      mine == \A e \in new : e[1] \in RowsOf(r, r)
  IN  /\ pc[r] = "rows"
      /\ Recv(r, From(r), 1)
      /\ IF mine
         THEN /\ d_entries' = [d_entries EXCEPT ![r] = @ \cup Diagonal(r, new)]
              /\ o_entries' = [o_entries EXCEPT ![r] = @ \cup (new \ Diagonal(r, new))]
         ELSE UNCHANGED <<d_entries, o_entries>>
      /\ NextRound(r)
      /\ pc' = [pc EXCEPT ![r] =
           IF ~mine THEN "error" ELSE IF LastRound(r) THEN "done" ELSE "rows"]
      /\ UNCHANGED <<numbering, coll, buffers, rowRange, colRange, r_entries, packets>>

------------------------------------------------------------------------------
PatternStep(r) ==
  \/ StartInit(r) \/ EndInit(r) \/ Insert(r)
  \/ StartApply(r) \/ EndApplyMax(r) \/ SendRows(r) \/ ReturnRows(r)

BuildStep(r) == (NumberingStep(r) /\ UNCHANGED pattern) \/ PatternStep(r)

------------------------------------------------------------------------------
(* Properties *)

HasPattern(r) ==
  pc[r] \notin Numbering \cup {"built", "ranges", "ready", "inserted", "rows max", "rows"}

(* The rank that owns a row ends with exactly the entries that some rank   *)
(* has inserted in it, in whichever order the ranks went round the ring,   *)
(* and has them apart by whether it owns the column.  (What the Assembler  *)
(* adds is another question, see AddedInPattern.)                          *)
PatternExact ==
  (\A r \in Rank : HasPattern(r)) =>
    \A r \in Rank :
      LET mine == {e \in UNION {Couplings(q) : q \in Rank} : InRange(r, 1, e[1])}
      IN  /\ d_entries[r] = {e \in mine : InRange(r, 2, e[2])}
          /\ o_entries[r] = {e \in mine : ~InRange(r, 2, e[2])}
==============================================================================
