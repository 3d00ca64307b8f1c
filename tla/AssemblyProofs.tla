---------------------------- MODULE AssemblyProofs ----------------------------
(***************************************************************************)
(* Theorems about the numbers of the degrees of freedom and what is built  *)
(* on them.  Everything a rank does while it numbers its dofs is           *)
(* determined by the mesh, the kind of the numbering and the draws; so the *)
(* invariant says of each rank how far it has come, and of each channel    *)
(* which of four fixed messages it holds.                                  *)
(***************************************************************************)
EXTENDS UFCHalo, SumsProofs

------------------------------------------------------------------------------
(* What the mesh, the kinds and the draws alone determine *)

Kinds == {"votes", "entities"}

(* Rank q has the better vote for a dof than rank p.                       *)
Beats(q, p, d) == Loses(Vote(p, d), p, Vote(q, d), q)

Elected(d) ==
  CHOOSE o \in HoldersOf(space, d) : \A q \in HoldersOf(space, d) \ {o} : Beats(o, q, d)

(* The rank that ends with a dof, the dofs that a rank keeps or loses, and *)
(* the numbers they are given.                                             *)
Keeper(k, d) == IF k = "votes" THEN Elected(d) ELSE space.owner[d]
Kept(k, r) == {d \in DofsOf(space, r) : Keeper(k, d) = r}
Lost(k, r) == {d \in DofsOf(space, r) : Keeper(k, d) # r}

FirstOf(k, r) == SumOf([q \in 0 .. (r - 1) |-> Cardinality(Kept(k, q))], r)
PlaceOf(k, r, d) == Cardinality({e \in Kept(k, r) : space.place[e] < space.place[d]})
NumberOf(k, d) == FirstOf(k, Keeper(k, d)) + PlaceOf(k, Keeper(k, d), d)

(* The messages.                                                           *)
Votes(r) == [d \in SharedEntities(r) |-> Vote(r, d)]
Numbers(k, r) == [d \in SharedEntities(r) \cap Kept(k, r) |-> NumberOf(k, d)]

------------------------------------------------------------------------------
(* Where the ranks are *)

(* There are four rings, one after the other: votes and numbers for the    *)
(* first dof map and for the second.  Those of votes are left out by the   *)
(* numbering by entities.                                                  *)
Ring(m) == m = 2 \/ m = 4 \/ (m = 1 /\ space.kind[1] = "votes") \/ (m = 3 /\ space.kind[2] = "votes")
Say(q, m) ==
  CASE m = 1 -> Votes(q) [] m = 2 -> Numbers(space.kind[1], q)
    [] m = 3 -> Votes(q) [] m = 4 -> Numbers(space.kind[2], q)

Voting == {"start", "votes max", "votes"}
Counting == {"owned", "offset", "numbers max", "numbers"}

(* The rings that a rank has passed; the next one it may be in.            *)
Passed(r) ==
  2 * map[r] - (IF pc[r] \in Voting THEN 2 ELSE IF pc[r] \in Counting THEN 1 ELSE 0)
Inside(r) == pc[r] \in NumberingRings

(* In round j of ring m a rank has sent, and received.                     *)
Given(r, j, m) ==
  \/ m <= Passed(r)
  \/ m = Passed(r) + 1 /\ Inside(r) /\ (j < round[r] \/ (j = round[r] /\ posted[r]))
Taken(r, j, m) == m <= Passed(r) \/ (m = Passed(r) + 1 /\ Inside(r) /\ j < round[r])
Entered(r, m) == m <= Passed(r) \/ (m = Passed(r) + 1 /\ Inside(r))

(* The round in which rank q sends to rank r.                              *)
Gap(q, r) == IF q < r THEN r - q ELSE r - q + P

Pending(q, r, m) ==
  Ring(m) /\ Given(q, Gap(q, r), m) /\ ~Taken(r, Gap(q, r), m)

Channel(q, r) ==
  /\ \A m \in 1 .. 4 :
       Ring(m) /\ Taken(r, Gap(q, r), m) => Given(q, Gap(q, r), m)
  /\ \A m \in 1 .. 4 : Pending(q, r, m) => net[<<q, r, 1>>] = <<Say(q, m)>>
  /\ (\A m \in 1 .. 4 : ~Pending(q, r, m)) => net[<<q, r, 1>>] = <<>>

AllNumbered == \A r \in Rank : Passed(r) = 4

(* Nobody looks at the pattern before all have their numbers, and nobody   *)
(* uses the channels again before all have their part of it.               *)
Counted == (Numbering \ {"error"}) \cup {"built", "ranges"}
Building == Counted \cup {"ready", "inserted", "rows max"}
RowsBegun == \E r \in Rank : pc[r] \notin Building

------------------------------------------------------------------------------
(* The invariant *)

NumberingType ==
  /\ space \in Spaces
  /\ map \in [Rank -> 1 .. 2]
  /\ round \in [Rank -> 1 .. (P - 1)]
  /\ posted \in [Rank -> BOOLEAN]
  /\ DOMAIN pc = Rank
  /\ DOMAIN drawn = Rank /\ DOMAIN ufcShared = Rank /\ DOMAIN ufcGhosts = Rank
  /\ DOMAIN array = Rank /\ DOMAIN range = Rank /\ DOMAIN shared = Rank /\ DOMAIN ghosts = Rank
  /\ DOMAIN sendbuf = Rank
  /\ \A r \in Rank : /\ DOMAIN array[r] = 1 .. 2 /\ DOMAIN range[r] = 1 .. 2
                     /\ DOMAIN shared[r] = 1 .. 2 /\ DOMAIN ghosts[r] = 1 .. 2
  /\ DOMAIN net = Rank \X Rank \X {0, 1}
  /\ DOMAIN coll = NumberingReductions \cup PatternReductions
  /\ \A r \in Rank :
       pc[r] \in Numbering \ (NumberingRings \cup {"error"}) => round[r] = 1 /\ ~posted[r]
  /\ \A r \in Rank : pc[r] \notin Numbering => map[r] = 2

(* What the ranks have given to the reductions, and how far they are then. *)
CollInv ==
  \A r \in Rank : \A b \in 1 .. 2 :
    /\ r \in DOMAIN coll[<<"votes max", b>>] => Passed(r) >= 2 * b - 2
    /\ r \in DOMAIN coll[<<"offset", b>>] =>
         coll[<<"offset", b>>][r] = Cardinality(Kept(space.kind[b], r))
    /\ r \in DOMAIN coll[<<"numbers max", b>>] => Passed(r) >= 2 * b - 1
    /\ r \in DOMAIN coll[<<"ranges", 1>>] => Passed(r) = 4

SyncInv ==
  /\ \A q, r \in Rank, m \in 1 .. 4 : Ring(m) /\ Entered(q, m) => Passed(r) >= m - 1
  /\ \A q \in Rank : pc[q] \notin Counted => AllNumbered

ChannelsInv == ~RowsBegun => \A q, r \in Rank : q # r => Channel(q, r)

(* Of the dofs of rank r those its votes have lost so far.                 *)
Outvoted(r, j) ==
  {d \in SharedEntities(r) :
     \E q \in HoldersOf(space, d) \ {r} : Gap(q, r) < j /\ Beats(q, r, d)}
Voted(r) ==
  /\ sendbuf[r] = Votes(r)
  /\ ufcGhosts[r] = Outvoted(r, round[r])
  /\ ufcShared[r] = SharedEntities(r) \ Outvoted(r, round[r])
  /\ space.kind[map[r]] = "votes"

Settled(r) ==
  /\ ufcGhosts[r] = Lost(space.kind[map[r]], r)
  /\ ufcShared[r] = SharedEntities(r) \cap Kept(space.kind[map[r]], r)

RangeOf(k, r) == [offset |-> FirstOf(k, r), size |-> Cardinality(Kept(k, r))]

(* The dofs whose numbers are known before round j.                        *)
Told(k, r, j) == Kept(k, r) \cup {d \in Lost(k, r) : Gap(Keeper(k, d), r) < j}
Counts(r, b, k, j) ==
  /\ sendbuf[r] = Numbers(k, r)
  /\ ufcGhosts[r] = DofsOf(space, r) \ Told(k, r, j)
  /\ range[r][b] = RangeOf(k, r)
  /\ array[r][b] = [d \in DofsOf(space, r) |-> array[r][b][d]]
  /\ \A d \in Told(k, r, j) : array[r][b][d] = NumberOf(k, d)
  /\ ghosts[r][b] = {NumberOf(k, d) : d \in Told(k, r, j) \ Kept(k, r)}
  /\ shared[r][b] = {NumberOf(k, d) : d \in Told(k, r, j) \cap SharedEntities(r)}

Result(r, b, k) ==
  /\ array[r][b] = [d \in DofsOf(space, r) |-> NumberOf(k, d)]
  /\ range[r][b] = RangeOf(k, r)
  /\ ghosts[r][b] = {NumberOf(k, d) : d \in Lost(k, r)}
  /\ shared[r][b] = {NumberOf(k, d) : d \in SharedEntities(r)}

RankInv(r) ==
  /\ pc[r] \in {"votes max", "votes"} => Voted(r)
  /\ pc[r] \in {"owned", "offset"} => Settled(r)
  /\ pc[r] \in {"numbers max", "numbers"} => Counts(r, map[r], space.kind[map[r]], round[r])
  /\ \A b \in 1 .. 2 : 2 * b <= Passed(r) => Result(r, b, space.kind[b])

NumberingInv ==
  /\ NumberingType /\ CollInv /\ SyncInv /\ ChannelsInv
  /\ \A r \in Rank : RankInv(r)

------------------------------------------------------------------------------
(* Rounds *)

(* In the round j a rank sends to one rank and receives from one, and the  *)
(* round belongs to both.                                                  *)
LEMMA Rounds ==
  ASSUME NEW r \in Rank, NEW j \in 1 .. (P - 1)
  PROVE  /\ Dst(r, j) \in Rank /\ Dst(r, j) # r /\ Gap(r, Dst(r, j)) = j
         /\ Src(r, j) \in Rank /\ Src(r, j) # r /\ Gap(Src(r, j), r) = j
<1>1. P \in Nat /\ P > 1 /\ r \in 0 .. (P - 1) BY PAssumption DEF Rank
<1>2. Dst(r, j) \in Rank /\ Dst(r, j) # r /\ Gap(r, Dst(r, j)) = j
  <2>1. CASE r + j < P
    <3>1. Dst(r, j) = r + j BY <1>1, <2>1 DEF Dst
    <3> QED BY <1>1, <2>1, <3>1 DEF Rank, Gap
  <2>2. CASE r + j >= P
    <3>1. Dst(r, j) = r + j - P BY <1>1, <2>2 DEF Dst
    <3> QED BY <1>1, <2>2, <3>1 DEF Rank, Gap
  <2> QED BY <1>1, <2>1, <2>2
<1>3. Src(r, j) \in Rank /\ Src(r, j) # r /\ Gap(Src(r, j), r) = j
  <2>1. CASE r >= j
    <3>1. Src(r, j) = r - j BY <1>1, <2>1 DEF Src
    <3> QED BY <1>1, <2>1, <3>1 DEF Rank, Gap
  <2>2. CASE r < j
    <3>1. Src(r, j) = r - j + P BY <1>1, <2>2 DEF Src
    <3> QED BY <1>1, <2>2, <3>1 DEF Rank, Gap
  <2> QED BY <1>1, <2>1, <2>2
<1> QED BY <1>2, <1>3

(* A gap is a round, and it names the sender and the receiver.             *)
LEMMA Gaps ==
  ASSUME NEW q \in Rank, NEW r \in Rank, q # r
  PROVE  /\ Gap(q, r) \in 1 .. (P - 1)
         /\ \A p \in Rank : p # r /\ Gap(p, r) = Gap(q, r) => p = q
         /\ \A p \in Rank : p # q /\ Gap(q, p) = Gap(q, r) => p = r
<1>1. P \in Nat /\ P > 1 /\ q \in 0 .. (P - 1) /\ r \in 0 .. (P - 1) BY PAssumption DEF Rank
<1>2. Gap(q, r) \in 1 .. (P - 1) BY <1>1 DEF Gap
<1>3. ASSUME NEW p \in Rank, p # r, Gap(p, r) = Gap(q, r) PROVE p = q
  <2>1. p \in 0 .. (P - 1) BY DEF Rank
  <2> QED BY <1>1, <1>3, <2>1 DEF Gap
<1>4. ASSUME NEW p \in Rank, p # q, Gap(q, p) = Gap(q, r) PROVE p = r
  <2>1. p \in 0 .. (P - 1) BY DEF Rank
  <2> QED BY <1>1, <1>4, <2>1 DEF Gap
<1> QED BY <1>2, <1>3, <1>4

------------------------------------------------------------------------------
(* The votes *)

(* What the assumption on the meshes says of this one.                     *)
LEMMA SpaceOK ==
  ASSUME space \in Spaces
  PROVE  WellFormedSpace(space)
BY SpacesAssumption

(* The dofs of a boundary are those that another rank has too.             *)
LEMMA BoundaryIsShared ==
  ASSUME space \in Spaces, NEW r \in Rank
  PROVE  /\ ToSet(space.boundary[r]) = SharedEntities(r)
         /\ IsFiniteSet(SharedEntities(r))
<1>1. WellFormedSpace(space) BY SpaceOK
<1>2. ToSet(space.boundary[r]) \subseteq SharedEntities(r)
  <2>1. space.boundary[r] \in Seq({d \in DofsOf(space, r) : HoldersOf(space, d) # {r}})
    BY <1>1 DEF WellFormedSpace
  <2>2. \A i \in DOMAIN space.boundary[r] :
          space.boundary[r][i] \in {d \in DofsOf(space, r) : HoldersOf(space, d) # {r}}
    BY <2>1
  <2> QED BY <2>2 DEF ToSet, SharedEntities
<1>3. SharedEntities(r) \subseteq ToSet(space.boundary[r])
  BY <1>1 DEF WellFormedSpace, SharedEntities
<1>4. SharedEntities(r) \subseteq Dofs(space) BY DEF SharedEntities, Dofs
<1>5. IsFiniteSet(Dofs(space)) BY <1>1 DEF WellFormedSpace
<1>6. IsFiniteSet(SharedEntities(r)) BY <1>4, <1>5, FS_Subset
<1> QED BY <1>2, <1>3, <1>6

(* A vote is a natural number.                                             *)
LEMMA VoteIsNat ==
  ASSUME space \in Spaces, NEW r \in Rank, NEW d \in SharedEntities(r)
  PROVE  Vote(r, d) \in Nat
<1> DEFINE b == space.boundary[r]
           I == {i \in DOMAIN b : b[i] = d}
<1>1. WellFormedSpace(space) BY SpaceOK
<1>2. b \in Seq({e \in DofsOf(space, r) : HoldersOf(space, e) # {r}})
  BY <1>1 DEF WellFormedSpace
<1>3. Len(b) \in Nat /\ DOMAIN b = 1 .. Len(b) BY <1>2
<1>4. I \in SUBSET Nat /\ I # {} BY <1>3, BoundaryIsShared DEF ToSet
<1>5. PICK m \in I : \A i \in I : m <= i
  <2> HIDE DEF I
  <2> QED BY <1>4, LeastExists
<1>6. m \in Fresh(r) /\ b[m] = d
  <2>1. ASSUME NEW j \in 1 .. (m - 1) PROVE b[j] # b[m]
    <3>1. j \in DOMAIN b /\ j < m BY <1>3, <1>5
    <3>2. j \notin I BY <1>3, <1>5, <3>1
    <3> QED BY <1>5, <3>1, <3>2
  <2> QED BY <1>5, <2>1 DEF Fresh
<1> DEFINE i == CHOOSE i \in Fresh(r) : b[i] = d
           S == {j \in Fresh(r) : j <= i}
<1>7. i \in Fresh(r) BY <1>6
<1>8. Fresh(r) \subseteq 1 .. Len(b) BY <1>3 DEF Fresh
<1>9. /\ Vote(r, d) = space.rand[r][FirstDraw(r) + Cardinality(S)] + r
      /\ FirstDraw(r) = 0
  BY DEF Vote, FirstDraw
<1> DEFINE n == Len(b)
<1> HIDE DEF i
<1>10. i \in S /\ S \subseteq 1 .. n BY <1>3, <1>7, <1>8
<1>11. n \in Nat BY <1>3
<1> HIDE DEF S, b, n
<1>12. IsFiniteSet(1 .. n) /\ Cardinality(1 .. n) = n
  <2>1. 1 \in Int /\ n \in Int BY <1>11
  <2> QED BY <1>11, <2>1, FS_Interval
<1>13. /\ IsFiniteSet(S) /\ Cardinality(S) <= n BY <1>10, <1>12, FS_Subset
<1>14. Cardinality(S) \in Nat /\ Cardinality(S) # 0
  BY <1>10, <1>13, FS_CardinalityType, FS_EmptySet
<1>15. Cardinality(S) \in 1 .. n BY <1>11, <1>13, <1>14
<1>16. space.rand[r][Cardinality(S)] \in Nat BY <1>1, <1>15 DEF WellFormedSpace, n, b
<1>17. FirstDraw(r) + Cardinality(S) = Cardinality(S) BY <1>9, <1>14
<1>18. Vote(r, d) = space.rand[r][Cardinality(S)] + r BY <1>9, <1>17
<1>19. r \in Nat BY PAssumption DEF Rank
<1> QED BY <1>16, <1>18, <1>19

(* Of two ranks that have a dof one has the better vote.                   *)
LEMMA BeatsOrder ==
  ASSUME space \in Spaces, NEW d \in Dofs(space)
  PROVE  /\ \A q, r \in HoldersOf(space, d) : q # r => (Beats(q, r, d) <=> ~Beats(r, q, d))
         /\ Elected(d) \in HoldersOf(space, d)
         /\ \A q \in HoldersOf(space, d) \ {Elected(d)} : Beats(Elected(d), q, d)
<1> DEFINE H == HoldersOf(space, d)
           V == {Vote(q, d) : q \in H}
<1>1. H \subseteq Rank /\ \A q \in H : d \in DofsOf(space, q) BY DEF HoldersOf
<1>2. H # {} BY DEF Dofs, HoldersOf
<1>3. Rank \subseteq Nat BY PAssumption DEF Rank
<1>4. CASE \E o : H = {o}
  <2>1. PICK o : H = {o} BY <1>4
  <2>2. \A q \in H \ {o} : Beats(o, q, d) BY <2>1
  <2>3. o \in H BY <2>1
  <2> DEFINE Best(x) == \A q \in H \ {x} : Beats(x, q, d)
  <2>4. Elected(d) = CHOOSE x \in H : Best(x) BY DEF Elected
  <2>5. \E x \in H : Best(x) BY <2>2, <2>3
  <2> HIDE DEF Best
  <2>6. Elected(d) \in H /\ Best(Elected(d)) BY <2>4, <2>5
  <2> QED BY <2>1, <2>6 DEF Best
<1>5. CASE ~ \E o : H = {o}
  <2>1. \A q \in H : d \in SharedEntities(q) BY <1>1, <1>5 DEF SharedEntities
  <2>2. \A q \in H : Vote(q, d) \in Nat BY <1>1, <2>1, VoteIsNat
  <2>3. V \in SUBSET Nat /\ V # {} BY <1>2, <2>2
  <2>4. PICK v \in V : \A w \in V : v <= w
    <3> HIDE DEF V
    <3> QED BY <2>3, LeastExists
  <2> DEFINE B == {q \in H : Vote(q, d) = v}
  <2>5. B \in SUBSET Nat /\ B # {} BY <1>1, <1>3, <2>4
  <2>6. PICK o \in B : \A q \in B : o <= q
    <3> HIDE DEF B
    <3> QED BY <2>5, LeastExists
  <2>7. o \in H /\ Vote(o, d) = v /\ v \in Nat BY <2>3, <2>4, <2>6
  <2>8. ASSUME NEW q \in H \ {o} PROVE Beats(o, q, d)
    <3>1. Vote(q, d) \in V /\ Vote(q, d) \in Nat /\ q \in Nat /\ o \in Nat
      BY <1>1, <1>3, <2>2, <2>7
    <3>2. v <= Vote(q, d) /\ v \in Nat BY <2>4, <2>7, <3>1
    <3>3. Vote(q, d) = v => o <= q BY <2>6
    <3>4. o # q OBVIOUS
    <3> HIDE DEF V, B, H
    <3> QED BY <2>7, <3>1, <3>2, <3>3, <3>4 DEF Beats, Loses
  <2>9. ASSUME NEW q \in H, NEW r \in H, q # r PROVE Beats(q, r, d) <=> ~Beats(r, q, d)
    <3>1. /\ Vote(q, d) \in Nat /\ Vote(r, d) \in Nat /\ q \in Nat /\ r \in Nat
      BY <1>1, <1>3, <2>2
    <3> HIDE DEF H
    <3> QED BY <2>9, <3>1 DEF Beats, Loses
  <2> DEFINE Best(x) == \A q \in H \ {x} : Beats(x, q, d)
  <2>10. Elected(d) = CHOOSE x \in H : Best(x) BY DEF Elected
  <2>11. \E x \in H : Best(x) BY <2>7, <2>8
  <2>12. Elected(d) \in H /\ Best(Elected(d))
    <3> HIDE DEF Best
    <3> QED BY <2>10, <2>11
  <2> QED BY <2>9, <2>12
<1> QED BY <1>4, <1>5

(* A kind of numbering is one of the two.                                  *)
LEMMA KindOK ==
  ASSUME space \in Spaces
  PROVE  space.kind[1] \in Kinds /\ space.kind[2] \in Kinds
BY SpaceOK DEF WellFormedSpace, Kinds

------------------------------------------------------------------------------
(* Keepers and numbers *)

(* The rank that keeps a dof has it.                                       *)
LEMMA KeeperHolds ==
  ASSUME space \in Spaces, NEW k \in Kinds, NEW d \in Dofs(space)
  PROVE  /\ Keeper(k, d) \in HoldersOf(space, d)
         /\ Keeper(k, d) \in Rank
         /\ d \in DofsOf(space, Keeper(k, d))
<1>1. Elected(d) \in HoldersOf(space, d) BY BeatsOrder
<1>2. space.owner[d] \in HoldersOf(space, d) BY SpaceOK DEF WellFormedSpace
<1>3. Keeper(k, d) \in HoldersOf(space, d) BY <1>1, <1>2 DEF Keeper
<1> QED BY <1>3 DEF HoldersOf

(* A rank that has a dof holds it, and shares it with whoever has it too.  *)
LEMMA Holding ==
  ASSUME space \in Spaces, NEW r \in Rank, NEW d \in DofsOf(space, r)
  PROVE  /\ d \in Dofs(space) /\ r \in HoldersOf(space, d)
         /\ \A q \in Rank \ {r} : d \in DofsOf(space, q) => /\ d \in SharedEntities(r)
                                                            /\ d \in SharedEntities(q)
BY DEF Dofs, HoldersOf, SharedEntities

(* What a rank does not keep it shares.                                    *)
LEMMA KeptAndLost ==
  ASSUME space \in Spaces, NEW k \in Kinds, NEW r \in Rank
  PROVE  /\ Kept(k, r) \cup Lost(k, r) = DofsOf(space, r)
         /\ Kept(k, r) \cap Lost(k, r) = {}
         /\ Lost(k, r) \subseteq SharedEntities(r)
         /\ SharedEntities(r) \subseteq DofsOf(space, r)
<1>1. ASSUME NEW d \in Lost(k, r) PROVE d \in SharedEntities(r)
  <2>1. d \in DofsOf(space, r) /\ Keeper(k, d) # r BY DEF Lost
  <2>2. d \in Dofs(space) BY <2>1, Holding
  <2>3. Keeper(k, d) \in Rank /\ d \in DofsOf(space, Keeper(k, d)) BY <2>2, KeeperHolds
  <2> QED BY <2>1, <2>3, Holding
<1> QED BY <1>1 DEF Kept, Lost, SharedEntities

(* The numbers of a kind are given in blocks.                              *)
KeeperMap(k) == [d \in Dofs(space) |-> Keeper(k, d)]
PlaceMap == [d \in Dofs(space) |-> space.place[d]]

(* The numbers are given in blocks, one for each rank.                     *)
LEMMA NumbersAreBlocks ==
  ASSUME space \in Spaces, NEW k \in Kinds
  PROVE  /\ Blocks(Dofs(space), KeeperMap(k), PlaceMap, P)
         /\ \A r \in Rank :
              /\ Kept(k, r) = BlockOf(Dofs(space), KeeperMap(k), r)
              /\ FirstOf(k, r) = BlockStart(Dofs(space), KeeperMap(k), r)
         /\ \A d \in Dofs(space) :
              /\ KeeperMap(k)[d] = Keeper(k, d)
              /\ NumberOf(k, d) = BlockNumber(Dofs(space), KeeperMap(k), PlaceMap, d)
<1> DEFINE D == Dofs(space)
           keep == KeeperMap(k)
           place == PlaceMap
<1>1. WellFormedSpace(space) BY SpaceOK
<1>2. \A d \in D : keep[d] = Keeper(k, d) /\ place[d] = space.place[d]
  BY DEF KeeperMap, PlaceMap
<1>3. \A d \in D : Keeper(k, d) \in 0 .. (P - 1) BY KeeperHolds DEF Rank
<1>4. Blocks(D, keep, place, P)
  <2>1. IsFiniteSet(D) /\ P \in Nat BY <1>1, PAssumption DEF WellFormedSpace
  <2>2. keep \in [D -> 0 .. (P - 1)] BY <1>3 DEF KeeperMap
  <2>3. place \in [D -> Nat] BY <1>1 DEF PlaceMap, WellFormedSpace
  <2>4. \A d, e \in D : place[d] = place[e] => d = e BY <1>1, <1>2 DEF WellFormedSpace
  <2> QED BY <2>1, <2>2, <2>3, <2>4 DEF Blocks
<1>5. ASSUME NEW r \in Rank PROVE Kept(k, r) = BlockOf(D, keep, r)
  <2>1. ASSUME NEW d \in Kept(k, r) PROVE d \in BlockOf(D, keep, r)
    <3>1. d \in D BY Holding DEF Kept
    <3> QED BY <1>2, <3>1 DEF Kept, BlockOf
  <2>2. ASSUME NEW d \in BlockOf(D, keep, r) PROVE d \in Kept(k, r)
    <3>1. d \in D /\ Keeper(k, d) = r BY <1>2 DEF BlockOf
    <3>2. d \in DofsOf(space, r) BY <3>1, KeeperHolds
    <3> QED BY <3>1, <3>2 DEF Kept
  <2> QED BY <2>1, <2>2
<1>6. ASSUME NEW r \in Rank PROVE FirstOf(k, r) = BlockStart(D, keep, r)
  <2> DEFINE f == [q \in 0 .. (r - 1) |-> Cardinality(Kept(k, q))]
             g == [q \in 0 .. (r - 1) |-> Cardinality(BlockOf(D, keep, q))]
  <2>1. \A q \in 0 .. (r - 1) : q \in Rank BY PAssumption DEF Rank
  <2>2. f = g BY <1>5, <2>1
  <2> QED BY <2>2 DEF FirstOf, BlockStart
<1>7. ASSUME NEW d \in D PROVE NumberOf(k, d) = BlockNumber(D, keep, place, d)
  <2> DEFINE o == Keeper(k, d)
  <2>1. o \in Rank /\ keep[d] = o BY <1>2, KeeperHolds
  <2>2. Kept(k, o) = BlockOf(D, keep, o) BY <1>5, <2>1
  <2>3. Kept(k, o) \subseteq D BY <2>1, Holding DEF Kept
  <2>4. {e \in Kept(k, o) : space.place[e] < space.place[d]}
          = {e \in BlockOf(D, keep, o) : place[e] < place[d]}
    BY <1>2, <2>2, <2>3
  <2>5. PlaceOf(k, o, d) = InBlock(D, keep, place, d) BY <2>1, <2>4 DEF PlaceOf, InBlock
  <2>6. FirstOf(k, o) = BlockStart(D, keep, keep[d]) BY <1>6, <2>1
  <2> QED BY <2>5, <2>6 DEF NumberOf, BlockNumber
<1> QED BY <1>2, <1>4, <1>5, <1>6, <1>7

(* No two dofs have the same number.                                       *)
LEMMA NumberIsOneToOne ==
  ASSUME space \in Spaces, NEW k \in Kinds, NEW d \in Dofs(space), NEW e \in Dofs(space),
         NumberOf(k, d) = NumberOf(k, e)
  PROVE  d = e
<1>1. PICK D, keep, place : D = Dofs(space) /\ keep = KeeperMap(k) /\ place = PlaceMap OBVIOUS
<1>2. Blocks(D, keep, place, P) BY <1>1, NumbersAreBlocks
<1>3. /\ NumberOf(k, d) = BlockNumber(D, keep, place, d)
      /\ NumberOf(k, e) = BlockNumber(D, keep, place, e)
  BY <1>1, NumbersAreBlocks
<1> QED BY <1>1, <1>2, <1>3, NumbersDiffer

(* Dofs have as many numbers as there are of them.                         *)
LEMMA AsManyNumbers ==
  ASSUME space \in Spaces, NEW k \in Kinds, NEW S \in SUBSET Dofs(space)
  PROVE  Cardinality({NumberOf(k, d) : d \in S}) = Cardinality(S)
<1> DEFINE T == {NumberOf(k, d) : d \in S}
           f == [d \in S |-> NumberOf(k, d)]
<1>1. IsFiniteSet(S) BY SpaceOK, FS_Subset DEF WellFormedSpace
<1>2. f \in [S -> T] OBVIOUS
<1>3. \A d, e \in S : f[d] = f[e] => d = e BY NumberIsOneToOne
<1>4. \A n \in T : \E d \in S : f[d] = n OBVIOUS
<1> HIDE DEF f
<1>5. f \in Bijection(S, T) BY <1>2, <1>3, <1>4 DEF Bijection, Injection, IsInjective, Surjection
<1>6. ExistsBijection(S, T) BY <1>5 DEF ExistsBijection
<1> QED BY <1>1, <1>6, FS_Bijection

------------------------------------------------------------------------------
(* What a round adds *)

(* What a rank has lost after no round, after one more, and after all.     *)
LEMMA OutvotedRounds ==
  ASSUME space \in Spaces, NEW r \in Rank
  PROVE  /\ Outvoted(r, 1) = {}
         /\ Outvoted(r, P) = Lost("votes", r)
         /\ \A j \in 1 .. (P - 1) :
              Outvoted(r, j + 1) = Outvoted(r, j) \cup
                {d \in SharedEntities(r) \cap SharedEntities(Src(r, j)) : Beats(Src(r, j), r, d)}
<1>0. "votes" \in Kinds BY DEF Kinds
<1>1. ASSUME NEW d \in SharedEntities(r)
      PROVE  /\ d \in Dofs(space) /\ r \in HoldersOf(space, d) /\ d \in DofsOf(space, r)
             /\ \A q \in HoldersOf(space, d) : q \in Rank /\ d \in DofsOf(space, q)
  <2>1. d \in DofsOf(space, r) BY DEF SharedEntities
  <2> QED BY <2>1, Holding DEF HoldersOf
<1>2. Outvoted(r, 1) = {}
  <2>1. \A q \in Rank \ {r} : Gap(q, r) \in 1 .. (P - 1) BY Gaps
  <2>2. \A q \in Rank \ {r} : ~(Gap(q, r) < 1) BY <2>1
  <2> QED BY <1>1, <2>2 DEF Outvoted
<1>3. Outvoted(r, P) = Lost("votes", r)
  <2>1. ASSUME NEW d \in Outvoted(r, P) PROVE d \in Lost("votes", r)
    <3>1. PICK q \in HoldersOf(space, d) \ {r} : Beats(q, r, d) BY DEF Outvoted
    <3>2. d \in SharedEntities(r) BY DEF Outvoted
    <3>3. Elected(d) # r BY <1>1, <3>1, <3>2, BeatsOrder
    <3> QED BY <1>1, <3>2, <3>3 DEF Lost, Keeper
  <2>2. ASSUME NEW d \in Lost("votes", r) PROVE d \in Outvoted(r, P)
    <3>1. d \in SharedEntities(r) BY <1>0, KeptAndLost
    <3>2. Elected(d) # r BY DEF Lost, Keeper
    <3>3. Elected(d) \in HoldersOf(space, d) \ {r} /\ Beats(Elected(d), r, d)
      BY <1>1, <3>1, <3>2, BeatsOrder
    <3>4. Elected(d) \in Rank BY <1>1, <3>1, <3>3
    <3>5. Gap(Elected(d), r) \in 1 .. (P - 1) BY <3>3, <3>4, Gaps
    <3>6. Gap(Elected(d), r) < P BY <3>5, PAssumption
    <3> QED BY <3>1, <3>3, <3>6 DEF Outvoted
  <2> QED BY <2>1, <2>2
<1>4. ASSUME NEW j \in 1 .. (P - 1)
      PROVE  Outvoted(r, j + 1) = Outvoted(r, j) \cup
               {d \in SharedEntities(r) \cap SharedEntities(Src(r, j)) : Beats(Src(r, j), r, d)}
  <2> DEFINE s == Src(r, j)
  <2>1. s \in Rank /\ s # r /\ Gap(s, r) = j BY Rounds
  <2> HIDE DEF s
  <2>2. ASSUME NEW q \in Rank \ {r} PROVE Gap(q, r) < j + 1 <=> Gap(q, r) < j \/ q = s
    <3>1. Gap(q, r) \in 1 .. (P - 1) BY Gaps
    <3>2. Gap(q, r) < j + 1 <=> Gap(q, r) < j \/ Gap(q, r) = j BY <3>1
    <3>3. Gap(q, r) = j <=> q = s BY <2>1, Gaps
    <3> QED BY <3>2, <3>3
  <2>3. ASSUME NEW d \in SharedEntities(r)
        PROVE s \in HoldersOf(space, d) <=> d \in SharedEntities(s)
    <3>1. s \in HoldersOf(space, d) => d \in SharedEntities(s) BY <1>1, <2>1, Holding
    <3>2. d \in SharedEntities(s) => s \in HoldersOf(space, d)
      BY <2>1 DEF SharedEntities, HoldersOf
    <3> QED BY <3>1, <3>2
  <2>4. ASSUME NEW d \in SharedEntities(r)
        PROVE (\E q \in HoldersOf(space, d) \ {r} : Gap(q, r) < j + 1 /\ Beats(q, r, d))
              <=> \/ \E q \in HoldersOf(space, d) \ {r} : Gap(q, r) < j /\ Beats(q, r, d)
                  \/ d \in SharedEntities(s) /\ Beats(s, r, d)
    BY <1>1, <2>1, <2>2, <2>3
  <2>5. Outvoted(r, j + 1) = Outvoted(r, j) \cup
               {d \in SharedEntities(r) \cap SharedEntities(s) : Beats(s, r, d)}
    BY <2>4 DEF Outvoted
  <2> QED BY <2>5 DEF s
<1> QED BY <1>2, <1>3, <1>4

(* At first a rank knows the numbers of what it keeps, at the end those of *)
(* all its dofs, and a round adds what it is told there.                   *)
LEMMA ToldRounds ==
  ASSUME space \in Spaces, NEW k \in Kinds, NEW r \in Rank
  PROVE  /\ Told(k, r, 1) = Kept(k, r)
         /\ Told(k, r, P) = DofsOf(space, r)
         /\ \A j \in 1 .. (P - 1) :
              /\ Told(k, r, j) \subseteq DofsOf(space, r)
              /\ Told(k, r, j + 1) = Told(k, r, j) \cup
                   ((DofsOf(space, r) \ Told(k, r, j)) \cap DOMAIN Numbers(k, Src(r, j)))
              /\ Kept(k, r) \cap DOMAIN Numbers(k, Src(r, j)) = {}
<1>1. ASSUME NEW d \in Lost(k, r)
      PROVE  /\ d \in DofsOf(space, r) /\ d \in Dofs(space)
             /\ Keeper(k, d) \in Rank \ {r} /\ Gap(Keeper(k, d), r) \in 1 .. (P - 1)
             /\ d \in SharedEntities(Keeper(k, d)) /\ d \in Kept(k, Keeper(k, d))
  <2>1. d \in DofsOf(space, r) /\ Keeper(k, d) # r BY DEF Lost
  <2>2. d \in Dofs(space) BY <2>1, Holding
  <2>3. Keeper(k, d) \in Rank /\ d \in DofsOf(space, Keeper(k, d)) BY <2>2, KeeperHolds
  <2>4. d \in SharedEntities(Keeper(k, d)) BY <2>1, <2>3, Holding
  <2>5. Gap(Keeper(k, d), r) \in 1 .. (P - 1) BY <2>1, <2>3, Gaps
  <2>6. d \in Kept(k, Keeper(k, d)) BY <2>3 DEF Kept
  <2> QED BY <2>1, <2>2, <2>3, <2>4, <2>5, <2>6
<1>2. Kept(k, r) \cup Lost(k, r) = DofsOf(space, r) /\ Kept(k, r) \cap Lost(k, r) = {}
  BY KeptAndLost
<1>3. Told(k, r, 1) = Kept(k, r)
  <2>1. \A d \in Lost(k, r) : ~(Gap(Keeper(k, d), r) < 1) BY <1>1
  <2> QED BY <2>1 DEF Told
<1>4. Told(k, r, P) = DofsOf(space, r)
  <2>1. \A d \in Lost(k, r) : Gap(Keeper(k, d), r) < P BY <1>1, PAssumption
  <2> QED BY <1>2, <2>1 DEF Told
<1>5. ASSUME NEW j \in 1 .. (P - 1)
      PROVE  /\ Told(k, r, j) \subseteq DofsOf(space, r)
             /\ Told(k, r, j + 1) = Told(k, r, j) \cup
                   ((DofsOf(space, r) \ Told(k, r, j)) \cap DOMAIN Numbers(k, Src(r, j)))
             /\ Kept(k, r) \cap DOMAIN Numbers(k, Src(r, j)) = {}
  <2> DEFINE s == Src(r, j)
  <2>1. s \in Rank /\ s # r /\ Gap(s, r) = j BY Rounds
  <2>2. DOMAIN Numbers(k, s) = SharedEntities(s) \cap Kept(k, s) BY DEF Numbers
  <2> HIDE DEF s
  <2>3. ASSUME NEW d \in Lost(k, r)
        PROVE  /\ Gap(Keeper(k, d), r) < j + 1 <=> Gap(Keeper(k, d), r) < j \/ Keeper(k, d) = s
               /\ d \in DOMAIN Numbers(k, s) <=> Keeper(k, d) = s
    <3>1. Gap(Keeper(k, d), r) < j + 1
            <=> Gap(Keeper(k, d), r) < j \/ Gap(Keeper(k, d), r) = j
      BY <1>1
    <3>2. Gap(Keeper(k, d), r) = j <=> Keeper(k, d) = s BY <1>1, <2>1, Gaps
    <3>3. d \in DOMAIN Numbers(k, s) => Keeper(k, d) = s BY <2>2 DEF Kept
    <3>4. Keeper(k, d) = s => d \in DOMAIN Numbers(k, s) BY <1>1, <2>2
    <3> QED BY <3>1, <3>2, <3>3, <3>4
  <2>4. Told(k, r, j) \subseteq DofsOf(space, r) BY <1>2 DEF Told
  <2>5. Kept(k, r) \cap DOMAIN Numbers(k, s) = {} BY <2>1, <2>2 DEF Kept
  <2>6. ASSUME NEW d \in Lost(k, r)
        PROVE  d \in Told(k, r, j + 1) <=> d \in Told(k, r, j) \/ d \in DOMAIN Numbers(k, s)
    BY <1>2, <2>3 DEF Told
  <2>7. ASSUME NEW d \in Kept(k, r)
        PROVE  d \in Told(k, r, j + 1) /\ d \in Told(k, r, j)
    BY DEF Told
  <2>8. Told(k, r, j + 1) \subseteq DofsOf(space, r) BY <1>2 DEF Told
  <2>9. Told(k, r, j + 1) = Told(k, r, j) \cup
                   ((DofsOf(space, r) \ Told(k, r, j)) \cap DOMAIN Numbers(k, s))
    BY <1>2, <2>4, <2>6, <2>7, <2>8
  <2> QED BY <2>4, <2>5, <2>9 DEF s
<1> QED BY <1>3, <1>4, <1>5

------------------------------------------------------------------------------
(* Where the ranks are *)

(* Nothing of the mesh, the kinds and the draws changes.                   *)
LEMMA StaticUnchanged ==
  ASSUME space' = space
  PROVE  /\ \A r : DofsOf(space, r)' = DofsOf(space, r)
         /\ \A r : SharedEntities(r)' = SharedEntities(r)
         /\ \A k, d : Keeper(k, d)' = Keeper(k, d)
         /\ \A k, r : Kept(k, r)' = Kept(k, r) /\ Lost(k, r)' = Lost(k, r)
         /\ \A k, d : NumberOf(k, d)' = NumberOf(k, d)
         /\ \A k, r : RangeOf(k, r)' = RangeOf(k, r)
         /\ \A r : Votes(r)' = Votes(r)
         /\ \A k, r : Numbers(k, r)' = Numbers(k, r)
         /\ \A m : Ring(m)' = Ring(m)
         /\ \A q, m : Say(q, m)' = Say(q, m)
         /\ \A r, j : Outvoted(r, j)' = Outvoted(r, j)
         /\ \A k, r, j : Told(k, r, j)' = Told(k, r, j)
<1>1. ASSUME NEW r PROVE DofsOf(space, r)' = DofsOf(space, r) OBVIOUS
<1>2. ASSUME NEW d PROVE HoldersOf(space, d)' = HoldersOf(space, d) OBVIOUS
<1>3. ASSUME NEW r PROVE SharedEntities(r)' = SharedEntities(r) BY DEF SharedEntities
<1>4. ASSUME NEW r, NEW d PROVE Vote(r, d)' = Vote(r, d) BY DEF Vote, Fresh, FirstDraw
<1>5. ASSUME NEW k, NEW d PROVE Keeper(k, d)' = Keeper(k, d)
  BY DEF Keeper, Elected, Beats, Loses, Vote, Fresh, FirstDraw
<1>6. ASSUME NEW k, NEW r PROVE Kept(k, r)' = Kept(k, r)
  BY DEF Kept, Keeper, Elected, Beats, Loses, Vote, Fresh, FirstDraw
<1>7. ASSUME NEW k, NEW r PROVE Lost(k, r)' = Lost(k, r)
  BY DEF Lost, Keeper, Elected, Beats, Loses, Vote, Fresh, FirstDraw
<1>8. ASSUME NEW k, NEW d PROVE NumberOf(k, d)' = NumberOf(k, d)
  BY DEF NumberOf, FirstOf, PlaceOf, Kept, Keeper, Elected, Beats, Loses, Vote, Fresh, FirstDraw
<1>9. ASSUME NEW k, NEW r PROVE RangeOf(k, r)' = RangeOf(k, r)
  BY DEF RangeOf, FirstOf, Kept, Keeper, Elected, Beats, Loses, Vote, Fresh, FirstDraw
<1>10. ASSUME NEW r PROVE Votes(r)' = Votes(r)
  BY DEF Votes, SharedEntities, Vote, Fresh, FirstDraw
<1>11. ASSUME NEW k, NEW r PROVE Numbers(k, r)' = Numbers(k, r)
  BY DEF Numbers, SharedEntities, NumberOf, FirstOf, PlaceOf, Kept, Keeper, Elected, Beats,
         Loses, Vote, Fresh, FirstDraw
<1>12. ASSUME NEW m PROVE Ring(m)' = Ring(m) BY DEF Ring
<1>13. ASSUME NEW q, NEW m PROVE Say(q, m)' = Say(q, m)
  BY DEF Say, Votes, Numbers, SharedEntities, NumberOf, FirstOf, PlaceOf, Kept, Keeper, Elected,
         Beats, Loses, Vote, Fresh, FirstDraw
<1>14. ASSUME NEW r, NEW j PROVE Outvoted(r, j)' = Outvoted(r, j)
  BY DEF Outvoted, SharedEntities, Beats, Loses, Vote, Fresh, FirstDraw
<1>15. ASSUME NEW k, NEW r, NEW j PROVE Told(k, r, j)' = Told(k, r, j)
  BY DEF Told, Kept, Lost, Keeper, Elected, Beats, Loses, Vote, Fresh, FirstDraw
<1> QED BY <1>1, <1>3, <1>5, <1>6, <1>7, <1>8, <1>9, <1>10, <1>11, <1>12, <1>13, <1>14, <1>15

(* What the other ranks do not notice of a step of rank r.                 *)
OthersStill(r) ==
  /\ space' = space
  /\ \A q \in Rank \ {r} :
       /\ pc'[q] = pc[q] /\ map'[q] = map[q] /\ round'[q] = round[q] /\ posted'[q] = posted[q]
       /\ sendbuf'[q] = sendbuf[q]
       /\ ufcShared'[q] = ufcShared[q] /\ ufcGhosts'[q] = ufcGhosts[q]
       /\ array'[q] = array[q] /\ range'[q] = range[q]
       /\ shared'[q] = shared[q] /\ ghosts'[q] = ghosts[q]

(* A step of one rank leaves the others where they are.                    *)
LEMMA OthersStand ==
  ASSUME NEW r \in Rank, OthersStill(r), NEW q \in Rank \ {r}
  PROVE  /\ Passed(q)' = Passed(q)
         /\ \A j, m : Given(q, j, m)' = Given(q, j, m) /\ Taken(q, j, m)' = Taken(q, j, m)
         /\ \A m : Entered(q, m)' = Entered(q, m)
<1>1. pc'[q] = pc[q] /\ map'[q] = map[q] /\ round'[q] = round[q] /\ posted'[q] = posted[q]
  BY DEF OthersStill
<1>2. Passed(q)' = Passed(q) BY <1>1 DEF Passed
<1>3. Inside(q)' = Inside(q) BY <1>1 DEF Inside
<1>4. ASSUME NEW j, NEW m PROVE Given(q, j, m)' = Given(q, j, m) /\ Taken(q, j, m)' = Taken(q, j, m)
  BY <1>1, <1>2, <1>3 DEF Given, Taken
<1>5. ASSUME NEW m PROVE Entered(q, m)' = Entered(q, m) BY <1>2, <1>3 DEF Entered
<1> QED BY <1>2, <1>4, <1>5

(* How many rings a rank has passed, by the part of the numbering it is    *)
(* in.                                                                     *)
LEMMA PassedType ==
  ASSUME NumberingType, NEW r \in Rank
  PROVE  /\ Passed(r) \in 0 .. 4
         /\ Inside(r) => Passed(r) \in 0 .. 3
         /\ pc[r] \in Voting => Passed(r) = 2 * map[r] - 2
         /\ pc[r] \in Counting => Passed(r) = 2 * map[r] - 1
         /\ pc[r] \notin Voting \cup Counting => Passed(r) = 2 * map[r]
         /\ map[r] \in 1 .. 2
<1>1. map[r] \in 1 .. 2 BY DEF NumberingType
<1>2. Voting \cap Counting = {} BY DEF Voting, Counting
<1>3. NumberingRings \subseteq Voting \cup Counting BY DEF NumberingRings, Voting, Counting
<1> QED BY <1>1, <1>2, <1>3 DEF Passed, Inside

(* A message that is pending is of the ring the receiver is in or will be  *)
(* in next.                                                                *)
LEMMA PendingRound ==
  ASSUME NumberingType, SyncInv, NEW q \in Rank, NEW r \in Rank, NEW m \in 1 .. 4,
         Pending(q, r, m)
  PROVE  m = Passed(r) + 1
<1>1. Ring(m) /\ Entered(q, m) BY DEF Pending, Given, Entered
<1>2. Passed(r) >= m - 1 BY <1>1 DEF SyncInv
<1>3. ~(m <= Passed(r)) BY DEF Pending, Taken
<1>4. Passed(r) \in 0 .. 4 BY PassedType
<1> QED BY <1>2, <1>3, <1>4

(* A step after which the ranks are as far in the rings as before.         *)
SameChannels ==
  /\ \A q, r \in Rank : net'[<<q, r, 1>>] = net[<<q, r, 1>>]
  /\ \A r \in Rank, j \in 1 .. (P - 1), m \in 1 .. 4 : Ring(m) =>
       /\ Given(r, j, m)' <=> Given(r, j, m)
       /\ Taken(r, j, m)' <=> Taken(r, j, m)

(* A rank in a ring knows that nobody has begun with the rows.             *)
LEMMA NotBegun ==
  ASSUME NumberingType, SyncInv, NEW r \in Rank, Inside(r)
  PROVE  ~RowsBegun
<1>1. Passed(r) \in 0 .. 3 BY PassedType
<1>2. ~AllNumbered BY <1>1 DEF AllNumbered
<1> QED BY <1>2 DEF SyncInv, RowsBegun, Building

(* A rank that has begun does not go back.                                 *)
LEMMA BegunStays ==
  ASSUME NEW r \in Rank, \A q \in Rank \ {r} : pc'[q] = pc[q],
         pc'[r] \in Building => pc[r] \in Building
  PROVE  RowsBegun => RowsBegun'
<1>1. ASSUME NEW q \in Rank, pc[q] \notin Building PROVE pc'[q] \notin Building
  <2>1. CASE q = r BY <1>1, <2>1
  <2>2. CASE q # r BY <1>1, <2>2
  <2> QED BY <2>1, <2>2
<1> QED BY <1>1 DEF RowsBegun

(* A step that neither sends nor receives keeps the channels.              *)
LEMMA ChannelsSame ==
  ASSUME ChannelsInv, space' = space, SameChannels, RowsBegun => RowsBegun'
  PROVE  ChannelsInv'
<1>1. \A m : Ring(m)' = Ring(m) BY StaticUnchanged
<1>2. \A q, m : Say(q, m)' = Say(q, m) BY StaticUnchanged
<1>3. SUFFICES ASSUME ~RowsBegun', NEW q \in Rank, NEW r \in Rank, q # r PROVE Channel(q, r)'
  BY DEF ChannelsInv
<1>4. Channel(q, r) BY <1>3 DEF ChannelsInv
<1>5. Gap(q, r) \in 1 .. (P - 1) BY <1>3, Gaps
<1>6. ASSUME NEW m \in 1 .. 4, Ring(m)
      PROVE  /\ Given(q, Gap(q, r), m)' <=> Given(q, Gap(q, r), m)
             /\ Taken(r, Gap(q, r), m)' <=> Taken(r, Gap(q, r), m)
  BY <1>5, <1>6 DEF SameChannels
<1>7. ASSUME NEW m \in 1 .. 4 PROVE Pending(q, r, m)' <=> Pending(q, r, m)
  BY <1>1, <1>6 DEF Pending
<1>8. net'[<<q, r, 1>>] = net[<<q, r, 1>>] BY DEF SameChannels
<1>9. \A m \in 1 .. 4 :
        (Ring(m) /\ Taken(r, Gap(q, r), m) => Given(q, Gap(q, r), m))'
  BY <1>1, <1>4, <1>6 DEF Channel
<1>10. \A m \in 1 .. 4 : (Pending(q, r, m) => net[<<q, r, 1>>] = <<Say(q, m)>>)'
  BY <1>2, <1>4, <1>7, <1>8 DEF Channel
<1>11. ((\A m \in 1 .. 4 : ~Pending(q, r, m)) => net[<<q, r, 1>>] = <<>>)'
  BY <1>4, <1>7, <1>8 DEF Channel
<1> QED BY <1>9, <1>10, <1>11 DEF Channel

(* A step keeps the ranks together when the rank enters a ring only after  *)
(* all have left the one before.                                           *)
LEMMA SyncKept ==
  ASSUME NumberingType, NumberingType', SyncInv, NEW r \in Rank, OthersStill(r),
         Passed(r) <= Passed(r)',
         \A m \in 1 .. 4 : Ring(m) /\ Entered(r, m)' =>
           Entered(r, m) \/ \A q \in Rank : Passed(q) >= m - 1,
         pc'[r] \notin Counted => AllNumbered
  PROVE  SyncInv' /\ (AllNumbered => AllNumbered')
<1>1. \A m : Ring(m)' = Ring(m) BY StaticUnchanged DEF OthersStill
<1>2. ASSUME NEW q \in Rank
      PROVE /\ Passed(q) \in 0 .. 4 /\ Passed(q)' \in 0 .. 4 /\ Passed(q) <= Passed(q)'
            /\ (q # r => \A m : Entered(q, m)' = Entered(q, m))
  <2>1. Passed(q) \in 0 .. 4 BY PassedType
  <2>2. Passed(q)' \in 0 .. 4
    <3>1. map'[q] \in 1 .. 2 BY DEF NumberingType
    <3>2. Voting \cap Counting = {} BY DEF Voting, Counting
    <3> QED BY <3>1, <3>2 DEF Passed
  <2>3. CASE q = r BY <2>1, <2>2, <2>3
  <2>4. CASE q # r
    <3>1. Passed(q)' = Passed(q) BY <2>4, OthersStand
    <3>2. \A m : Entered(q, m)' = Entered(q, m) BY <2>4, OthersStand
    <3> QED BY <2>1, <2>2, <2>4, <3>1, <3>2
  <2> QED BY <2>3, <2>4
<1>3. AllNumbered => AllNumbered' BY <1>2 DEF AllNumbered
<1>4. ASSUME NEW q \in Rank, NEW p \in Rank, NEW m \in 1 .. 4, Ring(m), Entered(q, m)'
      PROVE  Passed(p)' >= m - 1
  <2>1. Entered(q, m) \/ \A x \in Rank : Passed(x) >= m - 1 BY <1>2, <1>4
  <2>2. Passed(p) >= m - 1 BY <1>4, <2>1 DEF SyncInv
  <2> QED BY <1>2, <2>2
<1>5. ASSUME NEW q \in Rank, pc'[q] \notin Counted PROVE AllNumbered
  <2>1. CASE q = r BY <1>5, <2>1
  <2>2. CASE q # r
    <3>1. pc[q] \notin Counted BY <1>5, <2>2 DEF OthersStill
    <3> QED BY <3>1 DEF SyncInv
  <2> QED BY <2>1, <2>2
<1>6. \A q, p \in Rank, m \in 1 .. 4 : (Ring(m) /\ Entered(q, m) => Passed(p) >= m - 1)'
  BY <1>1, <1>4
<1>7. \A q \in Rank : (pc[q] \notin Counted => AllNumbered)' BY <1>3, <1>5
<1> QED BY <1>3, <1>6, <1>7 DEF SyncInv

(* A step of a rank that neither sends nor receives: it may enter a ring,  *)
(* or leave out one that is not there.                                     *)
Still(r) ==
  /\ OthersStill(r)
  /\ net' = net
  /\ round'[r] = round[r] /\ posted'[r] = posted[r]
  /\ \/ Passed(r)' = Passed(r) /\ (Inside(r)' <=> Inside(r))
     \/ /\ Passed(r)' = Passed(r) /\ ~Inside(r) /\ round[r] = 1 /\ ~posted[r]
        /\ \A q \in Rank : Passed(q) >= Passed(r)
     \/ Passed(r)' = Passed(r) + 1 /\ ~Inside(r) /\ ~Inside(r)' /\ ~Ring(Passed(r) + 1)
  /\ pc'[r] \notin Counted => AllNumbered
  /\ pc'[r] \in Building => pc[r] \in Building

(* A rank that does not change ring or round disturbs no channel.          *)
LEMMA StillStep ==
  ASSUME NumberingInv, NumberingType', NEW r \in Rank, Still(r)
  PROVE  SyncInv' /\ ChannelsInv'
<1>1. NumberingType /\ SyncInv /\ ChannelsInv BY DEF NumberingInv
<1>2. OthersStill(r) /\ space' = space BY DEF Still, OthersStill
<1>3. /\ Passed(r) \in 0 .. 4 /\ round[r] \in 1 .. (P - 1)
      /\ round'[r] = round[r] /\ posted'[r] = posted[r]
  BY <1>1, PassedType DEF NumberingType, Still
<1>4. ASSUME NEW j \in 1 .. (P - 1), NEW m \in 1 .. 4, Ring(m)
      PROVE  /\ Given(r, j, m)' <=> Given(r, j, m)
             /\ Taken(r, j, m)' <=> Taken(r, j, m)
  <2>1. CASE Passed(r)' = Passed(r) /\ (Inside(r)' <=> Inside(r))
    BY <1>3, <2>1 DEF Given, Taken
  <2>2. CASE Passed(r)' = Passed(r) /\ ~Inside(r) /\ round[r] = 1 /\ ~posted[r]
    BY <1>3, <2>2 DEF Given, Taken
  <2>3. CASE Passed(r)' = Passed(r) + 1 /\ ~Inside(r) /\ ~Inside(r)' /\ ~Ring(Passed(r) + 1)
    <3>1. m # Passed(r) + 1 BY <1>4, <2>3
    <3>2. m <= Passed(r) + 1 <=> m <= Passed(r) BY <1>3, <3>1
    <3> QED BY <1>3, <2>3, <3>1, <3>2 DEF Given, Taken
  <2> QED BY <2>1, <2>2, <2>3 DEF Still
<1>5. SameChannels
  <2>1. ASSUME NEW q \in Rank, NEW j \in 1 .. (P - 1), NEW m \in 1 .. 4, Ring(m)
        PROVE  /\ Given(q, j, m)' <=> Given(q, j, m)
               /\ Taken(q, j, m)' <=> Taken(q, j, m)
    <3>1. CASE q = r BY <1>4, <2>1, <3>1
    <3>2. CASE q # r BY <1>2, <3>2, OthersStand
    <3> QED BY <3>1, <3>2
  <2>2. net' = net BY DEF Still
  <2> QED BY <2>1, <2>2 DEF SameChannels
<1>6. Passed(r) <= Passed(r)' BY <1>3 DEF Still
<1>7. ASSUME NEW m \in 1 .. 4, Ring(m), Entered(r, m)'
      PROVE  Entered(r, m) \/ \A q \in Rank : Passed(q) >= m - 1
  <2>1. CASE Passed(r)' = Passed(r) /\ (Inside(r)' <=> Inside(r)) BY <1>7, <2>1 DEF Entered
  <2>2. CASE Passed(r)' = Passed(r) /\ \A q \in Rank : Passed(q) >= Passed(r)
    <3>1. CASE m <= Passed(r) BY <3>1 DEF Entered
    <3>2. CASE ~(m <= Passed(r))
      <4>1. m = Passed(r) + 1 BY <1>7, <2>2, <3>2 DEF Entered
      <4>2. m - 1 = Passed(r) BY <1>3, <4>1
      <4> QED BY <2>2, <4>2
    <3> QED BY <3>1, <3>2
  <2>3. CASE Passed(r)' = Passed(r) + 1 /\ ~Inside(r)' /\ ~Ring(Passed(r) + 1)
    <3>1. m # Passed(r) + 1 BY <1>7, <2>3
    <3>2. m <= Passed(r) + 1 BY <1>7, <2>3 DEF Entered
    <3>3. m <= Passed(r) BY <1>3, <3>1, <3>2
    <3> QED BY <3>3 DEF Entered
  <2> QED BY <2>1, <2>2, <2>3 DEF Still
<1>8. pc'[r] \notin Counted => AllNumbered BY DEF Still
<1>9. SyncInv' /\ (AllNumbered => AllNumbered') BY <1>1, <1>2, <1>6, <1>7, <1>8, SyncKept
<1>10. RowsBegun => RowsBegun' BY <1>2, BegunStays DEF OthersStill, Still
<1>11. ChannelsInv' BY <1>1, <1>2, <1>5, <1>10, ChannelsSame
<1> QED BY <1>9, <1>11

------------------------------------------------------------------------------
(* The rings *)

(* A rank in a ring sends what the ring is for.                            *)
LEMMA RingOK ==
  ASSUME NumberingInv, NEW r \in Rank, Inside(r)
  PROVE  /\ Ring(Passed(r) + 1) /\ Passed(r) + 1 \in 1 .. 4
         /\ sendbuf[r] = Say(r, Passed(r) + 1)
         /\ pc[r] = "votes" => /\ space.kind[map[r]] = "votes"
                               /\ \A q : Say(q, Passed(r) + 1) = Votes(q)
         /\ pc[r] = "numbers" => \A q : Say(q, Passed(r) + 1) = Numbers(space.kind[map[r]], q)
<1>1. NumberingType /\ RankInv(r) BY DEF NumberingInv
<1>2. map[r] = 1 \/ map[r] = 2 BY <1>1, PassedType
<1>3. CASE pc[r] = "votes"
  <2>1. Passed(r) = 2 * map[r] - 2 BY <1>1, <1>3, PassedType DEF Voting
  <2>2. sendbuf[r] = Votes(r) /\ space.kind[map[r]] = "votes" BY <1>1, <1>3 DEF RankInv, Voted
  <2>3. CASE map[r] = 1
    <3>1. Passed(r) + 1 = 1 BY <2>1, <2>3
    <3>2. Ring(1) BY <2>2, <2>3 DEF Ring
    <3>3. \A q : Say(q, 1) = Votes(q) BY DEF Say
    <3> QED BY <1>3, <2>2, <3>1, <3>2, <3>3
  <2>4. CASE map[r] = 2
    <3>1. Passed(r) + 1 = 3 BY <2>1, <2>4
    <3>2. Ring(3) BY <2>2, <2>4 DEF Ring
    <3>3. \A q : Say(q, 3) = Votes(q) BY DEF Say
    <3> QED BY <1>3, <2>2, <3>1, <3>2, <3>3
  <2> QED BY <1>2, <2>3, <2>4
<1>4. CASE pc[r] = "numbers"
  <2>1. Passed(r) = 2 * map[r] - 1 BY <1>1, <1>4, PassedType DEF Counting
  <2>2. sendbuf[r] = Numbers(space.kind[map[r]], r) BY <1>1, <1>4 DEF RankInv, Counts
  <2>3. CASE map[r] = 1
    <3>1. Passed(r) + 1 = 2 BY <2>1, <2>3
    <3>2. Ring(2) BY DEF Ring
    <3>3. \A q : Say(q, 2) = Numbers(space.kind[1], q) BY DEF Say
    <3> QED BY <1>4, <2>2, <2>3, <3>1, <3>2, <3>3
  <2>4. CASE map[r] = 2
    <3>1. Passed(r) + 1 = 4 BY <2>1, <2>4
    <3>2. Ring(4) BY DEF Ring
    <3>3. \A q : Say(q, 4) = Numbers(space.kind[2], q) BY DEF Say
    <3> QED BY <1>4, <2>2, <2>4, <3>1, <3>2, <3>3
  <2> QED BY <1>2, <2>3, <2>4
<1> QED BY <1>3, <1>4 DEF Inside, NumberingRings

(* What a rank receives is what its partner says in this ring.             *)
LEMMA MessageIs ==
  ASSUME NumberingInv, NEW r \in Rank, Inside(r), Arrived(r, From(r), 1)
  PROVE  /\ From(r) \in Rank /\ From(r) # r
         /\ Pending(From(r), r, Passed(r) + 1)
         /\ net[<<From(r), r, 1>>] = <<Say(From(r), Passed(r) + 1)>>
         /\ Message(r) = Say(From(r), Passed(r) + 1)
<1>1. NumberingType /\ SyncInv /\ ChannelsInv BY DEF NumberingInv
<1>2. round[r] \in 1 .. (P - 1) BY <1>1 DEF NumberingType
<1> DEFINE q == From(r)
<1>3. q \in Rank /\ q # r BY <1>2, Rounds DEF From
<1>4. net[<<q, r, 1>>] # <<>> BY DEF Arrived
<1>5. ~RowsBegun BY <1>1, NotBegun
<1> HIDE DEF q
<1>6. Channel(q, r) BY <1>1, <1>3, <1>5 DEF ChannelsInv
<1>7. PICK m \in 1 .. 4 : Pending(q, r, m) BY <1>4, <1>6 DEF Channel
<1>8. m = Passed(r) + 1 BY <1>1, <1>3, <1>7, PendingRound
<1>9. net[<<q, r, 1>>] = <<Say(q, m)>> BY <1>6, <1>7 DEF Channel
<1>10. Message(r) = Say(q, m) BY <1>9 DEF Message, Arriving, q
<1> QED BY <1>3, <1>7, <1>8, <1>9, <1>10 DEF q

(* A send puts the message of its ring and round into an empty channel.    *)
LEMMA SendKeeps ==
  ASSUME NumberingInv, NumberingType', NEW r \in Rank, NumberingSend(r)
  PROVE  SyncInv' /\ ChannelsInv'
<1> DEFINE j == round[r]
           t == Dst(r, j)
           m0 == Passed(r) + 1
<1>1. NumberingType /\ SyncInv /\ ChannelsInv BY DEF NumberingInv
<1>2. /\ pc' = pc /\ map' = map /\ round' = round /\ space' = space
      /\ posted' = [posted EXCEPT ![r] = TRUE] /\ ~posted[r]
      /\ net' = [net EXCEPT ![<<r, t, 1>>] = Append(@, sendbuf[r])]
      /\ Inside(r)
  BY DEF NumberingSend, Send, numbering, Inside
<1>3. OthersStill(r)
  <2>1. DOMAIN posted = Rank BY <1>1 DEF NumberingType
  <2>2. posted' = [posted EXCEPT ![r] = TRUE] BY <1>2
  <2>3. \A q \in Rank \ {r} : posted'[q] = posted[q] BY <2>1, <2>2
  <2>4. UNCHANGED <<space, pc, map, round, sendbuf, ufcShared, ufcGhosts, array, range, shared,
                    ghosts>>
    BY DEF NumberingSend, numbering, flags, numbers, buffers
  <2> QED BY <2>3, <2>4 DEF OthersStill
<1>4. j \in 1 .. (P - 1) /\ Passed(r) \in 0 .. 3 BY <1>1, <1>2, PassedType DEF NumberingType
<1>5. t \in Rank /\ t # r /\ Gap(r, t) = j BY <1>4, Rounds
<1>6. posted'[r] = TRUE BY <1>1, <1>2 DEF NumberingType
<1>7. \A q \in Rank : Passed(q)' = Passed(q) /\ Inside(q)' = Inside(q) BY <1>2 DEF Passed, Inside
<1>8. \A m : Ring(m)' = Ring(m) BY <1>2, StaticUnchanged
<1>9. \A q, m : Say(q, m)' = Say(q, m) BY <1>2, StaticUnchanged
<1>10. Ring(m0) /\ m0 \in 1 .. 4 /\ sendbuf[r] = Say(r, m0) BY <1>2, RingOK
<1>11. ~RowsBegun BY <1>1, <1>2, NotBegun
<1>12. SyncInv'
  <2>1. Passed(r) <= Passed(r)' BY <1>4, <1>7
  <2>2. \A m \in 1 .. 4 : Entered(r, m)' => Entered(r, m) BY <1>7 DEF Entered
  <2>3. pc'[r] \in Counted BY <1>2 DEF Counted, Numbering, NumberingRings, Inside
  <2> QED BY <1>1, <1>3, <2>1, <2>2, <2>3, SyncKept
<1>13. ASSUME NEW q \in Rank, NEW p \in Rank, q # p PROVE Channel(q, p)'
  <2> DEFINE g == Gap(q, p)
  <2>1. Channel(q, p) BY <1>1, <1>11, <1>13 DEF ChannelsInv
  <2>2. g \in 1 .. (P - 1) BY <1>13, Gaps
  <2>3. \A m : Taken(p, g, m)' = Taken(p, g, m) BY <1>2, <1>7 DEF Taken
  <2>4. CASE q = r /\ p = t
    <3>1. g = j BY <1>5, <2>4
    <3> HIDE DEF g, t, j, m0
    <3>2. \A m \in 1 .. 4 : Given(q, g, m)' <=> Given(q, g, m) \/ m = m0
      <4>1. TAKE m \in 1 .. 4
      <4>2. Given(q, g, m)' <=> m <= Passed(q) \/ m = m0
        BY <1>2, <1>4, <1>6, <1>7, <2>4, <3>1 DEF Given, m0, j
      <4>3. Given(q, g, m) <=> m <= Passed(q)
        BY <1>2, <1>4, <2>4, <3>1 DEF Given, m0, j
      <4> QED BY <4>2, <4>3
    <3>3. ~Given(q, g, m0) BY <1>2, <1>4, <2>4, <3>1 DEF Given, m0, j
    <3>4. ~Taken(p, g, m0) BY <1>10, <2>1, <3>3 DEF Channel, g
    <3>5. ASSUME NEW m \in 1 .. 4, Pending(q, p, m) PROVE FALSE
      <4>1. m = Passed(p) + 1 BY <1>1, <3>5, PendingRound
      <4>2. Given(q, g, m) BY <3>5 DEF Pending, g
      <4>3. m # m0 BY <3>3, <4>2
      <4>4. m <= Passed(r) BY <2>4, <4>2, <4>3 DEF Given, m0
      <4>5. Passed(p) >= m0 - 1 BY <1>1, <1>2, <1>10 DEF SyncInv, Entered, m0
      <4>6. Passed(p) \in 0 .. 4 BY <1>1, PassedType
      <4> QED BY <1>4, <4>1, <4>4, <4>5, <4>6 DEF m0
    <3>6. net[<<q, p, 1>>] = <<>> BY <2>1, <3>5 DEF Channel
    <3>7. net'[<<q, p, 1>>] = <<Say(r, m0)>>
      <4>1. <<r, t, 1>> \in DOMAIN net BY <1>1, <1>5 DEF NumberingType
      <4>2. net'[<<r, t, 1>>] = Append(net[<<r, t, 1>>], sendbuf[r])
        BY <1>2, <4>1
      <4>3. Append(<<>>, Say(r, m0)) = <<Say(r, m0)>> OBVIOUS
      <4>4. net[<<r, t, 1>>] = <<>> BY <2>4, <3>6
      <4> QED BY <1>10, <2>4, <4>2, <4>3, <4>4
    <3>8. \A m \in 1 .. 4 : Pending(q, p, m)' <=> m = m0
      <4>1. TAKE m \in 1 .. 4
      <4>2. Pending(q, p, m)' <=> Ring(m) /\ Given(q, g, m)' /\ ~Taken(p, g, m)
        BY <1>8, <2>3 DEF Pending, g
      <4>3. Pending(q, p, m) <=> Ring(m) /\ Given(q, g, m) /\ ~Taken(p, g, m) BY DEF Pending, g
      <4> QED BY <1>10, <3>2, <3>4, <3>5, <4>2, <4>3
    <3>9. \A m \in 1 .. 4 : (Ring(m) /\ Taken(p, Gap(q, p), m) => Given(q, Gap(q, p), m))'
      BY <1>8, <2>1, <2>3, <3>2 DEF Channel, g
    <3>10. \A m \in 1 .. 4 : (Pending(q, p, m) => net[<<q, p, 1>>] = <<Say(q, m)>>)'
      BY <1>9, <2>4, <3>7, <3>8
    <3>11. ((\A m \in 1 .. 4 : ~Pending(q, p, m)) => net[<<q, p, 1>>] = <<>>)'
      BY <1>10, <3>8
    <3> QED BY <3>9, <3>10, <3>11 DEF Channel
  <2>5. CASE ~(q = r /\ p = t)
    <3>1. \A m \in 1 .. 4 : Given(q, g, m)' <=> Given(q, g, m)
      <4>1. CASE q # r BY <1>3, <4>1, OthersStand
      <4>2. CASE q = r
        <5>1. g # j BY <1>5, <1>13, <2>5, <4>2, Gaps
        <5> HIDE DEF g, j
        <5> QED BY <1>2, <1>7, <4>2, <5>1 DEF Given, j
      <4> QED BY <4>1, <4>2
    <3>2. net'[<<q, p, 1>>] = net[<<q, p, 1>>]
      <4>1. <<q, p, 1>> \in DOMAIN net /\ <<q, p, 1>> # <<r, t, 1>>
        BY <1>1, <2>5 DEF NumberingType
      <4> HIDE DEF t
      <4> QED BY <1>2, <4>1
    <3> HIDE DEF g
    <3>3. \A m \in 1 .. 4 : Pending(q, p, m)' <=> Pending(q, p, m)
      BY <1>8, <2>3, <3>1 DEF Pending, g
    <3>4. \A m \in 1 .. 4 : (Ring(m) /\ Taken(p, Gap(q, p), m) => Given(q, Gap(q, p), m))'
      BY <1>8, <2>1, <2>3, <3>1 DEF Channel, g
    <3>5. \A m \in 1 .. 4 : (Pending(q, p, m) => net[<<q, p, 1>>] = <<Say(q, m)>>)'
      BY <1>9, <2>1, <3>2, <3>3 DEF Channel
    <3>6. ((\A m \in 1 .. 4 : ~Pending(q, p, m)) => net[<<q, p, 1>>] = <<>>)'
      BY <2>1, <3>2, <3>3 DEF Channel
    <3> QED BY <3>4, <3>5, <3>6 DEF Channel
  <2> QED BY <2>4, <2>5
<1> QED BY <1>12, <1>13 DEF ChannelsInv

(* A step that takes what has arrived.                                     *)
Takes(r) ==
  /\ OthersStill(r) /\ map' = map
  /\ Inside(r) /\ Recv(r, From(r), 1) /\ NextRound(r)
  /\ Passed(r)' = (IF LastRound(r) THEN Passed(r) + 1 ELSE Passed(r))
  /\ Inside(r)' <=> ~LastRound(r)
  /\ pc'[r] \in Counted

(* A receive empties the channel of its ring and round.                    *)
LEMMA TakeKeeps ==
  ASSUME NumberingInv, NumberingType', NEW r \in Rank, Takes(r)
  PROVE  SyncInv' /\ ChannelsInv'
<1> DEFINE j == round[r]
           s == From(r)
           m0 == Passed(r) + 1
<1>1. NumberingType /\ SyncInv /\ ChannelsInv BY DEF NumberingInv
<1>2. /\ OthersStill(r) /\ space' = space /\ Inside(r)
      /\ Arrived(r, s, 1) /\ posted[r]
      /\ net' = [net EXCEPT ![<<s, r, 1>>] = Tail(@)]
      /\ posted' = [posted EXCEPT ![r] = FALSE]
      /\ round' = [round EXCEPT ![r] = IF LastRound(r) THEN 1 ELSE @ + 1]
  BY DEF Takes, OthersStill, Recv, Arrived, NextRound
<1>3. j \in 1 .. (P - 1) /\ Passed(r) \in 0 .. 3 BY <1>1, <1>2, PassedType DEF NumberingType
<1>4. s \in Rank /\ s # r /\ Gap(s, r) = j BY <1>3, Rounds DEF From
<1>5. /\ posted'[r] = FALSE
      /\ round'[r] = IF j = P - 1 THEN 1 ELSE j + 1
      /\ LastRound(r) <=> j = P - 1
  BY <1>1, <1>2 DEF NumberingType, LastRound
<1>6. /\ Passed(r)' = (IF j = P - 1 THEN Passed(r) + 1 ELSE Passed(r))
      /\ Inside(r)' <=> j # P - 1
  BY <1>5 DEF Takes
<1>7. /\ Pending(s, r, m0) /\ net[<<s, r, 1>>] = <<Say(s, m0)>>
  BY <1>2, MessageIs
<1>8. \A m : Ring(m)' = Ring(m) BY <1>2, StaticUnchanged
<1>9. \A q, m : Say(q, m)' = Say(q, m) BY <1>2, StaticUnchanged
<1>10. ~RowsBegun BY <1>1, <1>2, NotBegun
<1> HIDE DEF j, s, m0
<1>11. \A m \in 1 .. 4 : Entered(r, m)' => Entered(r, m)
  <2>1. P \in Nat BY PAssumption
  <2> QED BY <1>2, <1>3, <1>6, <2>1 DEF Entered
<1>12. SyncInv'
  <2>1. Passed(r) <= Passed(r)' BY <1>3, <1>6
  <2>2. pc'[r] \in Counted BY DEF Takes
  <2> QED BY <1>1, <1>2, <1>11, <2>1, <2>2, SyncKept
<1>13. ASSUME NEW g \in 1 .. (P - 1), NEW m \in 1 .. 4
       PROVE  /\ Given(r, g, m)' <=> Given(r, g, m)
              /\ Taken(r, g, m)' <=> Taken(r, g, m) \/ (g = j /\ m = m0)
  <2>1. P \in Nat BY PAssumption
  <2>2. round[r] = j /\ m0 = Passed(r) + 1 BY DEF j, m0
  <2>3. CASE j = P - 1
    <3>1. Given(r, g, m) <=> m <= Passed(r) + 1
      BY <1>2, <1>3, <2>1, <2>2, <2>3 DEF Given
    <3>2. Taken(r, g, m) <=> m <= Passed(r) \/ (m = Passed(r) + 1 /\ g # j)
      BY <1>2, <1>3, <2>1, <2>2, <2>3 DEF Taken
    <3>3. Passed(r)' = Passed(r) + 1 /\ ~Inside(r)' BY <1>6, <2>3
    <3>4. Given(r, g, m)' <=> m <= Passed(r) + 1 BY <3>3 DEF Given
    <3>5. Taken(r, g, m)' <=> m <= Passed(r) + 1 BY <3>3 DEF Taken
    <3> QED BY <1>3, <2>2, <3>1, <3>2, <3>4, <3>5
  <2>4. CASE j # P - 1
    <3>1. Passed(r)' = Passed(r) /\ Inside(r)' /\ round'[r] = j + 1 /\ ~posted'[r]
      BY <1>5, <1>6, <2>4
    <3>2. Given(r, g, m)' <=> m <= Passed(r) \/ (m = m0 /\ g < j + 1)
      BY <1>3, <2>1, <2>2, <3>1 DEF Given
    <3>3. Given(r, g, m) <=> m <= Passed(r) \/ (m = m0 /\ (g < j \/ g = j))
      BY <1>2, <2>2 DEF Given
    <3>4. Taken(r, g, m)' <=> m <= Passed(r) \/ (m = m0 /\ g < j + 1)
      BY <1>3, <2>1, <2>2, <3>1 DEF Taken
    <3>5. Taken(r, g, m) <=> m <= Passed(r) \/ (m = m0 /\ g < j)
      BY <1>2, <2>2 DEF Taken
    <3>6. g < j + 1 <=> g < j \/ g = j BY <1>3
    <3> QED BY <3>2, <3>3, <3>4, <3>5, <3>6
  <2> QED BY <2>3, <2>4
<1>14. ASSUME NEW q \in Rank, NEW p \in Rank, q # p PROVE Channel(q, p)'
  <2> DEFINE g == Gap(q, p)
  <2>1. Channel(q, p) BY <1>1, <1>10, <1>14 DEF ChannelsInv
  <2>2. g \in 1 .. (P - 1) BY <1>14, Gaps
  <2>3. \A m \in 1 .. 4 : Given(q, g, m)' <=> Given(q, g, m)
    <3>1. CASE q = r BY <1>13, <2>2, <3>1
    <3>2. CASE q # r BY <1>2, <3>2, OthersStand
    <3> QED BY <3>1, <3>2
  <2>4. CASE q = s /\ p = r
    <3>1. g = j BY <1>4, <2>4
    <3> HIDE DEF g
    <3>2. \A m \in 1 .. 4 : Taken(p, g, m)' <=> Taken(p, g, m) \/ m = m0
      BY <1>13, <2>2, <2>4, <3>1
    <3>3. \A m \in 1 .. 4 : ~Pending(q, p, m)'
      <4>1. TAKE m \in 1 .. 4
      <4>2. Pending(q, p, m)' <=> Ring(m) /\ Given(q, g, m) /\ ~Taken(p, g, m) /\ m # m0
        BY <1>8, <2>3, <3>2 DEF Pending, g
      <4>3. Pending(q, p, m) => m = m0 BY <1>1, <2>4, PendingRound DEF m0
      <4> QED BY <4>2, <4>3 DEF Pending, g
    <3>4. net'[<<q, p, 1>>] = <<>>
      <4>1. <<s, r, 1>> \in DOMAIN net BY <1>1, <1>4 DEF NumberingType
      <4>2. net'[<<s, r, 1>>] = Tail(net[<<s, r, 1>>]) BY <1>2, <4>1
      <4>3. Tail(<<Say(s, m0)>>) = <<>> OBVIOUS
      <4> QED BY <1>7, <2>4, <4>2, <4>3
    <3>5. Given(q, g, m0) BY <1>7, <2>4 DEF Pending, g
    <3>6. \A m \in 1 .. 4 : (Ring(m) /\ Taken(p, Gap(q, p), m) => Given(q, Gap(q, p), m))'
      <4>1. TAKE m \in 1 .. 4
      <4>2. Ring(m) /\ Taken(p, g, m) => Given(q, g, m) BY <2>1 DEF Channel, g
      <4>3. Ring(m) /\ Taken(p, g, m)' => Given(q, g, m)' BY <2>3, <3>2, <3>5, <4>2
      <4> QED BY <1>8, <4>3 DEF g
    <3> QED BY <3>3, <3>4, <3>6 DEF Channel
  <2>5. CASE ~(q = s /\ p = r)
    <3>1. \A m \in 1 .. 4 : Taken(p, g, m)' <=> Taken(p, g, m)
      <4>1. CASE p # r BY <1>2, <4>1, OthersStand
      <4>2. CASE p = r
        <5>1. g # j BY <1>4, <1>14, <2>5, <4>2, Gaps
        <5> HIDE DEF g
        <5> QED BY <1>13, <2>2, <4>2, <5>1
      <4> QED BY <4>1, <4>2
    <3>2. net'[<<q, p, 1>>] = net[<<q, p, 1>>]
      <4>1. <<q, p, 1>> \in DOMAIN net /\ <<q, p, 1>> # <<s, r, 1>>
        BY <1>1, <2>5 DEF NumberingType
      <4> QED BY <1>2, <4>1
    <3> HIDE DEF g
    <3>3. \A m \in 1 .. 4 : Pending(q, p, m)' <=> Pending(q, p, m)
      BY <1>8, <2>3, <3>1 DEF Pending, g
    <3>4. \A m \in 1 .. 4 : (Ring(m) /\ Taken(p, Gap(q, p), m) => Given(q, Gap(q, p), m))'
      BY <1>8, <2>1, <2>3, <3>1 DEF Channel, g
    <3>5. \A m \in 1 .. 4 : (Pending(q, p, m) => net[<<q, p, 1>>] = <<Say(q, m)>>)'
      BY <1>9, <2>1, <3>2, <3>3 DEF Channel
    <3>6. ((\A m \in 1 .. 4 : ~Pending(q, p, m)) => net[<<q, p, 1>>] = <<>>)'
      BY <2>1, <3>2, <3>3 DEF Channel
    <3> QED BY <3>4, <3>5, <3>6 DEF Channel
  <2> QED BY <2>4, <2>5
<1> QED BY <1>12, <1>14 DEF ChannelsInv

------------------------------------------------------------------------------
(* One action at a time *)

(* A result stays while the rank does not write to it.                     *)
LEMMA ResultStays ==
  ASSUME space' = space, NEW r, NEW b, NEW k,
         array'[r][b] = array[r][b], range'[r][b] = range[r][b],
         shared'[r][b] = shared[r][b], ghosts'[r][b] = ghosts[r][b], Result(r, b, k)
  PROVE  Result(r, b, k)'
<1>1. /\ DofsOf(space, r)' = DofsOf(space, r) /\ SharedEntities(r)' = SharedEntities(r)
      /\ RangeOf(k, r)' = RangeOf(k, r) /\ Lost(k, r)' = Lost(k, r)
      /\ \A d : NumberOf(k, d)' = NumberOf(k, d)
  BY StaticUnchanged
<1>2. (array[r][b] = [d \in DofsOf(space, r) |-> NumberOf(k, d)])' BY <1>1 DEF Result
<1>3. (range[r][b] = RangeOf(k, r))' BY <1>1 DEF Result
<1>4. (ghosts[r][b] = {NumberOf(k, d) : d \in Lost(k, r)})' BY <1>1 DEF Result
<1>5. (shared[r][b] = {NumberOf(k, d) : d \in SharedEntities(r)})' BY <1>1 DEF Result
<1> QED BY <1>2, <1>3, <1>4, <1>5 DEF Result

(* What a rank knows of the numbers stays when it does not write.          *)
LEMMA CountsStay ==
  ASSUME space' = space, NEW r, NEW b, NEW k, NEW j, Counts(r, b, k, j),
         sendbuf'[r] = sendbuf[r], ufcGhosts'[r] = ufcGhosts[r],
         array'[r] = array[r], range'[r] = range[r], shared'[r] = shared[r], ghosts'[r] = ghosts[r]
  PROVE  Counts(r, b, k, j)'
<1>1. /\ Numbers(k, r)' = Numbers(k, r) /\ SharedEntities(r)' = SharedEntities(r)
      /\ Kept(k, r)' = Kept(k, r) /\ Told(k, r, j)' = Told(k, r, j)
      /\ DofsOf(space, r)' = DofsOf(space, r) /\ RangeOf(k, r)' = RangeOf(k, r)
      /\ \A d : NumberOf(k, d)' = NumberOf(k, d)
  BY StaticUnchanged
<1>2. (array[r][b] = [d \in DofsOf(space, r) |-> array[r][b][d]])'
  <2>1. array[r][b] = [d \in DofsOf(space, r) |-> array[r][b][d]] BY DEF Counts
  <2> QED BY <1>1, <2>1
<1>3. /\ (sendbuf[r] = Numbers(k, r))'
      /\ (ufcGhosts[r] = DofsOf(space, r) \ Told(k, r, j))'
      /\ (range[r][b] = RangeOf(k, r))'
      /\ (\A d \in Told(k, r, j) : array[r][b][d] = NumberOf(k, d))'
  BY <1>1 DEF Counts
<1>4. \A S : {NumberOf(k, d)' : d \in S} = {NumberOf(k, d) : d \in S} BY <1>1
<1>5. (ghosts[r][b] = {NumberOf(k, d) : d \in Told(k, r, j) \ Kept(k, r)})'
  <2>1. (Told(k, r, j) \ Kept(k, r))' = Told(k, r, j) \ Kept(k, r) BY <1>1
  <2> QED BY <1>4, <2>1 DEF Counts
<1>6. (shared[r][b] = {NumberOf(k, d) : d \in Told(k, r, j) \cap SharedEntities(r)})'
  <2>1. (Told(k, r, j) \cap SharedEntities(r))' = Told(k, r, j) \cap SharedEntities(r) BY <1>1
  <2> QED BY <1>4, <2>1 DEF Counts
<1> QED BY <1>2, <1>3, <1>5, <1>6 DEF Counts

(* A rank that a step leaves alone is where it was.                        *)
LEMMA RankStays ==
  ASSUME space' = space, NEW q, RankInv(q),
         pc'[q] = pc[q] /\ map'[q] = map[q] /\ round'[q] = round[q],
         sendbuf'[q] = sendbuf[q], ufcShared'[q] = ufcShared[q] /\ ufcGhosts'[q] = ufcGhosts[q],
         array'[q] = array[q] /\ range'[q] = range[q],
         shared'[q] = shared[q] /\ ghosts'[q] = ghosts[q]
  PROVE  RankInv(q)'
<1>1. /\ pc'[q] = pc[q] /\ map'[q] = map[q] /\ round'[q] = round[q]
      /\ sendbuf'[q] = sendbuf[q]
      /\ ufcShared'[q] = ufcShared[q] /\ ufcGhosts'[q] = ufcGhosts[q]
      /\ array'[q] = array[q] /\ range'[q] = range[q]
      /\ shared'[q] = shared[q] /\ ghosts'[q] = ghosts[q]
      /\ space' = space
  OBVIOUS
<1>2. Passed(q)' = Passed(q) BY DEF Passed
<1>3. Voted(q) => Voted(q)'
  <2>1. /\ Votes(q)' = Votes(q) /\ SharedEntities(q)' = SharedEntities(q)
        /\ \A j : Outvoted(q, j)' = Outvoted(q, j)
    BY <1>1, StaticUnchanged
  <2>2. Outvoted(q, round[q])' = Outvoted(q, round[q])
    <3>1. Outvoted(q, round[q])' = Outvoted(q, round'[q])
      BY <1>1 DEF Outvoted, SharedEntities, Beats, Loses, Vote, Fresh, FirstDraw
    <3> QED BY <1>1, <3>1
  <2> QED BY <1>1, <2>1, <2>2 DEF Voted
<1>4. Settled(q) => Settled(q)'
  <2> DEFINE k == space.kind[map[q]]
  <2>1. /\ Lost(k, q)' = Lost(k, q)
        /\ Kept(k, q)' = Kept(k, q) /\ SharedEntities(q)' = SharedEntities(q)
    BY <1>1 DEF Lost, Kept, Keeper, Elected, Beats, Loses, Vote, Fresh, FirstDraw, SharedEntities
  <2> QED BY <1>1, <2>1 DEF Settled
<1>5. Counts(q, map[q], space.kind[map[q]], round[q])
        => Counts(q, map[q], space.kind[map[q]], round[q])'
  <2> SUFFICES ASSUME NEW b, b = map[q], NEW k, k = space.kind[b], NEW j, j = round[q],
                      Counts(q, b, k, j)
               PROVE  Counts(q, map[q], space.kind[map[q]], round[q])'
    OBVIOUS
  <2>2. Counts(q, b, k, j)' BY <1>1, CountsStay
  <2>3. b = map'[q] /\ k = space'.kind[b] /\ j = round'[q] BY <1>1
  <2> QED BY <2>2, <2>3
<1>6. ASSUME NEW b \in 1 .. 2, Result(q, b, space.kind[b]) PROVE Result(q, b, space.kind[b])'
  <2>1. PICK k : k = space.kind[b] OBVIOUS
  <2>2. Result(q, b, k)' BY <1>1, <1>6, <2>1, ResultStays
  <2>3. k = space'.kind[b] BY <1>1, <2>1
  <2> QED BY <2>2, <2>3
<1> QED BY <1>1, <1>2, <1>3, <1>4, <1>5, <1>6 DEF RankInv

(* A step of one rank keeps what is known of the others.                   *)
LEMMA OtherRanks ==
  ASSUME NEW r \in Rank, OthersStill(r), NEW q \in Rank \ {r}, RankInv(q)
  PROVE  RankInv(q)'
BY RankStays DEF OthersStill

(* What a rank may contribute.                                             *)
Fits(c, r, v) ==
  \A b \in 1 .. 2 :
    /\ c = <<"votes max", b>> => Passed(r) >= 2 * b - 2
    /\ c = <<"offset", b>> => v = Cardinality(Kept(space.kind[b], r))
    /\ c = <<"numbers max", b>> => Passed(r) >= 2 * b - 1
    /\ c = <<"ranges", 1>> => Passed(r) = 4
CollStep(r) ==
  coll' = coll \/ \E c \in DOMAIN coll : \E v : Contribute(c, r, v) /\ Fits(c, r, v)

(* A contribution adds an entry to one reduction.                          *)
LEMMA ContributeAdds ==
  ASSUME NEW c \in DOMAIN coll, NEW r, NEW v, Contribute(c, r, v)
  PROVE  /\ DOMAIN coll' = DOMAIN coll
         /\ DOMAIN coll'[c] = DOMAIN coll[c] \cup {r} /\ coll'[c][r] = v
         /\ \A q \in DOMAIN coll[c] : coll'[c][q] = coll[c][q]
         /\ \A e \in DOMAIN coll \ {c} : coll'[e] = coll[e]
<1>1. /\ r \notin DOMAIN coll[c]
      /\ coll' = [coll EXCEPT ![c] =
           [q \in DOMAIN coll[c] \cup {r} |-> IF q = r THEN v ELSE coll[c][q]]]
  BY DEF Contribute
<1>2. coll'[c] = [q \in DOMAIN coll[c] \cup {r} |-> IF q = r THEN v ELSE coll[c][q]] BY <1>1
<1>3. DOMAIN coll'[c] = DOMAIN coll[c] \cup {r} /\ coll'[c][r] = v BY <1>2
<1>4. \A q \in DOMAIN coll[c] : coll'[c][q] = coll[c][q] BY <1>1, <1>2
<1>5. DOMAIN coll' = DOMAIN coll /\ \A e \in DOMAIN coll \ {c} : coll'[e] = coll[e] BY <1>1
<1> QED BY <1>3, <1>4, <1>5

(* A contribution that fits the progress of its rank keeps what is known   *)
(* of the reductions.                                                      *)
LEMMA CollKept ==
  ASSUME NumberingType, CollInv, NEW r \in Rank, space' = space, CollStep(r),
         \A q \in Rank : Passed(q) \in 0 .. 4 /\ Passed(q)' \in 0 .. 4 /\ Passed(q) <= Passed(q)'
  PROVE  CollInv' /\ DOMAIN coll' = DOMAIN coll
<1>1. \A k, q : Kept(k, q)' = Kept(k, q) BY StaticUnchanged
<1>2. CASE coll' = coll
  <2>1. ASSUME NEW q \in Rank, NEW b \in 1 .. 2
        PROVE (/\ q \in DOMAIN coll[<<"votes max", b>>] => Passed(q) >= 2 * b - 2
               /\ q \in DOMAIN coll[<<"offset", b>>] =>
                    coll[<<"offset", b>>][q] = Cardinality(Kept(space.kind[b], q))
               /\ q \in DOMAIN coll[<<"numbers max", b>>] => Passed(q) >= 2 * b - 1
               /\ q \in DOMAIN coll[<<"ranges", 1>>] => Passed(q) = 4)'
    <3>1. PICK k : k = space.kind[b] OBVIOUS
    <3>2. Cardinality(Kept(k, q))' = Cardinality(Kept(k, q)) BY <1>1
    <3>3. /\ q \in DOMAIN coll[<<"votes max", b>>] => Passed(q) >= 2 * b - 2
          /\ q \in DOMAIN coll[<<"offset", b>>] =>
                    coll[<<"offset", b>>][q] = Cardinality(Kept(k, q))
          /\ q \in DOMAIN coll[<<"numbers max", b>>] => Passed(q) >= 2 * b - 1
          /\ q \in DOMAIN coll[<<"ranges", 1>>] => Passed(q) = 4
      BY <3>1 DEF CollInv
    <3>4. (q \in DOMAIN coll[<<"offset", b>>] =>
                    coll[<<"offset", b>>][q] = Cardinality(Kept(k, q)))'
      BY <1>1, <1>2, <3>3
    <3>5. k = space'.kind[b] BY <3>1
    <3>6. (q \in DOMAIN coll[<<"offset", b>>] =>
                    coll[<<"offset", b>>][q] = Cardinality(Kept(space.kind[b], q)))'
      BY <3>4, <3>5
    <3>7. Passed(q) \in 0 .. 4 /\ Passed(q)' \in 0 .. 4 /\ Passed(q) <= Passed(q)' OBVIOUS
    <3>8. /\ Passed(q) >= 2 * b - 2 => Passed(q)' >= 2 * b - 2
          /\ Passed(q) >= 2 * b - 1 => Passed(q)' >= 2 * b - 1
          /\ Passed(q) = 4 => Passed(q)' = 4
      BY <3>7
    <3>9. (q \in DOMAIN coll[<<"votes max", b>>] => Passed(q) >= 2 * b - 2)' BY <1>2, <3>3, <3>8
    <3>10. (q \in DOMAIN coll[<<"numbers max", b>>] => Passed(q) >= 2 * b - 1)'
      BY <1>2, <3>3, <3>8
    <3>11. (q \in DOMAIN coll[<<"ranges", 1>>] => Passed(q) = 4)' BY <1>2, <3>3, <3>8
    <3> QED BY <3>6, <3>9, <3>10, <3>11
  <2> QED BY <1>2, <2>1 DEF CollInv
<1>3. CASE \E c \in DOMAIN coll : \E v : Contribute(c, r, v) /\ Fits(c, r, v)
  <2>0. PICK c \in DOMAIN coll : \E v : Contribute(c, r, v) /\ Fits(c, r, v) BY <1>3
  <2>1. PICK v : c \in DOMAIN coll /\ Contribute(c, r, v) /\ Fits(c, r, v) BY <2>0
  <2>2. /\ DOMAIN coll' = DOMAIN coll
        /\ DOMAIN coll'[c] = DOMAIN coll[c] \cup {r} /\ coll'[c][r] = v
        /\ \A q \in DOMAIN coll[c] : coll'[c][q] = coll[c][q]
        /\ \A e \in DOMAIN coll \ {c} : coll'[e] = coll[e]
    BY <2>1, ContributeAdds
  <2>3. ASSUME NEW e \in DOMAIN coll, NEW q, q \in DOMAIN coll'[e]
        PROVE  \/ q \in DOMAIN coll[e] /\ coll'[e][q] = coll[e][q]
               \/ e = c /\ q = r /\ coll'[e][q] = v
    BY <2>2, <2>3
  <2>4. ASSUME NEW q \in Rank, NEW b \in 1 .. 2
        PROVE (/\ q \in DOMAIN coll[<<"votes max", b>>] => Passed(q) >= 2 * b - 2
               /\ q \in DOMAIN coll[<<"offset", b>>] =>
                    coll[<<"offset", b>>][q] = Cardinality(Kept(space.kind[b], q))
               /\ q \in DOMAIN coll[<<"numbers max", b>>] => Passed(q) >= 2 * b - 1
               /\ q \in DOMAIN coll[<<"ranges", 1>>] => Passed(q) = 4)'
    <3>1. PICK k : k = space.kind[b] OBVIOUS
    <3>2. /\ q \in DOMAIN coll[<<"votes max", b>>] => Passed(q) >= 2 * b - 2
          /\ q \in DOMAIN coll[<<"offset", b>>] =>
                    coll[<<"offset", b>>][q] = Cardinality(Kept(k, q))
          /\ q \in DOMAIN coll[<<"numbers max", b>>] => Passed(q) >= 2 * b - 1
          /\ q \in DOMAIN coll[<<"ranges", 1>>] => Passed(q) = 4
      BY <3>1 DEF CollInv
    <3>3. /\ c = <<"votes max", b>> => Passed(r) >= 2 * b - 2
          /\ c = <<"offset", b>> => v = Cardinality(Kept(k, r))
          /\ c = <<"numbers max", b>> => Passed(r) >= 2 * b - 1
          /\ c = <<"ranges", 1>> => Passed(r) = 4
      BY <2>1, <3>1 DEF Fits
    <3>4. /\ <<"votes max", b>> \in DOMAIN coll /\ <<"offset", b>> \in DOMAIN coll
          /\ <<"numbers max", b>> \in DOMAIN coll /\ <<"ranges", 1>> \in DOMAIN coll
      BY DEF NumberingType, NumberingReductions, PatternReductions
    <3>5. Passed(q) \in 0 .. 4 /\ Passed(q)' \in 0 .. 4 /\ Passed(q) <= Passed(q)' OBVIOUS
    <3>11. /\ Passed(q) >= 2 * b - 2 => Passed(q)' >= 2 * b - 2
           /\ Passed(q) >= 2 * b - 1 => Passed(q)' >= 2 * b - 1
           /\ Passed(q) = 4 => Passed(q)' = 4
      BY <3>5
    <3>6. (q \in DOMAIN coll[<<"votes max", b>>] => Passed(q) >= 2 * b - 2)'
      BY <2>3, <3>2, <3>3, <3>4, <3>11
    <3>7. (q \in DOMAIN coll[<<"numbers max", b>>] => Passed(q) >= 2 * b - 1)'
      BY <2>3, <3>2, <3>3, <3>4, <3>11
    <3>8. (q \in DOMAIN coll[<<"ranges", 1>>] => Passed(q) = 4)'
      BY <2>3, <3>2, <3>3, <3>4, <3>11
    <3>9. (q \in DOMAIN coll[<<"offset", b>>] =>
                    coll[<<"offset", b>>][q] = Cardinality(Kept(k, q)))'
      BY <1>1, <2>3, <3>2, <3>3, <3>4
    <3>10. k = space'.kind[b] BY <3>1
    <3> QED BY <3>6, <3>7, <3>8, <3>9, <3>10
  <2> QED BY <2>2, <2>4 DEF CollInv
<1> QED BY <1>2, <1>3 DEF CollStep

(* No rank falls back.                                                     *)
LEMMA PassedGrows ==
  ASSUME NumberingType, NumberingType', NEW r \in Rank, OthersStill(r), Passed(r) <= Passed(r)',
         NEW q \in Rank
  PROVE  Passed(q) \in 0 .. 4 /\ Passed(q)' \in 0 .. 4 /\ Passed(q) <= Passed(q)'
<1>1. Passed(q) \in 0 .. 4 BY PassedType
<1>2. Passed(q)' \in 0 .. 4
  <2>1. map'[q] \in 1 .. 2 BY DEF NumberingType
  <2>2. Voting \cap Counting = {} BY DEF Voting, Counting
  <2> QED BY <2>1, <2>2 DEF Passed
<1>3. CASE q = r BY <1>1, <1>2, <1>3
<1>4. CASE q # r
  <2>1. Passed(q)' = Passed(q) BY <1>4, OthersStand
  <2> QED BY <1>1, <1>2, <2>1
<1> QED BY <1>3, <1>4

(* The parts of the invariant after a step of a rank.                      *)
LEMMA Combine ==
  ASSUME NumberingInv, NumberingType', NEW r \in Rank, OthersStill(r),
         Passed(r) <= Passed(r)', CollStep(r), SyncInv', ChannelsInv', RankInv(r)'
  PROVE  NumberingInv'
<1>1. NumberingType /\ CollInv /\ \A q \in Rank : RankInv(q) BY DEF NumberingInv
<1>2. space' = space BY DEF OthersStill
<1>3. \A q \in Rank : Passed(q) \in 0 .. 4 /\ Passed(q)' \in 0 .. 4 /\ Passed(q) <= Passed(q)'
  BY <1>1, PassedGrows
<1>4. CollInv' BY <1>1, <1>2, <1>3, CollKept
<1>5. ASSUME NEW q \in Rank PROVE RankInv(q)'
  <2>1. CASE q = r BY <2>1
  <2>2. CASE q # r BY <1>1, <2>2, OtherRanks
  <2> QED BY <2>1, <2>2
<1> QED BY <1>4, <1>5 DEF NumberingInv

(* A local step.                                                           *)
LEMMA CombineStill ==
  ASSUME NumberingInv, NumberingType', NEW r \in Rank, Still(r), CollStep(r), RankInv(r)'
  PROVE  NumberingInv'
<1>1. SyncInv' /\ ChannelsInv' BY StillStep
<1>2. NumberingType BY DEF NumberingInv
<1>3. Passed(r) \in 0 .. 4 BY <1>2, PassedType
<1>4. OthersStill(r) /\ Passed(r) <= Passed(r)' BY <1>3 DEF Still
<1> QED BY <1>1, <1>4, Combine

(* The parts of the type that most steps do not touch.                     *)
LEMMA TypeKept ==
  ASSUME NumberingType, NEW r \in Rank, OthersStill(r),
         space' = space, DOMAIN coll' = DOMAIN coll, DOMAIN net' = DOMAIN net,
         map' = map \/ map' = [map EXCEPT ![r] = 2],
         round' \in [Rank -> 1 .. (P - 1)], posted' \in [Rank -> BOOLEAN],
         DOMAIN pc' = Rank /\ DOMAIN drawn' = Rank,
         DOMAIN ufcShared' = Rank /\ DOMAIN ufcGhosts' = Rank,
         DOMAIN array' = Rank /\ DOMAIN range' = Rank,
         DOMAIN shared' = Rank /\ DOMAIN ghosts' = Rank, DOMAIN sendbuf' = Rank,
         DOMAIN array'[r] = 1 .. 2 /\ DOMAIN range'[r] = 1 .. 2,
         DOMAIN shared'[r] = 1 .. 2 /\ DOMAIN ghosts'[r] = 1 .. 2,
         pc'[r] \in Numbering \ (NumberingRings \cup {"error"}) => round'[r] = 1 /\ ~posted'[r],
         pc'[r] \notin Numbering => map'[r] = 2
  PROVE  NumberingType'
<1>1. space' \in Spaces /\ map' \in [Rank -> 1 .. 2] BY DEF NumberingType
<1>2. ASSUME NEW q \in Rank
      PROVE  /\ DOMAIN array'[q] = 1 .. 2 /\ DOMAIN range'[q] = 1 .. 2
             /\ DOMAIN shared'[q] = 1 .. 2 /\ DOMAIN ghosts'[q] = 1 .. 2
             /\ pc'[q] \in Numbering \ (NumberingRings \cup {"error"})
                  => round'[q] = 1 /\ ~posted'[q]
             /\ pc'[q] \notin Numbering => map'[q] = 2
  <2>1. CASE q = r BY <2>1
  <2>2. CASE q # r BY <2>2 DEF OthersStill, NumberingType
  <2> QED BY <2>1, <2>2
<1>3. DOMAIN net' = Rank \X Rank \X {0, 1} /\ DOMAIN coll' = NumberingReductions \cup PatternReductions
  BY DEF NumberingType
<1> QED BY <1>1, <1>2, <1>3 DEF NumberingType

(* The results of the earlier numberings stay.                             *)
LEMMA EarlierResults ==
  ASSUME space' = space, NEW r \in Rank, RankInv(r),
         array'[r] = array[r], range'[r] = range[r], shared'[r] = shared[r], ghosts'[r] = ghosts[r]
  PROVE  \A b \in 1 .. 2 : 2 * b <= Passed(r) => Result(r, b, space.kind[b])'
<1>1. ASSUME NEW b \in 1 .. 2, 2 * b <= Passed(r) PROVE Result(r, b, space.kind[b])'
  <2>1. PICK k : k = space.kind[b] OBVIOUS
  <2>2. Result(r, b, k)' BY <1>1, <2>1, ResultStays DEF RankInv
  <2>3. k = space'.kind[b] BY <2>1
  <2> QED BY <2>2, <2>3
<1> QED BY <1>1

(* DofNumbering, one lemma for each step: the draw of the votes.           *)
LEMMA StartVotesKeeps ==
  ASSUME NumberingInv, NEW r \in Rank, StartVotes(r)
  PROVE  NumberingInv'
<1> DEFINE met == ToSet(space.boundary[r])
           votes == [d \in met |-> Vote(r, d)]
           c == <<"votes max", map[r]>>
<1>1. NumberingType /\ RankInv(r) BY DEF NumberingInv
<1>2. /\ pc[r] = "start" /\ space.kind[map[r]] = "votes" /\ space' = space
      /\ pc' = [pc EXCEPT ![r] = "votes max"] /\ map' = map /\ round' = round /\ posted' = posted
      /\ net' = net /\ sendbuf' = [sendbuf EXCEPT ![r] = votes]
      /\ ufcShared' = [ufcShared EXCEPT ![r] = met] /\ ufcGhosts' = [ufcGhosts EXCEPT ![r] = {}]
      /\ array' = array /\ range' = range /\ shared' = shared /\ ghosts' = ghosts
      /\ Contribute(c, r, SizeOf(votes))
      /\ DOMAIN drawn' = DOMAIN drawn
  BY DEF StartVotes, Kind, numbers
<1>3. met = SharedEntities(r) /\ votes = Votes(r) BY <1>1, BoundaryIsShared DEF NumberingType, Votes
<1> HIDE DEF met, votes
<1>4. pc'[r] = "votes max" /\ sendbuf'[r] = votes /\ ufcShared'[r] = met /\ ufcGhosts'[r] = {}
  BY <1>1, <1>2 DEF NumberingType
<1>5. OthersStill(r) BY <1>1, <1>2 DEF NumberingType, OthersStill
<1>6. c \in DOMAIN coll BY <1>1, PassedType DEF NumberingType, NumberingReductions
<1>7. Passed(r) = 2 * map[r] - 2 /\ Passed(r)' = Passed(r) /\ map[r] \in 1 .. 2
  BY <1>1, <1>2, <1>4, PassedType DEF Passed, Voting
<1>8. CollStep(r)
  <2>1. Fits(c, r, SizeOf(votes)) BY <1>7 DEF Fits
  <2> QED BY <1>2, <1>6, <2>1 DEF CollStep
<1>9. DOMAIN coll' = DOMAIN coll BY <1>2, <1>6, ContributeAdds
<1>10. round[r] = 1 /\ ~posted[r]
  BY <1>1, <1>2 DEF NumberingType, Numbering, NumberingRings
<1>11. NumberingType'
  BY <1>1, <1>2, <1>4, <1>5, <1>9, <1>10, TypeKept DEF NumberingType, Numbering, NumberingRings
<1>12. Still(r)
  <2>1. Inside(r)' <=> Inside(r) BY <1>2, <1>4 DEF Inside, NumberingRings
  <2>2. pc'[r] \in Counted BY <1>4 DEF Counted, Numbering
  <2>9. pc[r] \in Building BY <1>2 DEF Building, Counted, Numbering, NumberingRings
  <2> QED BY <1>2, <1>5, <1>7, <2>1, <2>2, <2>9 DEF Still
<1>13. RankInv(r)'
  <2>1. Voted(r)'
    <3>1. /\ Votes(r)' = Votes(r) /\ SharedEntities(r)' = SharedEntities(r)
          /\ Outvoted(r, 1)' = Outvoted(r, 1)
      BY <1>2, StaticUnchanged
    <3>2. Outvoted(r, 1) = {} BY <1>1, OutvotedRounds DEF NumberingType
    <3>3. round'[r] = 1 BY <1>2, <1>10
    <3>4. Outvoted(r, round[r])' = {} BY <3>1, <3>2, <3>3
    <3> QED BY <1>2, <1>3, <1>4, <3>1, <3>4 DEF Voted
  <2>2. \A b \in 1 .. 2 : (2 * b <= Passed(r) => Result(r, b, space.kind[b]))'
    BY <1>1, <1>2, <1>7, EarlierResults
  <2> QED BY <1>4, <2>1, <2>2 DEF RankInv
<1> QED BY <1>8, <1>11, <1>12, <1>13, CombineStill

(* The maximum that sizes a buffer, of votes or of numbers.                *)
LEMMA EndMaxKeeps ==
  ASSUME NumberingInv, NEW r \in Rank, NEW name, NEW next,
         \/ name = "votes max" /\ next = "votes"
         \/ name = "numbers max" /\ next = "numbers",
         EndMax(r, <<name, map[r]>>, next)
  PROVE  NumberingInv'
<1> DEFINE c == <<name, map[r]>>
<1>1. NumberingType /\ RankInv(r) BY DEF NumberingInv
<1>2. /\ pc[r] = name /\ Reduced(c) /\ pc' = [pc EXCEPT ![r] = next]
      /\ space' = space /\ map' = map /\ round' = round /\ posted' = posted
      /\ net' = net /\ coll' = coll /\ sendbuf' = sendbuf
      /\ ufcShared' = ufcShared /\ ufcGhosts' = ufcGhosts /\ drawn' = drawn
      /\ array' = array /\ range' = range /\ shared' = shared /\ ghosts' = ghosts
  BY DEF EndMax, numbering, mpi, flags, numbers
<1>3. pc'[r] = next BY <1>1, <1>2 DEF NumberingType
<1>4. OthersStill(r) BY <1>1, <1>2 DEF NumberingType, OthersStill
<1>5. /\ Passed(r)' = Passed(r) /\ map[r] \in 1 .. 2
      /\ name = "votes max" => Passed(r) = 2 * map[r] - 2
      /\ name = "numbers max" => Passed(r) = 2 * map[r] - 1
  <2>1. Voting \cap Counting = {} BY DEF Voting, Counting
  <2>2. pc[r] \in Voting <=> pc'[r] \in Voting BY <1>2, <1>3 DEF Voting
  <2>3. pc[r] \in Counting <=> pc'[r] \in Counting BY <1>2, <1>3 DEF Counting
  <2>4. Passed(r)' = Passed(r) BY <1>2, <2>2, <2>3 DEF Passed
  <2>5. map[r] \in 1 .. 2 BY <1>1, PassedType
  <2>6. name = "votes max" => Passed(r) = 2 * map[r] - 2 BY <1>1, <1>2, PassedType DEF Voting
  <2>7. name = "numbers max" => Passed(r) = 2 * map[r] - 1 BY <1>1, <1>2, PassedType DEF Counting
  <2> QED BY <2>4, <2>5, <2>6, <2>7
<1>6. round[r] = 1 /\ ~posted[r]
  BY <1>1, <1>2 DEF NumberingType, Numbering, NumberingRings
<1>7. NumberingType'
  BY <1>1, <1>2, <1>3, <1>4, TypeKept DEF NumberingType, Numbering, NumberingRings
<1>8. \A q \in Rank : Passed(q) >= Passed(r)
  <2>1. \A q \in Rank : q \in DOMAIN coll[c] BY <1>2 DEF Reduced
  <2>2. CollInv BY DEF NumberingInv
  <2>3. CASE name = "votes max"
    <3>1. \A q \in Rank : Passed(q) >= 2 * map[r] - 2 BY <1>5, <2>1, <2>2, <2>3 DEF CollInv
    <3> QED BY <1>5, <2>3, <3>1
  <2>4. CASE name = "numbers max"
    <3>1. \A q \in Rank : Passed(q) >= 2 * map[r] - 1 BY <1>5, <2>1, <2>2, <2>4 DEF CollInv
    <3> QED BY <1>5, <2>4, <3>1
  <2> QED BY <2>3, <2>4
<1>9. Still(r)
  <2>1. ~Inside(r) BY <1>2 DEF Inside, NumberingRings
  <2>2. pc'[r] \in Counted BY <1>3 DEF Counted, Numbering, NumberingRings
  <2>9. pc[r] \in Building BY <1>2 DEF Building, Counted, Numbering, NumberingRings
  <2> QED BY <1>2, <1>4, <1>5, <1>6, <1>8, <2>1, <2>2, <2>9 DEF Still
<1>10. RankInv(r)'
  <2>1. name = "votes max" => Voted(r)'
    <3>1. SUFFICES ASSUME name = "votes max" PROVE Voted(r)' OBVIOUS
    <3>2. Voted(r) BY <1>1, <1>2, <3>1 DEF RankInv
    <3>3. /\ Votes(r)' = Votes(r) /\ SharedEntities(r)' = SharedEntities(r)
          /\ Outvoted(r, 1)' = Outvoted(r, 1)
      BY <1>2, StaticUnchanged
    <3>4. Outvoted(r, round[r])' = Outvoted(r, round[r]) BY <1>2, <1>6, <3>3
    <3> QED BY <1>2, <3>2, <3>3, <3>4 DEF Voted
  <2>2. name = "numbers max" => Counts(r, map[r], space.kind[map[r]], round[r])'
    <3>1. SUFFICES ASSUME name = "numbers max", NEW b, b = map[r], NEW k, k = space.kind[b]
                   PROVE  Counts(r, map[r], space.kind[map[r]], round[r])'
      OBVIOUS
    <3>2. Counts(r, b, k, 1) BY <1>1, <1>2, <1>6, <3>1 DEF RankInv
    <3>4. Counts(r, b, k, 1)' BY <1>2, <3>2, CountsStay
    <3>5. b = map'[r] /\ k = space'.kind[b] /\ 1 = round'[r] BY <1>2, <1>6, <3>1
    <3> QED BY <3>4, <3>5
  <2>3. \A b \in 1 .. 2 : (2 * b <= Passed(r) => Result(r, b, space.kind[b]))'
    BY <1>1, <1>2, <1>5, EarlierResults
  <2> QED BY <1>3, <2>1, <2>2, <2>3 DEF RankInv
<1> QED BY <1>2, <1>7, <1>9, <1>10, CombineStill DEF CollStep

(* The numbering by entities takes the owners of the mesh.                 *)
LEMMA StartEntitiesKeeps ==
  ASSUME NumberingInv, NEW r \in Rank, StartEntities(r)
  PROVE  NumberingInv'
<1> DEFINE there == {d \in SharedEntities(r) : space.owner[d] # r}
<1>1. NumberingType /\ RankInv(r) /\ space \in Spaces BY DEF NumberingInv, NumberingType
<1>2. /\ pc[r] = "start" /\ space.kind[map[r]] = "entities" /\ pc' = [pc EXCEPT ![r] = "owned"]
      /\ space' = space /\ map' = map /\ round' = round /\ posted' = posted
      /\ net' = net /\ coll' = coll /\ sendbuf' = sendbuf /\ drawn' = drawn
      /\ ufcGhosts' = [ufcGhosts EXCEPT ![r] = there]
      /\ ufcShared' = [ufcShared EXCEPT ![r] = SharedEntities(r) \ there]
      /\ array' = array /\ range' = range /\ shared' = shared /\ ghosts' = ghosts
  BY DEF StartEntities, Kind, mpi, numbers, buffers
<1>3. there = Lost("entities", r) /\ SharedEntities(r) \ there = SharedEntities(r) \cap Kept("entities", r)
  <2>1. "entities" \in Kinds BY DEF Kinds
  <2>2. \A d : Keeper("entities", d) = space.owner[d] BY DEF Keeper
  <2>3. /\ Lost("entities", r) \subseteq SharedEntities(r)
        /\ SharedEntities(r) \subseteq DofsOf(space, r) BY <1>1, <2>1, KeptAndLost
  <2>4. there = Lost("entities", r) BY <2>2, <2>3 DEF Lost
  <2>5. SharedEntities(r) \ there = SharedEntities(r) \cap Kept("entities", r)
    BY <2>2, <2>3 DEF Kept
  <2> QED BY <2>4, <2>5
<1> HIDE DEF there
<1>4. pc'[r] = "owned" /\ ufcGhosts'[r] = there /\ ufcShared'[r] = SharedEntities(r) \ there
  BY <1>1, <1>2 DEF NumberingType
<1>5. OthersStill(r) BY <1>1, <1>2 DEF NumberingType, OthersStill
<1>6. Passed(r) = 2 * map[r] - 2 /\ Passed(r)' = 2 * map[r] - 1 /\ map[r] \in 1 .. 2
  <2>1. Passed(r) = 2 * map[r] - 2 /\ map[r] \in 1 .. 2 BY <1>1, <1>2, PassedType DEF Voting
  <2>2. pc'[r] \notin Voting /\ pc'[r] \in Counting BY <1>4 DEF Voting, Counting
  <2>3. Passed(r)' = 2 * map'[r] - 1 BY <2>2 DEF Passed
  <2> QED BY <1>2, <2>1, <2>3
<1>7. round[r] = 1 /\ ~posted[r]
  BY <1>1, <1>2 DEF NumberingType, Numbering, NumberingRings
<1>8. NumberingType'
  BY <1>1, <1>2, <1>4, <1>5, <1>7, TypeKept DEF NumberingType, Numbering, NumberingRings
<1>9. Still(r)
  <2>1. ~Inside(r) /\ ~Inside(r)' BY <1>2, <1>4 DEF Inside, NumberingRings
  <2>2. pc'[r] \in Counted BY <1>4 DEF Counted, Numbering
  <2>3. ~Ring(Passed(r) + 1)
    <3>1. CASE map[r] = 1
      <4>1. Passed(r) + 1 = 1 BY <1>6, <3>1
      <4>2. space.kind[1] # "votes" BY <1>2, <3>1
      <4> QED BY <4>1, <4>2 DEF Ring
    <3>2. CASE map[r] = 2
      <4>1. Passed(r) + 1 = 3 BY <1>6, <3>2
      <4>2. space.kind[2] # "votes" BY <1>2, <3>2
      <4> QED BY <4>1, <4>2 DEF Ring
    <3> QED BY <1>6, <3>1, <3>2
  <2>4. Passed(r)' = Passed(r) + 1 BY <1>6
  <2>9. pc[r] \in Building BY <1>2 DEF Building, Counted, Numbering, NumberingRings
  <2> QED BY <1>2, <1>5, <2>1, <2>2, <2>3, <2>4, <2>9 DEF Still
<1>10. RankInv(r)'
  <2>1. Settled(r)'
    <3> SUFFICES ASSUME NEW k, k = "entities" PROVE Settled(r)' OBVIOUS
    <3>1. /\ Lost(k, r)' = Lost(k, r) /\ Kept(k, r)' = Kept(k, r)
          /\ SharedEntities(r)' = SharedEntities(r)
      BY <1>2, StaticUnchanged
    <3>2. space'.kind[map'[r]] = k BY <1>2
    <3>3. ufcGhosts'[r] = Lost(k, r)' BY <1>3, <1>4, <3>1
    <3>4. ufcShared'[r] = (SharedEntities(r) \cap Kept(k, r))' BY <1>3, <1>4, <3>1
    <3> QED BY <3>2, <3>3, <3>4 DEF Settled
  <2>2. \A b \in 1 .. 2 : (2 * b <= Passed(r) => Result(r, b, space.kind[b]))'
    <3>1. ASSUME NEW b \in 1 .. 2, 2 * b <= Passed(r)' PROVE 2 * b <= Passed(r)
      BY <1>6, <3>1
    <3>2. \A b \in 1 .. 2 : 2 * b <= Passed(r) => Result(r, b, space.kind[b])'
      BY <1>1, <1>2, EarlierResults
    <3> QED BY <3>1, <3>2
  <2> QED BY <1>4, <2>1, <2>2 DEF RankInv
<1> QED BY <1>2, <1>8, <1>9, <1>10, CombineStill DEF CollStep

(* What a rank keeps and loses stays when it does not write.               *)
LEMMA SettledStays ==
  ASSUME space' = space, NEW r, map'[r] = map[r],
         ufcGhosts'[r] = ufcGhosts[r], ufcShared'[r] = ufcShared[r], Settled(r)
  PROVE  Settled(r)'
<1>1. PICK k : k = space.kind[map[r]] OBVIOUS
<1>2. /\ Lost(k, r)' = Lost(k, r) /\ Kept(k, r)' = Kept(k, r)
      /\ SharedEntities(r)' = SharedEntities(r)
  BY StaticUnchanged
<1>3. space'.kind[map'[r]] = k BY <1>1
<1>4. ufcGhosts'[r] = Lost(k, r)' /\ ufcShared'[r] = (SharedEntities(r) \cap Kept(k, r))'
  BY <1>1, <1>2 DEF Settled
<1> QED BY <1>3, <1>4 DEF Settled

(* A rank owns what it keeps.                                              *)
LEMMA OwnedIsKept ==
  ASSUME space \in Spaces, NEW r \in Rank, NEW k \in Kinds, k = space.kind[map[r]], Settled(r)
  PROVE  OwnedDofs(r) = Kept(k, r)
<1>1. ufcGhosts[r] = Lost(k, r) BY DEF Settled
<1>2. Kept(k, r) \cup Lost(k, r) = DofsOf(space, r) /\ Kept(k, r) \cap Lost(k, r) = {}
  BY KeptAndLost
<1> QED BY <1>1, <1>2 DEF OwnedDofs

(* A rank contributes how many dofs it owns.                               *)
LEMMA StartOffsetKeeps ==
  ASSUME NumberingInv, NEW r \in Rank, StartOffset(r)
  PROVE  NumberingInv'
<1> DEFINE c == <<"offset", map[r]>>
           n == Cardinality(OwnedDofs(r))
<1>1. NumberingType /\ RankInv(r) /\ space \in Spaces BY DEF NumberingInv, NumberingType
<1>2. /\ pc[r] = "owned" /\ pc' = [pc EXCEPT ![r] = "offset"] /\ Contribute(c, r, n)
      /\ space' = space /\ map' = map /\ round' = round /\ posted' = posted
      /\ net' = net /\ sendbuf' = sendbuf /\ drawn' = drawn
      /\ ufcShared' = ufcShared /\ ufcGhosts' = ufcGhosts
      /\ array' = array /\ range' = range /\ shared' = shared /\ ghosts' = ghosts
  BY DEF StartOffset, numbering, flags, numbers, buffers
<1>3. Settled(r) BY <1>1, <1>2 DEF RankInv
<1>4. pc'[r] = "offset" BY <1>1, <1>2 DEF NumberingType
<1>5. OthersStill(r) BY <1>1, <1>2 DEF NumberingType, OthersStill
<1>6. map[r] \in 1 .. 2 /\ c \in DOMAIN coll
  BY <1>1, PassedType DEF NumberingType, NumberingReductions
<1>7. Passed(r)' = Passed(r)
  <2>1. pc[r] \in Counting /\ pc'[r] \in Counting BY <1>2, <1>4 DEF Counting
  <2>2. pc[r] \notin Voting /\ pc'[r] \notin Voting BY <1>2, <1>4 DEF Voting
  <2> QED BY <1>2, <2>1, <2>2 DEF Passed
<1>8. CollStep(r)
  <2>1. PICK k : k = space.kind[map[r]] OBVIOUS
  <2>2. k \in Kinds BY <1>1, <1>6, <2>1, KindOK
  <2>3. n = Cardinality(Kept(k, r)) BY <1>1, <1>3, <2>1, <2>2, OwnedIsKept
  <2> HIDE DEF n
  <2>4. Fits(c, r, n) BY <2>1, <2>3 DEF Fits
  <2> QED BY <1>2, <1>6, <2>4 DEF CollStep
<1>9. DOMAIN coll' = DOMAIN coll BY <1>2, <1>6, ContributeAdds
<1>10. round[r] = 1 /\ ~posted[r]
  BY <1>1, <1>2 DEF NumberingType, Numbering, NumberingRings
<1>11. NumberingType'
  BY <1>1, <1>2, <1>4, <1>5, <1>9, <1>10, TypeKept DEF NumberingType, Numbering, NumberingRings
<1>12. Still(r)
  <2>1. Inside(r)' <=> Inside(r) BY <1>2, <1>4 DEF Inside, NumberingRings
  <2>2. pc'[r] \in Counted BY <1>4 DEF Counted, Numbering
  <2>9. pc[r] \in Building BY <1>2 DEF Building, Counted, Numbering, NumberingRings
  <2> QED BY <1>2, <1>5, <1>7, <2>1, <2>2, <2>9 DEF Still
<1>13. RankInv(r)'
  <2>1. Settled(r)' BY <1>2, <1>3, SettledStays
  <2>2. \A b \in 1 .. 2 : (2 * b <= Passed(r) => Result(r, b, space.kind[b]))'
    BY <1>1, <1>2, <1>7, EarlierResults
  <2> QED BY <1>4, <2>1, <2>2 DEF RankInv
<1> QED BY <1>8, <1>11, <1>12, <1>13, CombineStill

(* A numbering of one dof map leaves the other as it is.                   *)
LEMMA OtherResults ==
  ASSUME NumberingType, space' = space, NEW r \in Rank, RankInv(r), NEW b0 \in 1 .. 2, NEW p \in Int,
         p < 2 * b0, p <= Passed(r),
         \A b \in 1 .. 2 : b # b0 =>
           /\ array'[r][b] = array[r][b] /\ range'[r][b] = range[r][b]
           /\ shared'[r][b] = shared[r][b] /\ ghosts'[r][b] = ghosts[r][b]
  PROVE  \A b \in 1 .. 2 : 2 * b <= p => Result(r, b, space.kind[b])'
<1>1. ASSUME NEW b \in 1 .. 2, 2 * b <= p PROVE Result(r, b, space.kind[b])'
  <2>1. PICK k : k = space.kind[b] OBVIOUS
  <2>2. b # b0 BY <1>1
  <2>3. Passed(r) \in 0 .. 4 BY PassedType
  <2>4. 2 * b <= Passed(r) BY <1>1, <2>3
  <2>5. Result(r, b, k) BY <2>1, <2>4 DEF RankInv
  <2>6. Result(r, b, k)' BY <2>2, <2>5, ResultStays
  <2>7. k = space'.kind[b] BY <2>1
  <2> QED BY <2>6, <2>7
<1> QED BY <1>1

(* What a rank knows when it has numbered the dofs it keeps.               *)
LEMMA CountsBegin ==
  ASSUME space \in Spaces, space' = space, NEW r \in Rank, NEW b \in 1 .. 2, NEW k \in Kinds,
         ufcGhosts'[r] = Lost(k, r), sendbuf'[r] = Numbers(k, r),
         range'[r][b] = RangeOf(k, r),
         array'[r][b] = [d \in DofsOf(space, r) |-> array'[r][b][d]],
         \A d \in Kept(k, r) : array'[r][b][d] = NumberOf(k, d), ghosts'[r][b] = {},
         shared'[r][b] = {NumberOf(k, d) : d \in Kept(k, r) \cap SharedEntities(r)}
  PROVE  Counts(r, b, k, 1)'
<1>1. /\ Numbers(k, r)' = Numbers(k, r) /\ SharedEntities(r)' = SharedEntities(r)
      /\ Kept(k, r)' = Kept(k, r) /\ Told(k, r, 1)' = Told(k, r, 1)
      /\ DofsOf(space, r)' = DofsOf(space, r) /\ RangeOf(k, r)' = RangeOf(k, r)
      /\ \A d : NumberOf(k, d)' = NumberOf(k, d)
  BY StaticUnchanged
<1>2. Told(k, r, 1) = Kept(k, r) BY ToldRounds
<1>3. /\ Kept(k, r) \cup Lost(k, r) = DofsOf(space, r) /\ Kept(k, r) \cap Lost(k, r) = {}
  BY KeptAndLost
<1>4. (sendbuf[r] = Numbers(k, r))' BY <1>1
<1>5. (ufcGhosts[r] = DofsOf(space, r) \ Told(k, r, 1))' BY <1>1, <1>2, <1>3
<1>6. (range[r][b] = RangeOf(k, r))' BY <1>1
<1>7. (array[r][b] = [d \in DofsOf(space, r) |-> array[r][b][d]])' BY <1>1
<1>8. (\A d \in Told(k, r, 1) : array[r][b][d] = NumberOf(k, d))' BY <1>1, <1>2
<1>9. \A S : {NumberOf(k, d)' : d \in S} = {NumberOf(k, d) : d \in S} BY <1>1
<1>10. (ghosts[r][b] = {NumberOf(k, d) : d \in Told(k, r, 1) \ Kept(k, r)})'
  <2>1. (Told(k, r, 1) \ Kept(k, r))' = {} BY <1>1, <1>2
  <2>2. {NumberOf(k, d)' : d \in {}} = {} OBVIOUS
  <2> QED BY <2>1, <2>2
<1>11. (shared[r][b] = {NumberOf(k, d) : d \in Told(k, r, 1) \cap SharedEntities(r)})'
  <2>1. (Told(k, r, 1) \cap SharedEntities(r))' = Kept(k, r) \cap SharedEntities(r)
    BY <1>1, <1>2
  <2> QED BY <1>9, <2>1
<1> QED BY <1>4, <1>5, <1>6, <1>7, <1>8, <1>10, <1>11 DEF Counts

(* The scan gives a rank the first of its numbers.                         *)
LEMMA EndOffsetKeeps ==
  ASSUME NumberingInv, NEW r \in Rank, EndOffset(r)
  PROVE  NumberingInv'
<1> DEFINE b == map[r]
           k == space.kind[b]
           c == <<"offset", b>>
           e == <<"numbers max", b>>
           here == OwnedDofs(r)
           offset == SumOf([q \in 0 .. (r - 1) |-> coll[c][q]], r)
           number(d) == offset + Cardinality({x \in here : space.place[x] < space.place[d]})
           told == [d \in here \cap ufcShared[r] |-> number(d)]
<1>1. NumberingType /\ RankInv(r) /\ space \in Spaces /\ CollInv BY DEF NumberingInv, NumberingType
<1>2. /\ pc[r] = "offset" /\ Scanned(c, r)
      /\ range' = [range EXCEPT ![r][b] = [offset |-> offset, size |-> Cardinality(here)]]
      /\ array' = [array EXCEPT ![r][b] = [d \in DofsOf(space, r) |->
                     IF d \in here THEN number(d) ELSE array[r][b][d]]]
      /\ shared' = [shared EXCEPT ![r][b] = {told[d] : d \in DOMAIN told}]
      /\ ghosts' = [ghosts EXCEPT ![r][b] = {}]
      /\ sendbuf' = [sendbuf EXCEPT ![r] = told]
      /\ Contribute(e, r, SizeOf(told))
      /\ pc' = [pc EXCEPT ![r] = "numbers max"]
  BY DEF EndOffset
<1>3. /\ space' = space /\ map' = map /\ round' = round /\ posted' = posted
      /\ net' = net /\ drawn' = drawn /\ ufcShared' = ufcShared /\ ufcGhosts' = ufcGhosts
  BY DEF EndOffset, flags
<1>4. b \in 1 .. 2 /\ k \in Kinds BY <1>1, PassedType, KindOK
<1>5. Settled(r) BY <1>1, <1>2 DEF RankInv
<1>6. here = Kept(k, r) BY <1>1, <1>4, <1>5, OwnedIsKept
<1>7. offset = FirstOf(k, r)
  <2>1. r \in Nat /\ P \in Nat BY PAssumption DEF Rank
  <2>2. ASSUME NEW q \in 0 .. (r - 1) PROVE coll[c][q] = Cardinality(Kept(k, q))
    <3>1. q \in Rank BY PAssumption DEF Rank
    <3>2. q \in DOMAIN coll[c] BY <1>2 DEF Scanned
    <3> QED BY <1>1, <1>4, <3>1, <3>2 DEF CollInv
  <2> DEFINE f == [q \in 0 .. (r - 1) |-> coll[c][q]]
             g == [q \in 0 .. (r - 1) |-> Cardinality(Kept(k, q))]
  <2>3. f = g BY <2>2
  <2>4. offset = SumOf(f, r) /\ FirstOf(k, r) = SumOf(g, r) BY DEF FirstOf
  <2> QED BY <2>3, <2>4
<1> HIDE DEF offset, here, k, b
<1>8. ASSUME NEW d \in here PROVE number(d) = NumberOf(k, d)
  <2>1. Keeper(k, d) = r BY <1>6 DEF Kept
  <2> QED BY <1>6, <1>7, <2>1 DEF NumberOf, PlaceOf
<1>9. told = Numbers(k, r)
  <2>1. ufcShared[r] = SharedEntities(r) \cap Kept(k, r) BY <1>5 DEF Settled, k, b
  <2>2. here \cap ufcShared[r] = SharedEntities(r) \cap Kept(k, r) BY <1>6, <2>1
  <2>3. \A d \in here \cap ufcShared[r] : number(d) = NumberOf(k, d) BY <1>8
  <2> QED BY <2>2, <2>3 DEF Numbers
<1>10. {told[d] : d \in DOMAIN told} = {NumberOf(k, d) : d \in Kept(k, r) \cap SharedEntities(r)}
  <2> HIDE DEF told
  <2> QED BY <1>9 DEF Numbers
<1>11. /\ pc'[r] = "numbers max" /\ sendbuf'[r] = told
       /\ range'[r][b] = [offset |-> offset, size |-> Cardinality(here)]
       /\ array'[r][b] = [d \in DofsOf(space, r) |->
                     IF d \in here THEN number(d) ELSE array[r][b][d]]
       /\ shared'[r][b] = {told[d] : d \in DOMAIN told} /\ ghosts'[r][b] = {}
  <2> HIDE DEF number, told
  <2> QED BY <1>1, <1>2, <1>4 DEF NumberingType
<1>12. \A x \in 1 .. 2 : x # b =>
         /\ array'[r][x] = array[r][x] /\ range'[r][x] = range[r][x]
         /\ shared'[r][x] = shared[r][x] /\ ghosts'[r][x] = ghosts[r][x]
  <2> HIDE DEF number, told
  <2> QED BY <1>1, <1>2, <1>4 DEF NumberingType
<1>13. OthersStill(r)
  <2> HIDE DEF number, told
  <2> QED BY <1>1, <1>2, <1>3 DEF NumberingType, OthersStill
<1>14. e \in DOMAIN coll BY <1>1, <1>4 DEF NumberingType, NumberingReductions
<1>15. DOMAIN coll' = DOMAIN coll
  <2> HIDE DEF e, told
  <2> QED BY <1>2, <1>14, ContributeAdds
<1>16. round[r] = 1 /\ ~posted[r]
  BY <1>1, <1>2 DEF NumberingType, Numbering, NumberingRings
<1>17. NumberingType'
  <2> HIDE DEF number, told
  <2>1. /\ DOMAIN array' = Rank /\ DOMAIN range' = Rank /\ DOMAIN shared' = Rank
        /\ DOMAIN ghosts' = Rank /\ DOMAIN sendbuf' = Rank /\ DOMAIN pc' = Rank
    BY <1>1, <1>2 DEF NumberingType
  <2>2. /\ DOMAIN array'[r] = 1 .. 2 /\ DOMAIN range'[r] = 1 .. 2
        /\ DOMAIN shared'[r] = 1 .. 2 /\ DOMAIN ghosts'[r] = 1 .. 2
    BY <1>1, <1>2 DEF NumberingType
  <2> QED BY <1>1, <1>3, <1>11, <1>13, <1>15, <1>16, <2>1, <2>2, TypeKept
          DEF NumberingType, Numbering, NumberingRings
<1>18. Passed(r)' = Passed(r) /\ Passed(r) = 2 * b - 1
  <2>1. pc[r] \in Counting /\ pc'[r] \in Counting BY <1>2, <1>11 DEF Counting
  <2>2. pc[r] \notin Voting /\ pc'[r] \notin Voting BY <1>2, <1>11 DEF Voting
  <2>3. Passed(r) = 2 * b - 1 BY <1>1, <2>1, PassedType DEF b
  <2> QED BY <1>3, <2>1, <2>2, <2>3 DEF Passed
<1>19. CollStep(r)
  <2> HIDE DEF told
  <2>1. Fits(e, r, SizeOf(told))
    <3>1. \A x \in 1 .. 2 : e = <<"numbers max", x>> => Passed(r) >= 2 * x - 1 BY <1>4, <1>18
    <3> QED BY <3>1 DEF Fits
  <2> QED BY <1>2, <1>14, <2>1 DEF CollStep
<1>20. Still(r)
  <2>1. Inside(r)' <=> Inside(r) BY <1>2, <1>11 DEF Inside, NumberingRings
  <2>2. pc'[r] \in Counted BY <1>11 DEF Counted, Numbering
  <2>9. pc[r] \in Building BY <1>2 DEF Building, Counted, Numbering, NumberingRings
  <2> QED BY <1>3, <1>13, <1>18, <2>1, <2>2, <2>9 DEF Still
<1>21. RankInv(r)'
  <2> HIDE DEF number, told
  <2>1. PICK m : m = b OBVIOUS
  <2>2. PICK n : n = k OBVIOUS
  <2>3. m \in 1 .. 2 /\ n \in Kinds BY <1>4, <2>1, <2>2
  <2>4. ufcGhosts'[r] = Lost(n, r) BY <1>3, <1>5, <2>2 DEF Settled, k, b
  <2>5. sendbuf'[r] = Numbers(n, r) BY <1>9, <1>11, <2>2
  <2>6. range'[r][m] = RangeOf(n, r) BY <1>6, <1>7, <1>11, <2>1, <2>2 DEF RangeOf
  <2>7. array'[r][m] = [d \in DofsOf(space, r) |-> array'[r][m][d]]
    BY <1>11, <2>1
  <2>8. \A d \in Kept(n, r) : array'[r][m][d] = NumberOf(n, d)
    <3>1. Kept(n, r) \subseteq DofsOf(space, r) BY DEF Kept
    <3> QED BY <1>6, <1>8, <1>11, <2>1, <2>2, <3>1
  <2>9. /\ ghosts'[r][m] = {}
        /\ shared'[r][m] = {NumberOf(n, d) : d \in Kept(n, r) \cap SharedEntities(r)}
    BY <1>10, <1>11, <2>1, <2>2
  <2>10. Counts(r, m, n, 1)'
    BY <1>1, <1>3, <2>3, <2>4, <2>5, <2>6, <2>7, <2>8, <2>9, CountsBegin
  <2>11. Counts(r, map[r], space.kind[map[r]], round[r])'
    <3>1. m = map'[r] /\ n = space'.kind[m] /\ 1 = round'[r]
      BY <1>3, <1>16, <2>1, <2>2 DEF b, k
    <3> QED BY <2>10, <3>1
  <2>12. \A x \in 1 .. 2 : (2 * x <= Passed(r) => Result(r, x, space.kind[x]))'
    <3>1. PICK p \in Int : p = Passed(r) /\ p < 2 * b BY <1>4, <1>18
    <3>2. \A x \in 1 .. 2 : 2 * x <= p => Result(r, x, space.kind[x])'
      BY <1>1, <1>3, <1>4, <1>12, <1>18, <3>1, OtherResults
    <3> QED BY <1>18, <3>1, <3>2
  <2> QED BY <1>11, <2>11, <2>12 DEF RankInv
<1> QED BY <1>17, <1>19, <1>20, <1>21, CombineStill

(* A rank sends its votes or numbers.                                      *)
LEMMA NumberingSendKeeps ==
  ASSUME NumberingInv, NEW r \in Rank, NumberingSend(r)
  PROVE  NumberingInv'
<1>1. NumberingType /\ RankInv(r) /\ round[r] \in 1 .. (P - 1) BY DEF NumberingInv, NumberingType
<1>2. /\ pc' = pc /\ map' = map /\ round' = round /\ space' = space /\ coll' = coll
      /\ sendbuf' = sendbuf /\ drawn' = drawn /\ ufcShared' = ufcShared /\ ufcGhosts' = ufcGhosts
      /\ array' = array /\ range' = range /\ shared' = shared /\ ghosts' = ghosts
      /\ posted' = [posted EXCEPT ![r] = TRUE] /\ DOMAIN net' = DOMAIN net
      /\ pc[r] \in NumberingRings
  BY DEF NumberingSend, Send, numbering, flags, numbers, buffers
<1>3. OthersStill(r) BY <1>1, <1>2 DEF NumberingType, OthersStill
<1>4. NumberingType'
  <2>1. posted' \in [Rank -> BOOLEAN] BY <1>1, <1>2 DEF NumberingType
  <2>2. pc'[r] \in Numbering BY <1>2 DEF Numbering
  <2> QED BY <1>1, <1>2, <1>3, <2>1, <2>2, TypeKept DEF NumberingType
<1>5. RankInv(r)' BY <1>1, <1>2, RankStays
<1>6. Passed(r) <= Passed(r)'
  <2>1. Passed(r) \in 0 .. 4 BY <1>1, PassedType
  <2>2. Passed(r)' = Passed(r) BY <1>2 DEF Passed
  <2> QED BY <2>1, <2>2
<1>7. SyncInv' /\ ChannelsInv' BY <1>4, SendKeeps
<1> QED BY <1>2, <1>3, <1>4, <1>5, <1>6, <1>7, Combine DEF CollStep

(* What a rank has received moves it one round on.                         *)
LEMMA TakeMoves ==
  ASSUME NumberingType, NEW r \in Rank, Recv(r, From(r), 1), NextRound(r)
  PROVE  /\ round[r] \in 1 .. (P - 1) /\ (LastRound(r) <=> round[r] = P - 1)
         /\ round' \in [Rank -> 1 .. (P - 1)]
         /\ round'[r] = (IF LastRound(r) THEN 1 ELSE round[r] + 1)
         /\ posted' \in [Rank -> BOOLEAN] /\ posted'[r] = FALSE
         /\ DOMAIN net' = DOMAIN net
         /\ \A q \in Rank \ {r} : round'[q] = round[q] /\ posted'[q] = posted[q]
         /\ Arrived(r, From(r), 1)
<1>1. /\ round \in [Rank -> 1 .. (P - 1)] /\ posted \in [Rank -> BOOLEAN] BY DEF NumberingType
<1>2. round' = [round EXCEPT ![r] = IF LastRound(r) THEN 1 ELSE @ + 1] BY DEF NextRound
<1>3. posted' = [posted EXCEPT ![r] = FALSE] /\ DOMAIN net' = DOMAIN net /\ Arrived(r, From(r), 1)
  BY DEF Recv
<1>4. LastRound(r) <=> round[r] = P - 1 BY DEF LastRound
<1>5. P \in Nat \ {0, 1} BY PAssumption
<1>6. round'[r] = (IF LastRound(r) THEN 1 ELSE round[r] + 1) BY <1>1, <1>2
<1>7. round'[r] \in 1 .. (P - 1) BY <1>1, <1>4, <1>5, <1>6
<1>8. \A q \in Rank \ {r} : round'[q] = round[q] BY <1>1, <1>2
<1>9. DOMAIN round' = Rank /\ \A q \in Rank : round'[q] \in 1 .. (P - 1) BY <1>1, <1>2, <1>7, <1>8
<1>10. round' \in [Rank -> 1 .. (P - 1)] BY <1>2, <1>9
<1> QED BY <1>1, <1>3, <1>4, <1>6, <1>8, <1>10

(* A round of votes: what a better vote claims is lost.                    *)
LEMMA ReturnVotesKeeps ==
  ASSUME NumberingInv, NEW r \in Rank, ReturnVotes(r)
  PROVE  NumberingInv'
<1> DEFINE lost == {d \in ufcShared[r] \cap DOMAIN Message(r) :
                      Loses(sendbuf[r][d], r, Message(r)[d], From(r))}
<1>1. NumberingType /\ RankInv(r) /\ space \in Spaces BY DEF NumberingInv, NumberingType
<1>2. /\ pc[r] = "votes" /\ Recv(r, From(r), 1) /\ NextRound(r)
      /\ ufcGhosts' = [ufcGhosts EXCEPT ![r] = @ \cup lost]
      /\ ufcShared' = [ufcShared EXCEPT ![r] = @ \ lost]
      /\ pc' = [pc EXCEPT ![r] = IF LastRound(r) THEN "owned" ELSE "votes"]
  BY DEF ReturnVotes
<1>3. /\ space' = space /\ map' = map /\ coll' = coll /\ drawn' = drawn /\ sendbuf' = sendbuf
      /\ array' = array /\ range' = range /\ shared' = shared /\ ghosts' = ghosts
  BY DEF ReturnVotes, numbers, buffers
<1>4. PICK j : j = round[r] OBVIOUS
<1>5. PICK s : s = From(r) OBVIOUS
<1>6. /\ j \in 1 .. (P - 1) /\ (LastRound(r) <=> j = P - 1) /\ Arrived(r, s, 1)
      /\ round' \in [Rank -> 1 .. (P - 1)] /\ round'[r] = (IF LastRound(r) THEN 1 ELSE j + 1)
      /\ posted' \in [Rank -> BOOLEAN] /\ posted'[r] = FALSE /\ DOMAIN net' = DOMAIN net
      /\ \A q \in Rank \ {r} : round'[q] = round[q] /\ posted'[q] = posted[q]
  BY <1>1, <1>2, <1>4, <1>5, TakeMoves
<1>7. Inside(r) /\ Voted(r) /\ s = Src(r, j)
  BY <1>1, <1>2, <1>4, <1>5 DEF Inside, NumberingRings, RankInv, From
<1>8. /\ space.kind[map[r]] = "votes" /\ sendbuf[r] = Votes(r)
      /\ ufcGhosts[r] = Outvoted(r, j) /\ ufcShared[r] = SharedEntities(r) \ Outvoted(r, j)
  BY <1>4, <1>7 DEF Voted
<1>9. Message(r) = Votes(s)
  <2>1. Message(r) = Say(s, Passed(r) + 1) BY <1>5, <1>6, <1>7, MessageIs
  <2>2. \A q : Say(q, Passed(r) + 1) = Votes(q) BY <1>2, <1>7, RingOK
  <2> QED BY <2>1, <2>2
<1> DEFINE won == {d \in SharedEntities(r) \cap SharedEntities(s) : Beats(s, r, d)}
<1>10. lost = won \ Outvoted(r, j)
  <2>1. DOMAIN Votes(s) = SharedEntities(s) BY DEF Votes
  <2>2. ASSUME NEW d \in SharedEntities(r), d \in SharedEntities(s)
        PROVE  Loses(sendbuf[r][d], r, Message(r)[d], s) <=> Beats(s, r, d)
    <3>1. Votes(r)[d] = Vote(r, d) /\ Votes(s)[d] = Vote(s, d) BY <2>2 DEF Votes
    <3> QED BY <1>8, <1>9, <3>1 DEF Beats
  <2> QED BY <1>5, <1>8, <1>9, <2>1, <2>2
<1>11. Outvoted(r, j + 1) = Outvoted(r, j) \cup won
  BY <1>1, <1>6, <1>7, OutvotedRounds
<1> HIDE DEF lost, won
<1>12. pc'[r] = (IF LastRound(r) THEN "owned" ELSE "votes") BY <1>1, <1>2 DEF NumberingType
<1>13. /\ ufcGhosts'[r] = Outvoted(r, j + 1)
       /\ ufcShared'[r] = SharedEntities(r) \ Outvoted(r, j + 1)
  <2>1. ufcGhosts'[r] = Outvoted(r, j) \cup lost BY <1>1, <1>2, <1>8 DEF NumberingType
  <2>2. ufcShared'[r] = (SharedEntities(r) \ Outvoted(r, j)) \ lost
    BY <1>1, <1>2, <1>8 DEF NumberingType
  <2> QED BY <1>10, <1>11, <2>1, <2>2
<1>14. OthersStill(r) BY <1>1, <1>2, <1>3, <1>6 DEF NumberingType, OthersStill
<1>15. NumberingType'
  <2>1. DOMAIN pc' = Rank /\ DOMAIN ufcShared' = Rank /\ DOMAIN ufcGhosts' = Rank
    BY <1>1, <1>2 DEF NumberingType
  <2>2. pc'[r] \in Numbering \ (NumberingRings \cup {"error"}) => round'[r] = 1 /\ ~posted'[r]
    BY <1>6, <1>12 DEF NumberingRings
  <2>3. pc'[r] \in Numbering BY <1>12 DEF Numbering, NumberingRings
  <2> QED BY <1>1, <1>3, <1>6, <1>14, <2>1, <2>2, <2>3, TypeKept DEF NumberingType
<1>16. /\ Passed(r) = 2 * map[r] - 2 /\ map[r] \in 1 .. 2
       /\ Passed(r)' = (IF LastRound(r) THEN Passed(r) + 1 ELSE Passed(r))
  <2>1. Passed(r) = 2 * map[r] - 2 /\ map[r] \in 1 .. 2 BY <1>1, <1>2, PassedType DEF Voting
  <2>2. CASE LastRound(r)
    <3>1. pc'[r] \notin Voting /\ pc'[r] \in Counting BY <1>12, <2>2 DEF Voting, Counting
    <3>2. Passed(r)' = 2 * map'[r] - 1 BY <3>1 DEF Passed
    <3> QED BY <1>3, <2>1, <2>2, <3>2
  <2>3. CASE ~LastRound(r)
    <3>1. pc'[r] \in Voting BY <1>12, <2>3 DEF Voting
    <3>2. Passed(r)' = 2 * map'[r] - 2 BY <3>1 DEF Passed
    <3> QED BY <1>3, <2>1, <2>3, <3>2
  <2> QED BY <2>1, <2>2, <2>3
<1>17. Takes(r)
  <2>1. Inside(r)' <=> ~LastRound(r) BY <1>12 DEF Inside, NumberingRings
  <2>2. pc'[r] \in Counted BY <1>12 DEF Counted, Numbering, NumberingRings
  <2> QED BY <1>2, <1>3, <1>7, <1>14, <1>16, <2>1, <2>2 DEF Takes
<1>18. SyncInv' /\ ChannelsInv' BY <1>15, <1>17, TakeKeeps
<1>19. RankInv(r)'
  <2>1. CASE LastRound(r)
    <3>1. PICK k : k = "votes" OBVIOUS
    <3>2. P - 1 + 1 = P BY PAssumption
    <3>3. Outvoted(r, j + 1) = Lost(k, r) BY <1>1, <1>6, <2>1, <3>1, <3>2, OutvotedRounds
    <3>4. SharedEntities(r) \ Lost(k, r) = SharedEntities(r) \cap Kept(k, r)
      <4>1. k \in Kinds BY <3>1 DEF Kinds
      <4> QED BY <1>1, <4>1, KeptAndLost
    <3>5. /\ Lost(k, r)' = Lost(k, r) /\ Kept(k, r)' = Kept(k, r)
          /\ SharedEntities(r)' = SharedEntities(r)
      BY <1>3, StaticUnchanged
    <3>6. space'.kind[map'[r]] = k BY <1>3, <1>8, <3>1
    <3>7. ufcGhosts'[r] = Lost(k, r)' BY <1>13, <3>3, <3>5
    <3>8. ufcShared'[r] = (SharedEntities(r) \cap Kept(k, r))' BY <1>13, <3>3, <3>4, <3>5
    <3>9. Settled(r)' BY <3>6, <3>7, <3>8 DEF Settled
    <3>10. \A b \in 1 .. 2 : (2 * b <= Passed(r) => Result(r, b, space.kind[b]))'
      <4>1. ASSUME NEW b \in 1 .. 2, 2 * b <= Passed(r)' PROVE 2 * b <= Passed(r)
        BY <1>16, <2>1, <4>1
      <4>2. \A b \in 1 .. 2 : 2 * b <= Passed(r) => Result(r, b, space.kind[b])'
        BY <1>1, <1>3, EarlierResults
      <4> QED BY <4>1, <4>2
    <3> QED BY <1>12, <2>1, <3>9, <3>10 DEF RankInv
  <2>2. CASE ~LastRound(r)
    <3>1. /\ Votes(r)' = Votes(r) /\ SharedEntities(r)' = SharedEntities(r)
          /\ Outvoted(r, j + 1)' = Outvoted(r, j + 1)
      BY <1>3, StaticUnchanged
    <3>2. round'[r] = j + 1 BY <1>6, <2>2
    <3>3. Outvoted(r, round[r])' = Outvoted(r, j + 1) BY <3>1, <3>2
    <3>4. Voted(r)' BY <1>3, <1>8, <1>13, <3>1, <3>3 DEF Voted
    <3>5. \A b \in 1 .. 2 : (2 * b <= Passed(r) => Result(r, b, space.kind[b]))'
      BY <1>1, <1>3, <1>16, <2>2, EarlierResults
    <3> QED BY <1>12, <2>2, <3>4, <3>5 DEF RankInv
  <2> QED BY <2>1, <2>2
<1>20. Passed(r) <= Passed(r)' BY <1>16
<1> QED BY <1>3, <1>14, <1>15, <1>18, <1>19, <1>20, Combine DEF CollStep

(* A rank that has the numbers of one more rank.                           *)
CountsStep(r, b, k, j, m, known) ==
  /\ space \in Spaces /\ space' = space
  /\ b \in 1 .. 2 /\ k \in Kinds /\ j \in 1 .. (P - 1) /\ Counts(r, b, k, j)
  /\ m = Numbers(k, Src(r, j)) /\ known = ufcGhosts[r] \cap DOMAIN m
  /\ sendbuf'[r] = sendbuf[r] /\ ufcGhosts'[r] = ufcGhosts[r] \ known
  /\ range'[r][b] = range[r][b]
  /\ array'[r][b] = [d \in DofsOf(space, r) |-> IF d \in known THEN m[d] ELSE array[r][b][d]]
  /\ ghosts'[r][b] = ghosts[r][b] \cup {m[d] : d \in known}
  /\ shared'[r][b] = shared[r][b] \cup {m[d] : d \in known}

(* The numbers of one more rank become known.                              *)
LEMMA CountsNext ==
  ASSUME NEW r \in Rank, NEW b, NEW k, NEW j, NEW m, NEW known,
         CountsStep(r, b, k, j, m, known)
  PROVE  Counts(r, b, k, j + 1)'
<1>0. /\ space \in Spaces /\ space' = space
      /\ b \in 1 .. 2 /\ k \in Kinds /\ j \in 1 .. (P - 1) /\ Counts(r, b, k, j)
      /\ m = Numbers(k, Src(r, j)) /\ known = ufcGhosts[r] \cap DOMAIN m
      /\ sendbuf'[r] = sendbuf[r] /\ ufcGhosts'[r] = ufcGhosts[r] \ known
      /\ range'[r][b] = range[r][b]
      /\ array'[r][b] = [d \in DofsOf(space, r) |-> IF d \in known THEN m[d] ELSE array[r][b][d]]
      /\ ghosts'[r][b] = ghosts[r][b] \cup {m[d] : d \in known}
      /\ shared'[r][b] = shared[r][b] \cup {m[d] : d \in known}
  BY DEF CountsStep
<1> USE <1>0
<1> DEFINE T == Told(k, r, j)
           U == Told(k, r, j + 1)
<1>1. /\ Numbers(k, r)' = Numbers(k, r) /\ SharedEntities(r)' = SharedEntities(r)
      /\ Kept(k, r)' = Kept(k, r) /\ U' = U
      /\ DofsOf(space, r)' = DofsOf(space, r) /\ RangeOf(k, r)' = RangeOf(k, r)
      /\ \A d : NumberOf(k, d)' = NumberOf(k, d)
  BY StaticUnchanged
<1>2. /\ sendbuf[r] = Numbers(k, r) /\ ufcGhosts[r] = DofsOf(space, r) \ T
      /\ range[r][b] = RangeOf(k, r) /\ \A d \in T : array[r][b][d] = NumberOf(k, d)
      /\ ghosts[r][b] = {NumberOf(k, d) : d \in T \ Kept(k, r)}
      /\ shared[r][b] = {NumberOf(k, d) : d \in T \cap SharedEntities(r)}
  BY DEF Counts
<1>3. /\ T \subseteq DofsOf(space, r) /\ U = T \cup ((DofsOf(space, r) \ T) \cap DOMAIN m)
      /\ Kept(k, r) \cap DOMAIN m = {}
  BY ToldRounds
<1>4. /\ Kept(k, r) \cup Lost(k, r) = DofsOf(space, r) /\ Kept(k, r) \cap Lost(k, r) = {}
      /\ Lost(k, r) \subseteq SharedEntities(r)
  BY KeptAndLost
<1>5. \A d \in DOMAIN m : m[d] = NumberOf(k, d) BY DEF Numbers
<1> HIDE DEF T, U
<1>6. U = T \cup known BY <1>2, <1>3
<1>7. known \cap Kept(k, r) = {} /\ known \subseteq SharedEntities(r) /\ known \subseteq DofsOf(space, r)
  BY <1>2, <1>3, <1>4
<1>8. \A d \in known : m[d] = NumberOf(k, d) BY <1>5
<1>9. {m[d] : d \in known} = {NumberOf(k, d) : d \in known} BY <1>8
<1>a. \A A, B : {NumberOf(k, d) : d \in A \cup B}
                = {NumberOf(k, d) : d \in A} \cup {NumberOf(k, d) : d \in B}
  OBVIOUS
<1>10. (sendbuf[r] = Numbers(k, r))' BY <1>1, <1>2
<1>11. ufcGhosts'[r] = DofsOf(space, r) \ U BY <1>2, <1>6
<1>12. (range[r][b] = RangeOf(k, r))' BY <1>1, <1>2
<1>13. (array[r][b] = [d \in DofsOf(space, r) |-> array[r][b][d]])' BY <1>1
<1>14. \A d \in U : array'[r][b][d] = NumberOf(k, d)
  <2>1. ASSUME NEW d \in U PROVE array'[r][b][d] = NumberOf(k, d)
    <3>1. d \in DofsOf(space, r) BY <1>3, <1>6, <1>7
    <3>2. array'[r][b][d] = IF d \in known THEN m[d] ELSE array[r][b][d] BY <3>1
    <3>3. d \in known \/ d \in T BY <1>6
    <3> QED BY <1>2, <1>8, <3>2, <3>3
  <2> QED BY <2>1
<1>15. ghosts'[r][b] = {NumberOf(k, d) : d \in U \ Kept(k, r)}
  <2>1. U \ Kept(k, r) = (T \ Kept(k, r)) \cup known BY <1>6, <1>7
  <2>2. {NumberOf(k, d) : d \in (T \ Kept(k, r)) \cup known}
          = {NumberOf(k, d) : d \in T \ Kept(k, r)} \cup {NumberOf(k, d) : d \in known}
    BY <1>a
  <2>3. ghosts'[r][b] = {NumberOf(k, d) : d \in T \ Kept(k, r)}
                          \cup {NumberOf(k, d) : d \in known}
    BY <1>2, <1>9
  <2> QED BY <2>1, <2>2, <2>3
<1>16. shared'[r][b] = {NumberOf(k, d) : d \in U \cap SharedEntities(r)}
  <2>1. U \cap SharedEntities(r) = (T \cap SharedEntities(r)) \cup known BY <1>6, <1>7
  <2>2. {NumberOf(k, d) : d \in (T \cap SharedEntities(r)) \cup known}
          = {NumberOf(k, d) : d \in T \cap SharedEntities(r)} \cup {NumberOf(k, d) : d \in known}
    BY <1>a
  <2>3. shared'[r][b] = {NumberOf(k, d) : d \in T \cap SharedEntities(r)}
                          \cup {NumberOf(k, d) : d \in known}
    BY <1>2, <1>9
  <2> QED BY <2>1, <2>2, <2>3
<1>17. \A S : {NumberOf(k, d)' : d \in S} = {NumberOf(k, d) : d \in S} BY <1>1
<1>18. U = Told(k, r, j + 1) BY DEF U
<1>19. Told(k, r, j + 1)' = U BY <1>1 DEF U
<1>20. (ufcGhosts[r] = DofsOf(space, r) \ Told(k, r, j + 1))' BY <1>1, <1>11, <1>19
<1>21. (\A d \in Told(k, r, j + 1) : array[r][b][d] = NumberOf(k, d))' BY <1>1, <1>14, <1>19
<1>22. (ghosts[r][b] = {NumberOf(k, d) : d \in Told(k, r, j + 1) \ Kept(k, r)})'
  <2>1. (Told(k, r, j + 1) \ Kept(k, r))' = U \ Kept(k, r) BY <1>1, <1>19
  <2> QED BY <1>15, <1>17, <2>1
<1>23. (shared[r][b] = {NumberOf(k, d) : d \in Told(k, r, j + 1) \cap SharedEntities(r)})'
  <2>1. (Told(k, r, j + 1) \cap SharedEntities(r))' = U \cap SharedEntities(r) BY <1>1, <1>19
  <2> QED BY <1>16, <1>17, <2>1
<1> QED BY <1>10, <1>12, <1>13, <1>20, <1>21, <1>22, <1>23 DEF Counts

(* After the last round it has the number of every dof.                    *)
LEMMA CountsEnd ==
  ASSUME space \in Spaces, space' = space, NEW r \in Rank, NEW b \in 1 .. 2, NEW k \in Kinds,
         Counts(r, b, k, P)'
  PROVE  Result(r, b, k)'
<1>1. /\ SharedEntities(r)' = SharedEntities(r) /\ Lost(k, r)' = Lost(k, r)
      /\ Kept(k, r)' = Kept(k, r) /\ Told(k, r, P)' = Told(k, r, P)
      /\ DofsOf(space, r)' = DofsOf(space, r)
  BY StaticUnchanged
<1>2. Told(k, r, P) = DofsOf(space, r) BY ToldRounds
<1>3. /\ Kept(k, r) \cup Lost(k, r) = DofsOf(space, r) /\ Kept(k, r) \cap Lost(k, r) = {}
      /\ SharedEntities(r) \subseteq DofsOf(space, r)
  BY KeptAndLost
<1>4. /\ (Told(k, r, P) \ Kept(k, r))' = Lost(k, r)'
      /\ (Told(k, r, P) \cap SharedEntities(r))' = SharedEntities(r)'
      /\ Told(k, r, P)' = DofsOf(space, r)'
  BY <1>1, <1>2, <1>3
<1>5. (range[r][b] = RangeOf(k, r))' BY DEF Counts
<1>6. (array[r][b] = [d \in DofsOf(space, r) |-> NumberOf(k, d)])'
  <2>1. (array[r][b] = [d \in DofsOf(space, r) |-> array[r][b][d]])' BY DEF Counts
  <2>2. (\A d \in DofsOf(space, r) : array[r][b][d] = NumberOf(k, d))' BY <1>4 DEF Counts
  <2> QED BY <2>1, <2>2
<1>7. (ghosts[r][b] = {NumberOf(k, d) : d \in Lost(k, r)})' BY <1>4 DEF Counts
<1>8. (shared[r][b] = {NumberOf(k, d) : d \in SharedEntities(r)})' BY <1>4 DEF Counts
<1> QED BY <1>5, <1>6, <1>7, <1>8 DEF Result

(* A round of numbers: what the sender has numbered is taken over.         *)
LEMMA ReturnNumbersKeeps ==
  ASSUME NumberingInv, NEW r \in Rank, ReturnNumbers(r)
  PROVE  NumberingInv'
<1>1. NumberingType /\ RankInv(r) /\ space \in Spaces BY DEF NumberingInv, NumberingType
<1>2. PICK b : b = map[r] OBVIOUS
<1>3. PICK k : k = space.kind[b] OBVIOUS
<1>4. PICK j : j = round[r] OBVIOUS
<1>5. PICK s : s = From(r) OBVIOUS
<1>6. PICK m : m = Message(r) OBVIOUS
<1>7. PICK known : known = ufcGhosts[r] \cap DOMAIN m OBVIOUS
<1>8. /\ pc[r] = "numbers" /\ Recv(r, From(r), 1) /\ NextRound(r)
      /\ ufcGhosts' = [ufcGhosts EXCEPT ![r] = @ \ known]
      /\ pc' = [pc EXCEPT ![r] = IF LastRound(r) THEN "numbered" ELSE "numbers"]
      /\ space' = space /\ map' = map /\ coll' = coll /\ drawn' = drawn /\ sendbuf' = sendbuf
      /\ ufcShared' = ufcShared /\ range' = range
  BY <1>6, <1>7 DEF ReturnNumbers, buffers
<1>9. /\ array' = [array EXCEPT ![r][map[r]] = [d \in DofsOf(space, r) |->
                     IF d \in ufcGhosts[r] \cap DOMAIN Message(r)
                     THEN Message(r)[d] ELSE array[r][map[r]][d]]]
      /\ ghosts' = [ghosts EXCEPT ![r][map[r]] =
                      @ \cup {Message(r)[d] : d \in ufcGhosts[r] \cap DOMAIN Message(r)}]
      /\ shared' = [shared EXCEPT ![r][map[r]] =
                      @ \cup {Message(r)[d] : d \in ufcGhosts[r] \cap DOMAIN Message(r)}]
  BY DEF ReturnNumbers
<1>10. b \in 1 .. 2 /\ k \in Kinds BY <1>1, <1>2, <1>3, PassedType, KindOK
<1>11. /\ j \in 1 .. (P - 1) /\ (LastRound(r) <=> j = P - 1) /\ Arrived(r, s, 1)
       /\ round' \in [Rank -> 1 .. (P - 1)] /\ round'[r] = (IF LastRound(r) THEN 1 ELSE j + 1)
       /\ posted' \in [Rank -> BOOLEAN] /\ posted'[r] = FALSE /\ DOMAIN net' = DOMAIN net
       /\ \A q \in Rank \ {r} : round'[q] = round[q] /\ posted'[q] = posted[q]
  BY <1>1, <1>4, <1>5, <1>8, TakeMoves
<1>12. Inside(r) /\ Counts(r, b, k, j) /\ s = Src(r, j)
  BY <1>1, <1>2, <1>3, <1>4, <1>5, <1>8 DEF Inside, NumberingRings, RankInv, From
<1>13. m = Numbers(k, s)
  <2>1. Message(r) = Say(s, Passed(r) + 1) BY <1>5, <1>11, <1>12, MessageIs
  <2>2. \A q : Say(q, Passed(r) + 1) = Numbers(space.kind[map[r]], q) BY <1>8, <1>12, RingOK
  <2> QED BY <1>2, <1>3, <1>6, <2>1, <2>2
<1>14. pc'[r] = (IF LastRound(r) THEN "numbered" ELSE "numbers") BY <1>1, <1>8 DEF NumberingType
<1>15. ufcGhosts'[r] = ufcGhosts[r] \ known BY <1>1, <1>8 DEF NumberingType
<1>16. array'[r][b] = [d \in DofsOf(space, r) |-> IF d \in known THEN m[d] ELSE array[r][b][d]]
  BY <1>1, <1>2, <1>6, <1>7, <1>9, <1>10 DEF NumberingType
<1>17. /\ ghosts'[r][b] = ghosts[r][b] \cup {m[d] : d \in known}
       /\ shared'[r][b] = shared[r][b] \cup {m[d] : d \in known}
  BY <1>1, <1>2, <1>6, <1>7, <1>9, <1>10 DEF NumberingType
<1>18. /\ DOMAIN array' = Rank /\ DOMAIN range' = Rank /\ DOMAIN shared' = Rank
       /\ DOMAIN ghosts' = Rank /\ DOMAIN sendbuf' = Rank /\ DOMAIN pc' = Rank
       /\ DOMAIN array'[r] = 1 .. 2 /\ DOMAIN range'[r] = 1 .. 2
       /\ DOMAIN shared'[r] = 1 .. 2 /\ DOMAIN ghosts'[r] = 1 .. 2
       /\ DOMAIN ufcGhosts' = Rank /\ DOMAIN ufcShared' = Rank
  BY <1>1, <1>8, <1>9 DEF NumberingType
<1>19. \A x \in 1 .. 2 : x # b =>
         /\ array'[r][x] = array[r][x] /\ range'[r][x] = range[r][x]
         /\ shared'[r][x] = shared[r][x] /\ ghosts'[r][x] = ghosts[r][x]
  BY <1>1, <1>2, <1>8, <1>9 DEF NumberingType
<1>20. OthersStill(r) BY <1>1, <1>8, <1>9, <1>11 DEF NumberingType, OthersStill
<1>21. NumberingType'
  <2>1. pc'[r] \in Numbering \ (NumberingRings \cup {"error"}) => round'[r] = 1 /\ ~posted'[r]
    BY <1>11, <1>14 DEF NumberingRings
  <2>2. pc'[r] \in Numbering BY <1>14 DEF Numbering, NumberingRings
  <2>3. DOMAIN drawn' = Rank BY <1>1, <1>8 DEF NumberingType
  <2>4. DOMAIN coll' = DOMAIN coll BY <1>8
  <2> QED BY <1>1, <1>8, <1>11, <1>18, <1>20, <2>1, <2>2, <2>3, <2>4, TypeKept
<1>22. /\ Passed(r) = 2 * b - 1
       /\ Passed(r)' = (IF LastRound(r) THEN Passed(r) + 1 ELSE Passed(r))
  <2>1. Passed(r) = 2 * b - 1 BY <1>1, <1>2, <1>8, PassedType DEF Counting
  <2>2. CASE LastRound(r)
    <3>1. pc'[r] \notin Voting /\ pc'[r] \notin Counting BY <1>14, <2>2 DEF Voting, Counting
    <3>2. Passed(r)' = 2 * map'[r] BY <1>2, <1>8, <1>10, <3>1 DEF Passed
    <3> QED BY <1>2, <1>8, <1>10, <2>1, <2>2, <3>2
  <2>3. CASE ~LastRound(r)
    <3>1. pc'[r] \notin Voting /\ pc'[r] \in Counting BY <1>14, <2>3 DEF Voting, Counting
    <3>2. Passed(r)' = 2 * map'[r] - 1 BY <3>1 DEF Passed
    <3> QED BY <1>2, <1>8, <1>10, <2>1, <2>3, <3>2
  <2> QED BY <2>1, <2>2, <2>3
<1>23. Takes(r)
  <2>1. Inside(r)' <=> ~LastRound(r) BY <1>14 DEF Inside, NumberingRings
  <2>2. pc'[r] \in Counted BY <1>14 DEF Counted, Numbering, NumberingRings
  <2> QED BY <1>8, <1>12, <1>20, <1>22, <2>1, <2>2 DEF Takes
<1>24. SyncInv' /\ ChannelsInv' BY <1>21, <1>23, TakeKeeps
<1>25. Counts(r, b, k, j + 1)'
  <2>1. m = Numbers(k, Src(r, j)) BY <1>12, <1>13
  <2>2. sendbuf'[r] = sendbuf[r] /\ range'[r][b] = range[r][b] /\ space' = space
    BY <1>8
  <2>3. /\ space \in Spaces /\ j \in 1 .. (P - 1) /\ Counts(r, b, k, j)
        /\ b \in 1 .. 2 /\ k \in Kinds
    BY <1>1, <1>10, <1>11, <1>12
  <2>4. /\ known = ufcGhosts[r] \cap DOMAIN m /\ ufcGhosts'[r] = ufcGhosts[r] \ known
        /\ array'[r][b] = [d \in DofsOf(space, r) |-> IF d \in known THEN m[d] ELSE array[r][b][d]]
    BY <1>7, <1>15, <1>16
  <2>5. CountsStep(r, b, k, j, m, known) BY <1>17, <2>1, <2>2, <2>3, <2>4 DEF CountsStep
  <2> QED BY <2>5, CountsNext
<1>26. b = map'[r] /\ k = space'.kind[b] BY <1>2, <1>3, <1>8
<1>27. \A x \in 1 .. 2 : 2 * x <= 2 * b - 1 => Result(r, x, space.kind[x])'
  <2>1. PICK p \in Int : p = 2 * b - 1 BY <1>10
  <2>2. p < 2 * b /\ p <= Passed(r) BY <1>10, <1>22, <2>1
  <2>3. \A x \in 1 .. 2 : 2 * x <= p => Result(r, x, space.kind[x])'
    BY <1>1, <1>8, <1>10, <1>19, <2>2, OtherResults
  <2> QED BY <2>1, <2>3
<1>28. RankInv(r)'
  <2>1. CASE LastRound(r)
    <3>1. j + 1 = P BY <1>11, <2>1, PAssumption
    <3>2. Result(r, b, k)' BY <1>1, <1>8, <1>10, <1>25, <3>1, CountsEnd
    <3>3. Result(r, b, space.kind[b])' BY <1>26, <3>2
    <3>4. \A x \in 1 .. 2 : (2 * x <= Passed(r) => Result(r, x, space.kind[x]))'
      <4>1. ASSUME NEW x \in 1 .. 2, 2 * x <= Passed(r)' PROVE x = b \/ 2 * x <= 2 * b - 1
        BY <1>10, <1>22, <2>1, <4>1
      <4>2. ASSUME NEW x \in 1 .. 2, 2 * x <= Passed(r)' PROVE Result(r, x, space.kind[x])'
        BY <1>27, <3>3, <4>1, <4>2
      <4> QED BY <4>2
    <3> QED BY <1>14, <2>1, <3>4 DEF RankInv
  <2>2. CASE ~LastRound(r)
    <3>1. round'[r] = j + 1 BY <1>11, <2>2
    <3>2. Counts(r, map[r], space.kind[map[r]], round[r])' BY <1>25, <1>26, <3>1
    <3>3. \A x \in 1 .. 2 : (2 * x <= Passed(r) => Result(r, x, space.kind[x]))'
      BY <1>22, <1>27, <2>2
    <3> QED BY <1>14, <2>2, <3>2, <3>3 DEF RankInv
  <2> QED BY <2>1, <2>2
<1>29. Passed(r) <= Passed(r)' BY <1>10, <1>22
<1> QED BY <1>8, <1>20, <1>21, <1>24, <1>28, <1>29, Combine DEF CollStep

(* The exception is never thrown.                                          *)
LEMMA CountsAlwaysMatch ==
  ASSUME NumberingType, NEW r \in Rank, RankInv(r), pc[r] = "numbered", Kind(r) = "entities"
  PROVE  CountsMatch(r)
<1>1. /\ space \in Spaces /\ map[r] \in 1 .. 2 /\ Passed(r) = 2 * map[r]
  BY PassedType DEF NumberingType, Voting, Counting
<1>2. PICK k : k = "entities" OBVIOUS
<1>3. k \in Kinds /\ k = space.kind[map[r]] BY <1>2 DEF Kinds, Kind
<1>4. Result(r, map[r], k) BY <1>1, <1>3 DEF RankInv
<1>5. /\ ghosts[r][map[r]] = {NumberOf(k, d) : d \in Lost(k, r)}
      /\ shared[r][map[r]] = {NumberOf(k, d) : d \in SharedEntities(r)}
  BY <1>4 DEF Result
<1>6. /\ Lost(k, r) \subseteq SharedEntities(r) /\ SharedEntities(r) \subseteq DofsOf(space, r)
  BY <1>1, <1>3, KeptAndLost
<1>7. DofsOf(space, r) \subseteq Dofs(space) BY <1>1, Holding
<1>8. /\ Cardinality({NumberOf(k, d) : d \in Lost(k, r)}) = Cardinality(Lost(k, r))
      /\ Cardinality({NumberOf(k, d) : d \in SharedEntities(r)}) = Cardinality(SharedEntities(r))
  BY <1>1, <1>3, <1>6, <1>7, AsManyNumbers
<1>9. Lost(k, r) = {d \in SharedEntities(r) : space.owner[d] # r}
  BY <1>2, <1>6 DEF Lost, Keeper
<1> QED BY <1>5, <1>8, <1>9 DEF CountsMatch

(* A rank goes on to its next dof map.                                     *)
LEMMA ReturnKeeps ==
  ASSUME NumberingInv, NEW r \in Rank, Return(r)
  PROVE  NumberingInv'
<1>1. NumberingType /\ RankInv(r) BY DEF NumberingInv
<1>2. /\ pc[r] = "numbered"
      /\ pc' = [pc EXCEPT ![r] =
           IF Kind(r) = "entities" /\ ~CountsMatch(r) THEN "error"
           ELSE IF map[r] = 1 THEN "start" ELSE "built"]
      /\ map' = [map EXCEPT ![r] = 2]
      /\ space' = space /\ round' = round /\ posted' = posted /\ net' = net /\ coll' = coll
      /\ drawn' = drawn /\ sendbuf' = sendbuf /\ ufcShared' = ufcShared /\ ufcGhosts' = ufcGhosts
      /\ array' = array /\ range' = range /\ shared' = shared /\ ghosts' = ghosts
  BY DEF Return, mpi, flags, numbers, buffers
<1>3. pc'[r] = (IF map[r] = 1 THEN "start" ELSE "built")
  <2>1. ~(Kind(r) = "entities" /\ ~CountsMatch(r)) BY <1>1, <1>2, CountsAlwaysMatch
  <2> QED BY <1>1, <1>2, <2>1 DEF NumberingType
<1>4. map'[r] = 2 BY <1>1, <1>2 DEF NumberingType
<1>5. OthersStill(r) BY <1>1, <1>2 DEF NumberingType, OthersStill
<1>6. round[r] = 1 /\ ~posted[r]
  BY <1>1, <1>2 DEF NumberingType, Numbering, NumberingRings
<1>7. Passed(r)' = Passed(r) /\ Passed(r) \in 0 .. 4
  <2>1. Passed(r) = 2 * map[r] /\ map[r] \in 1 .. 2
    BY <1>1, <1>2, PassedType DEF Voting, Counting
  <2>2. CASE map[r] = 1
    <3>1. pc'[r] \in Voting BY <1>3, <2>2 DEF Voting
    <3> QED BY <1>4, <2>1, <2>2, <3>1 DEF Passed
  <2>3. CASE map[r] = 2
    <3>1. pc'[r] \notin Voting /\ pc'[r] \notin Counting BY <1>3, <2>3 DEF Voting, Counting
    <3> QED BY <1>4, <2>1, <2>3, <3>1 DEF Passed
  <2> QED BY <2>1, <2>2, <2>3
<1>8. NumberingType'
  BY <1>1, <1>2, <1>4, <1>5, <1>6, TypeKept DEF NumberingType
<1>9. Still(r)
  <2>1. Inside(r)' <=> Inside(r) BY <1>2, <1>3 DEF Inside, NumberingRings
  <2>2. pc'[r] \in Counted BY <1>3 DEF Counted, Numbering
  <2>9. pc[r] \in Building BY <1>2 DEF Building, Counted, Numbering, NumberingRings
  <2> QED BY <1>2, <1>5, <1>7, <2>1, <2>2, <2>9 DEF Still
<1>10. RankInv(r)'
  <2>1. \A b \in 1 .. 2 : (2 * b <= Passed(r) => Result(r, b, space.kind[b]))'
    BY <1>1, <1>2, <1>7, EarlierResults
  <2> QED BY <1>3, <2>1 DEF RankInv
<1> QED BY <1>2, <1>8, <1>9, <1>10, CombineStill DEF CollStep

------------------------------------------------------------------------------
(* The steps after the numbering *)

(* They leave the numbers alone.                                           *)
LEMMA LaterKeeps ==
  ASSUME NumberingInv, NEW r \in Rank, AllNumbered, map[r] = 2,
         UNCHANGED numbering, sendbuf' = sendbuf, CollStep(r),
         DOMAIN pc' = Rank, \A q \in Rank \ {r} : pc'[q] = pc[q],
         pc'[r] \notin Numbering \ {"error"},
         round' \in [Rank -> 1 .. (P - 1)], posted' \in [Rank -> BOOLEAN],
         \A q \in Rank \ {r} : round'[q] = round[q] /\ posted'[q] = posted[q],
         DOMAIN net' = DOMAIN net, pc'[r] \in Building => pc[r] \in Building /\ net' = net
  PROVE  NumberingInv'
<1>1. NumberingType /\ SyncInv /\ ChannelsInv /\ RankInv(r) BY DEF NumberingInv
<1>2. /\ space' = space /\ map' = map /\ drawn' = drawn
      /\ ufcShared' = ufcShared /\ ufcGhosts' = ufcGhosts
      /\ array' = array /\ range' = range /\ shared' = shared /\ ghosts' = ghosts
  BY DEF numbering, flags, numbers
<1>3. OthersStill(r) BY <1>2 DEF OthersStill
<1>4. Passed(r) = 4 BY DEF AllNumbered
<1>5. Passed(r)' = 4
  <2>1. pc'[r] \notin Voting /\ pc'[r] \notin Counting
    BY DEF Voting, Counting, Numbering, NumberingRings
  <2> QED BY <1>2, <2>1 DEF Passed
<1>6. AllNumbered'
  <2>1. ASSUME NEW q \in Rank PROVE Passed(q)' = 4
    <3>1. CASE q = r BY <1>5, <3>1
    <3>2. CASE q # r
      <4>1. Passed(q)' = Passed(q) BY <1>3, <3>2, OthersStand
      <4> QED BY <4>1 DEF AllNumbered
    <3> QED BY <3>1, <3>2
  <2> QED BY <2>1 DEF AllNumbered
<1>7. DOMAIN coll' = DOMAIN coll BY ContributeAdds DEF CollStep
<1>8. NumberingType'
  <2>1. pc'[r] \notin Numbering \ (NumberingRings \cup {"error"}) BY DEF NumberingRings
  <2>2. pc'[r] \notin Numbering => map'[r] = 2 BY <1>2
  <2>3. /\ DOMAIN drawn' = Rank /\ DOMAIN ufcShared' = Rank /\ DOMAIN ufcGhosts' = Rank
        /\ DOMAIN array' = Rank /\ DOMAIN range' = Rank /\ DOMAIN shared' = Rank
        /\ DOMAIN ghosts' = Rank /\ DOMAIN sendbuf' = Rank
        /\ DOMAIN array'[r] = 1 .. 2 /\ DOMAIN range'[r] = 1 .. 2
        /\ DOMAIN shared'[r] = 1 .. 2 /\ DOMAIN ghosts'[r] = 1 .. 2
    BY <1>1, <1>2 DEF NumberingType
  <2> QED BY <1>1, <1>2, <1>3, <1>7, <2>1, <2>2, <2>3, TypeKept
<1>9. SyncInv'
  <2>1. \A q \in Rank : Passed(q)' = 4 BY <1>6 DEF AllNumbered
  <2>2. \A q, p \in Rank, m \in 1 .. 4 : (Ring(m) /\ Entered(q, m) => Passed(p) >= m - 1)'
    <3>1. ASSUME NEW p \in Rank, NEW m \in 1 .. 4 PROVE Passed(p)' >= m - 1 BY <2>1
    <3> QED BY <3>1
  <2>3. \A q \in Rank : (pc[q] \notin Counted => AllNumbered)' BY <1>6
  <2> QED BY <2>2, <2>3 DEF SyncInv
<1>10. ChannelsInv'
  <2>1. SUFFICES ASSUME ~RowsBegun', NEW q \in Rank, NEW p \in Rank, q # p PROVE Channel(q, p)'
    BY DEF ChannelsInv
  <2>2. ~RowsBegun /\ net' = net
    <3>1. RowsBegun => RowsBegun' BY BegunStays
    <3>2. pc'[r] \in Building BY <2>1 DEF RowsBegun
    <3> QED BY <2>1, <3>1, <3>2
  <2>3. Channel(q, p) BY <1>1, <2>1, <2>2 DEF ChannelsInv
  <2>4. /\ \A m \in 1 .. 4 : \A j : Given(q, j, m) /\ Taken(p, j, m)
        /\ \A m \in 1 .. 4 : \A j : Given(q, j, m)' /\ Taken(p, j, m)'
    <3>1. Passed(q) = 4 /\ Passed(p) = 4 BY DEF AllNumbered
    <3>2. Passed(q)' = 4 /\ Passed(p)' = 4 BY <1>6 DEF AllNumbered
    <3>3. \A m \in 1 .. 4 : m <= 4 OBVIOUS
    <3> QED BY <3>1, <3>2, <3>3 DEF Given, Taken
  <2>5. net[<<q, p, 1>>] = <<>> BY <2>3, <2>4 DEF Channel, Pending
  <2>6. /\ \A m \in 1 .. 4 : (Ring(m) /\ Taken(p, Gap(q, p), m) => Given(q, Gap(q, p), m))'
        /\ \A m \in 1 .. 4 : ~Pending(q, p, m)'
    BY <2>4 DEF Pending
  <2>7. net'[<<q, p, 1>>] = <<>> BY <2>2, <2>5
  <2> QED BY <2>6, <2>7 DEF Channel
<1>11. RankInv(r)'
  <2>1. \A b \in 1 .. 2 : 2 * b <= Passed(r) => Result(r, b, space.kind[b])'
    BY <1>1, <1>2, EarlierResults
  <2>2. \A b \in 1 .. 2 : (2 * b <= Passed(r) => Result(r, b, space.kind[b]))'
    BY <1>4, <1>5, <2>1
  <2>3. pc'[r] \notin Voting /\ pc'[r] \notin Counting
    BY DEF Voting, Counting, Numbering, NumberingRings
  <2> QED BY <2>2, <2>3 DEF RankInv, Voting, Counting
<1> QED BY <1>3, <1>4, <1>5, <1>8, <1>9, <1>10, <1>11, Combine

(* A rank enters the gathering of the ranges.                              *)
LEMMA StartInitKeeps ==
  ASSUME NumberingInv, NEW r \in Rank, StartInit(r)
  PROVE  NumberingInv'
<1> DEFINE c == <<"ranges", 1>>
           v == [b \in 1 .. 2 |-> range[r][b].size]
<1>1. NumberingType /\ RankInv(r) BY DEF NumberingInv
<1>2. /\ pc[r] = "built" /\ Contribute(c, r, v) /\ pc' = [pc EXCEPT ![r] = "ranges"]
      /\ space' = space /\ map' = map /\ drawn' = drawn /\ sendbuf' = sendbuf
      /\ round' = round /\ posted' = posted /\ net' = net
      /\ ufcShared' = ufcShared /\ ufcGhosts' = ufcGhosts
      /\ array' = array /\ range' = range /\ shared' = shared /\ ghosts' = ghosts
  BY DEF StartInit, numbering, flags, numbers, buffers
<1> HIDE DEF v
<1>3. pc'[r] = "ranges" BY <1>1, <1>2 DEF NumberingType
<1>4. map[r] = 2 BY <1>1, <1>2 DEF NumberingType, Numbering, NumberingRings
<1>5. OthersStill(r) BY <1>1, <1>2 DEF NumberingType, OthersStill
<1>6. Passed(r) = 4 /\ Passed(r)' = 4
  <2>1. /\ pc[r] \notin Voting /\ pc[r] \notin Counting
        /\ pc'[r] \notin Voting /\ pc'[r] \notin Counting
    BY <1>2, <1>3 DEF Voting, Counting
  <2>2. Passed(r) = 2 * map[r] BY <1>4, <2>1 DEF Passed
  <2>3. Passed(r)' = 2 * map'[r] BY <1>2, <1>4, <2>1 DEF Passed
  <2> QED BY <1>2, <1>4, <2>2, <2>3
<1>7. c \in DOMAIN coll BY <1>1 DEF NumberingType, PatternReductions
<1>8. CollStep(r)
  <2>1. Fits(c, r, v) BY <1>6 DEF Fits
  <2> QED BY <1>2, <1>7, <2>1 DEF CollStep
<1>9. DOMAIN coll' = DOMAIN coll BY <1>2, <1>7, ContributeAdds
<1>10. NumberingType'
  BY <1>1, <1>2, <1>3, <1>4, <1>5, <1>9, TypeKept DEF NumberingType, Numbering, NumberingRings
<1>11. Still(r)
  <2>1. Inside(r)' <=> Inside(r) BY <1>2, <1>3 DEF Inside, NumberingRings
  <2>2. pc'[r] \in Counted BY <1>3 DEF Counted
  <2>9. pc[r] \in Building BY <1>2 DEF Building, Counted, Numbering, NumberingRings
  <2> QED BY <1>2, <1>5, <1>6, <2>1, <2>2, <2>9 DEF Still
<1>12. RankInv(r)'
  <2>1. \A b \in 1 .. 2 : (2 * b <= Passed(r) => Result(r, b, space.kind[b]))'
    BY <1>1, <1>2, <1>6, EarlierResults
  <2> QED BY <1>3, <2>1 DEF RankInv
<1> QED BY <1>8, <1>10, <1>11, <1>12, CombineStill

(* A rank that leaves the first reduction of the pattern finds all numbered.*)
LEMMA EndInitKeeps ==
  ASSUME NumberingInv, NEW r \in Rank, EndInit(r)
  PROVE  NumberingInv'
<1> DEFINE c == <<"ranges", 1>>
<1>1. NumberingType /\ CollInv BY DEF NumberingInv
<1>2. /\ pc[r] = "ranges" /\ Reduced(c) /\ pc' = [pc EXCEPT ![r] = "ready"]
      /\ UNCHANGED numbering /\ sendbuf' = sendbuf
      /\ round' = round /\ posted' = posted /\ net' = net /\ coll' = coll
  BY DEF EndInit, mpi, buffers
<1>3. map[r] = 2 BY <1>1, <1>2 DEF NumberingType, Numbering, NumberingRings
<1>4. AllNumbered
  <2>1. 1 \in 1 .. 2 OBVIOUS
  <2>2. \A q \in Rank : q \in DOMAIN coll[c] BY <1>2 DEF Reduced
  <2> QED BY <1>1, <2>1, <2>2 DEF AllNumbered, CollInv
<1>5. /\ pc'[r] = "ready" /\ DOMAIN pc' = Rank /\ \A q \in Rank \ {r} : pc'[q] = pc[q]
  BY <1>1, <1>2 DEF NumberingType
<1>6. pc'[r] \notin Numbering \ {"error"} BY <1>5 DEF Numbering, NumberingRings
<1>7. round' \in [Rank -> 1 .. (P - 1)] /\ posted' \in [Rank -> BOOLEAN]
  BY <1>1, <1>2 DEF NumberingType
<1>8. /\ \A q \in Rank \ {r} : round'[q] = round[q] /\ posted'[q] = posted[q]
      /\ DOMAIN net' = DOMAIN net /\ CollStep(r)
  BY <1>2 DEF CollStep
<1>9. pc[r] \in Building /\ net' = net BY <1>2 DEF Building, Counted
<1> QED BY <1>9, <1>2, <1>3, <1>4, <1>5, <1>6, <1>7, <1>8, LaterKeeps

(* A local step, and one that gives to a reduction.                        *)
LEMMA LaterLocally ==
  ASSUME NumberingInv, NEW r \in Rank, pc[r] \notin Counted \cup {"error"}, CollStep(r),
         UNCHANGED <<numbering, round, posted, sendbuf>>, DOMAIN net' = DOMAIN net,
         NEW stage, stage \notin Numbering \ {"error"}, pc' = [pc EXCEPT ![r] = stage],
         stage \in Building => pc[r] \in Building /\ net' = net
  PROVE  NumberingInv'
<1>1. NumberingType /\ SyncInv BY DEF NumberingInv
<1>2. AllNumbered /\ map[r] = 2 BY <1>1 DEF SyncInv, NumberingType, Counted
<1>3. /\ pc'[r] = stage /\ DOMAIN pc' = Rank /\ \A q \in Rank \ {r} : pc'[q] = pc[q]
      /\ round' = round /\ posted' = posted
  BY <1>1 DEF NumberingType
<1>4. round' \in [Rank -> 1 .. (P - 1)] /\ posted' \in [Rank -> BOOLEAN]
  BY <1>1, <1>3 DEF NumberingType
<1>5. UNCHANGED numbering /\ sendbuf' = sendbuf OBVIOUS
<1> QED BY <1>2, <1>3, <1>4, <1>5, LaterKeeps

(* Once all ranks have their numbers a send cannot disturb them,           *)
LEMMA LaterSends ==
  ASSUME NumberingInv, NEW r \in Rank, pc[r] \notin Building \cup {"error"},
         NEW q, NEW body, Send(r, q, 1, body),
         UNCHANGED <<numbering, pc, round, coll, sendbuf>>
  PROVE  NumberingInv'
<1>1. NumberingType /\ SyncInv BY DEF NumberingInv
<1>2. AllNumbered /\ map[r] = 2 BY <1>1 DEF SyncInv, NumberingType, Counted, Building
<1>3. pc'[r] \notin Building /\ pc'[r] \notin Numbering \ {"error"} BY DEF Counted, Building
<1>4. posted' = [posted EXCEPT ![r] = TRUE] /\ DOMAIN net' = DOMAIN net BY DEF Send
<1>5. /\ round' \in [Rank -> 1 .. (P - 1)] /\ posted' \in [Rank -> BOOLEAN]
      /\ DOMAIN pc' = Rank /\ \A p \in Rank \ {r} : pc'[p] = pc[p]
      /\ \A p \in Rank \ {r} : round'[p] = round[p] /\ posted'[p] = posted[p]
  BY <1>1, <1>4 DEF NumberingType
<1>6. UNCHANGED numbering /\ sendbuf' = sendbuf /\ CollStep(r) BY DEF CollStep
<1> QED BY <1>2, <1>3, <1>4, <1>5, <1>6, LaterKeeps

(* nor can a receive.                                                      *)
LEMMA LaterTakes ==
  ASSUME NumberingInv, NEW r \in Rank, pc[r] \notin Building \cup {"error"},
         NEW q, Recv(r, q, 1),
         NextRound(r) \/ round' = round, UNCHANGED <<numbering, coll, sendbuf>>,
         NEW stage, stage \notin Building, pc' = [pc EXCEPT ![r] = stage]
  PROVE  NumberingInv'
<1>1. NumberingType /\ SyncInv BY DEF NumberingInv
<1>2. AllNumbered /\ map[r] = 2 BY <1>1 DEF SyncInv, NumberingType, Counted, Building
<1>3. /\ pc'[r] = stage /\ DOMAIN pc' = Rank /\ \A p \in Rank \ {r} : pc'[p] = pc[p]
  BY <1>1 DEF NumberingType
<1>4. posted' = [posted EXCEPT ![r] = FALSE] /\ DOMAIN net' = DOMAIN net BY DEF Recv
<1>5. posted' \in [Rank -> BOOLEAN] /\ \A p \in Rank \ {r} : posted'[p] = posted[p]
  BY <1>1, <1>4 DEF NumberingType
<1>6. round' \in [Rank -> 1 .. (P - 1)] /\ \A p \in Rank \ {r} : round'[p] = round[p]
  <2>1. round \in [Rank -> 1 .. (P - 1)] /\ P \in Nat \ {0, 1} BY <1>1, PAssumption DEF NumberingType
  <2>2. CASE NextRound(r)
    <3>1. round' = [round EXCEPT ![r] = IF LastRound(r) THEN 1 ELSE @ + 1]
      BY <2>2 DEF NextRound
    <3>2. (IF LastRound(r) THEN 1 ELSE round[r] + 1) \in 1 .. (P - 1) BY <2>1 DEF LastRound
    <3> QED BY <2>1, <3>1, <3>2
  <2> QED BY <2>1, <2>2
<1>7. UNCHANGED numbering /\ sendbuf' = sendbuf /\ CollStep(r) BY DEF CollStep
<1>8. pc'[r] \notin Building /\ pc'[r] \notin Numbering \ {"error"} BY <1>3 DEF Building, Counted
<1> QED BY <1>2, <1>3, <1>4, <1>5, <1>6, <1>7, <1>8, LaterKeeps

(* The steps of the sparsity pattern keep the numbers.                     *)
LEMMA PatternKeeps ==
  ASSUME NumberingInv, NEW r \in Rank, PatternStep(r)
  PROVE  NumberingInv'
<1>1. NumberingType BY DEF NumberingInv
<1>2. /\ <<"rows max", 1>> \in DOMAIN coll
      /\ \A v : Fits(<<"rows max", 1>>, r, v)
  BY <1>1 DEF NumberingType, PatternReductions, Fits
<1>3. CASE StartInit(r) BY <1>3, StartInitKeeps
<1>4. CASE EndInit(r) BY <1>4, EndInitKeeps
<1>5. CASE Insert(r)
  <2>1. /\ pc[r] = "ready" /\ pc' = [pc EXCEPT ![r] = "inserted"]
        /\ UNCHANGED <<numbering, round, posted, sendbuf>> /\ net' = net /\ coll' = coll
    BY <1>5 DEF Insert, mpi, buffers
  <2>2. /\ pc[r] \notin Counted \cup {"error"} /\ "inserted" \notin Numbering \ {"error"} /\ CollStep(r)
        /\ pc[r] \in Building
    BY <2>1 DEF Building, Counted, Numbering, NumberingRings, CollStep
  <2> QED BY <2>1, <2>2, LaterLocally
<1>6. CASE StartApply(r)
  <2>1. PICK v : Contribute(<<"rows max", 1>>, r, v) BY <1>6 DEF StartApply
  <2>2. /\ pc[r] = "inserted" /\ pc' = [pc EXCEPT ![r] = "rows max"]
        /\ UNCHANGED <<numbering, round, posted, sendbuf>> /\ net' = net
    BY <1>6 DEF StartApply, buffers
  <2>3. CollStep(r) BY <1>2, <2>1 DEF CollStep
  <2>4. /\ pc[r] \notin Counted \cup {"error"} /\ "rows max" \notin Numbering \ {"error"}
        /\ pc[r] \in Building
    BY <2>2 DEF Building, Counted, Numbering, NumberingRings
  <2> QED BY <2>2, <2>3, <2>4, LaterLocally
<1>7. CASE EndApplyMax(r)
  <2>1. PICK stage : /\ stage \in {"done", "rows"} /\ pc' = [pc EXCEPT ![r] = stage]
    BY <1>7 DEF EndApplyMax
  <2>2. /\ pc[r] = "rows max"
        /\ UNCHANGED <<numbering, round, posted, sendbuf>> /\ net' = net /\ coll' = coll
    BY <1>7 DEF EndApplyMax, mpi
  <2>3. /\ pc[r] \notin Counted \cup {"error"} /\ stage \notin Numbering \ {"error"} /\ CollStep(r)
        /\ stage \notin Building
    BY <2>1, <2>2 DEF Building, Counted, Numbering, NumberingRings, CollStep
  <2> QED BY <2>1, <2>2, <2>3, LaterLocally
<1>8. CASE SendRows(r)
  <2>1. PICK q, body : Send(r, q, 1, body) BY <1>8 DEF SendRows
  <2>2. pc[r] = "rows" /\ UNCHANGED <<numbering, pc, round, coll, sendbuf>>
    BY <1>8 DEF SendRows, buffers
  <2>3. pc[r] \notin Building \cup {"error"} BY <2>2 DEF Building, Counted, Numbering, NumberingRings
  <2> QED BY <2>1, <2>2, <2>3, LaterSends
<1>9. CASE ReturnRows(r)
  <2>1. PICK stage : /\ stage \in {"error", "done", "rows"} /\ pc' = [pc EXCEPT ![r] = stage]
    BY <1>9 DEF ReturnRows
  <2>2. /\ pc[r] = "rows" /\ Recv(r, From(r), 1) /\ NextRound(r)
        /\ UNCHANGED <<numbering, coll, sendbuf>>
    BY <1>9 DEF ReturnRows, buffers
  <2>3. pc[r] \notin Building \cup {"error"} /\ stage \notin Building
    BY <2>1, <2>2 DEF Building, Counted, Numbering, NumberingRings
  <2> QED BY <2>1, <2>2, <2>3, LaterTakes
<1> QED BY <1>3, <1>4, <1>5, <1>6, <1>7, <1>8, <1>9 DEF PatternStep

(* The steps of the halo keep the numbers.                                 *)
LEMMA HaloKeeps ==
  ASSUME NumberingInv, NEW r \in Rank, HaloStep(r)
  PROVE  NumberingInv'
<1>1. CASE StartMapping(r)
  <2>1. /\ pc[r] = "done" /\ pc' = [pc EXCEPT ![r] = "mapping"] /\ DOMAIN net' = DOMAIN net
        /\ UNCHANGED <<numbering, round, posted, sendbuf>> /\ coll' = coll
    BY <1>1 DEF StartMapping, buffers
  <2>2. /\ pc[r] \notin Counted \cup {"error"} /\ "mapping" \notin Numbering \ {"error"} /\ CollStep(r)
        /\ "mapping" \notin Building
    BY <2>1 DEF Building, Counted, Numbering, NumberingRings, CollStep
  <2> QED BY <2>1, <2>2, LaterLocally
<1>2. CASE EndMapping(r)
  <2>1. PICK stage : /\ stage \in {"mapped", "error"} /\ pc' = [pc EXCEPT ![r] = stage]
    BY <1>2 DEF EndMapping
  <2>2. /\ pc[r] = "mapping" /\ DOMAIN net' = DOMAIN net
        /\ UNCHANGED <<numbering, round, posted, sendbuf>> /\ coll' = coll
    BY <1>2 DEF EndMapping, buffers
  <2>3. /\ pc[r] \notin Counted \cup {"error"} /\ stage \notin Numbering \ {"error"} /\ CollStep(r)
        /\ stage \notin Building
    BY <2>1, <2>2 DEF Building, Counted, Numbering, NumberingRings, CollStep
  <2> QED BY <2>1, <2>2, <2>3, LaterLocally
<1>3. CASE FillHalo(r)
  <2>1. /\ pc[r] = "mapped" /\ pc' = [pc EXCEPT ![r] = "halo reals"]
        /\ UNCHANGED <<numbering, round, posted, sendbuf>> /\ net' = net /\ coll' = coll
    BY <1>3 DEF FillHalo, mpi, buffers
  <2>2. /\ pc[r] \notin Counted \cup {"error"} /\ "halo reals" \notin Numbering \ {"error"} /\ CollStep(r)
        /\ "halo reals" \notin Building
    BY <2>1 DEF Building, Counted, Numbering, NumberingRings, CollStep
  <2> QED BY <2>1, <2>2, LaterLocally
<1>4. CASE SendHalo(r)
  <2>1. PICK q, body : Send(r, q, 1, body) BY <1>4 DEF SendHalo
  <2>2. pc[r] \in HaloRings /\ UNCHANGED <<numbering, pc, round, coll, sendbuf>>
    BY <1>4 DEF SendHalo, buffers
  <2>3. pc[r] \notin Building \cup {"error"} BY <2>2 DEF Building, Counted, Numbering, NumberingRings, HaloRings
  <2> QED BY <2>1, <2>2, <2>3, LaterSends
<1>5. CASE ReturnHalo(r)
  <2>1. /\ pc[r] \in HaloRings /\ Recv(r, From(r), 1) /\ UNCHANGED <<numbering, coll, sendbuf>>
    BY <1>5 DEF ReturnHalo, buffers
  <2>2. PICK stage : /\ stage \in {"halo dofs", "filled", "halo reals"}
                     /\ pc' = [pc EXCEPT ![r] = stage]
    BY <1>5 DEF ReturnHalo
  <2>3. NextRound(r) \/ round' = round BY <1>5 DEF ReturnHalo
  <2>4. pc[r] \notin Building \cup {"error"} /\ stage \notin Building
    BY <2>1, <2>2 DEF Building, Counted, Numbering, NumberingRings, HaloRings
  <2> QED BY <2>1, <2>2, <2>3, <2>4, LaterTakes
<1>6. CASE AssembleFacets(r)
  <2>1. /\ pc[r] = "filled" /\ pc' = [pc EXCEPT ![r] = "assembled"]
        /\ UNCHANGED <<numbering, round, posted, sendbuf>> /\ net' = net /\ coll' = coll
    BY <1>6 DEF AssembleFacets, mpi, buffers
  <2>2. /\ pc[r] \notin Counted \cup {"error"} /\ "assembled" \notin Numbering \ {"error"} /\ CollStep(r)
        /\ "assembled" \notin Building
    BY <2>1 DEF Building, Counted, Numbering, NumberingRings, CollStep
  <2> QED BY <2>1, <2>2, LaterLocally
<1> QED BY <1>1, <1>2, <1>3, <1>4, <1>5, <1>6 DEF HaloStep

(* The steps of the numbering keep the invariant.                          *)
LEMMA NumberingStepKeeps ==
  ASSUME NumberingInv, NEW r \in Rank, NumberingStep(r)
  PROVE  NumberingInv'
<1>1. CASE StartVotes(r) BY <1>1, StartVotesKeeps
<1>2. CASE EndVotesMax(r)
  <2>1. PICK name, next : name = "votes max" /\ next = "votes" OBVIOUS
  <2>2. EndMax(r, <<name, map[r]>>, next) BY <1>2, <2>1 DEF EndVotesMax
  <2> QED BY <2>1, <2>2, EndMaxKeeps
<1>3. CASE ReturnVotes(r) BY <1>3, ReturnVotesKeeps
<1>4. CASE StartEntities(r) BY <1>4, StartEntitiesKeeps
<1>5. CASE StartOffset(r) BY <1>5, StartOffsetKeeps
<1>6. CASE EndOffset(r) BY <1>6, EndOffsetKeeps
<1>7. CASE EndNumbersMax(r)
  <2>1. PICK name, next : name = "numbers max" /\ next = "numbers" OBVIOUS
  <2>2. EndMax(r, <<name, map[r]>>, next) BY <1>7, <2>1 DEF EndNumbersMax
  <2> QED BY <2>1, <2>2, EndMaxKeeps
<1>8. CASE NumberingSend(r) BY <1>8, NumberingSendKeeps
<1>9. CASE ReturnNumbers(r) BY <1>9, ReturnNumbersKeeps
<1>10. CASE Return(r) BY <1>10, ReturnKeeps
<1> QED BY <1>1, <1>2, <1>3, <1>4, <1>5, <1>6, <1>7, <1>8, <1>9, <1>10 DEF NumberingStep

(* A step that changes nothing keeps it.                                   *)
LEMMA StutterKeeps ==
  ASSUME NumberingInv, UNCHANGED vars
  PROVE  NumberingInv'
<1>1. PICK r : r \in Rank BY PAssumption DEF Rank
<1>2. /\ space' = space /\ map' = map /\ round' = round /\ posted' = posted /\ pc' = pc
      /\ net' = net /\ coll' = coll /\ drawn' = drawn /\ sendbuf' = sendbuf
      /\ ufcShared' = ufcShared /\ ufcGhosts' = ufcGhosts
      /\ array' = array /\ range' = range /\ shared' = shared /\ ghosts' = ghosts
  BY DEF vars, patternVars, numbering, mpi, buffers, flags, numbers
<1>3. NumberingType /\ SyncInv /\ RankInv(r) BY <1>1 DEF NumberingInv
<1>4. OthersStill(r) BY <1>2 DEF OthersStill
<1>5. NumberingType' BY <1>2, <1>3 DEF NumberingType
<1>6. Passed(r)' = Passed(r) /\ (Inside(r)' <=> Inside(r)) BY <1>2 DEF Passed, Inside
<1>7. Still(r) BY <1>1, <1>2, <1>3, <1>4, <1>6 DEF Still, SyncInv
<1>8. RankInv(r)' BY <1>2, <1>3, RankStays
<1> QED BY <1>1, <1>2, <1>5, <1>7, <1>8, CombineStill DEF CollStep

(* It holds at the start.                                                  *)
LEMMA StartsNumbering ==
  ASSUME Init
  PROVE  NumberingInv
<1>1. NumberingInit /\ InitMPI({0, 1}, NumberingReductions \cup PatternReductions) BY DEF Init
<1>2. /\ space \in Spaces
      /\ pc = [r \in Rank |-> "start"] /\ map = [r \in Rank |-> 1]
      /\ drawn = [r \in Rank |-> 0]
      /\ ufcShared = [r \in Rank |-> {}] /\ ufcGhosts = [r \in Rank |-> {}]
      /\ array = [r \in Rank |-> [b \in 1 .. 2 |-> [d \in DofsOf(space, r) |-> Unset]]]
      /\ range = [r \in Rank |-> [b \in 1 .. 2 |-> [offset |-> 0, size |-> 0]]]
      /\ shared = [r \in Rank |-> [b \in 1 .. 2 |-> {}]]
      /\ ghosts = [r \in Rank |-> [b \in 1 .. 2 |-> {}]]
      /\ sendbuf = [r \in Rank |-> <<>>]
  BY <1>1 DEF NumberingInit
<1>3. /\ round = [r \in Rank |-> 1] /\ posted = [r \in Rank |-> FALSE]
      /\ net = [c \in Rank \X Rank \X {0, 1} |-> <<>>]
      /\ coll = [c \in NumberingReductions \cup PatternReductions |-> <<>>]
  BY <1>1 DEF InitMPI
<1>4. NumberingType
  <2>1. map \in [Rank -> 1 .. 2] BY <1>2
  <2>2. round \in [Rank -> 1 .. (P - 1)] BY <1>3, PAssumption
  <2>3. posted \in [Rank -> BOOLEAN] BY <1>3
  <2>4. DOMAIN net = Rank \X Rank \X {0, 1} BY <1>3
  <2>5. DOMAIN coll = NumberingReductions \cup PatternReductions BY <1>3
  <2>6. \A r \in Rank : pc[r] \in Numbering /\ round[r] = 1 /\ ~posted[r]
    BY <1>2, <1>3 DEF Numbering
  <2> QED BY <1>2, <2>1, <2>2, <2>3, <2>4, <2>5, <2>6 DEF NumberingType
<1>5. \A r \in Rank : Passed(r) = 0 /\ ~Inside(r)
  BY <1>2 DEF Passed, Inside, Voting, NumberingRings
<1>6. \A r \in Rank : pc[r] = "start" BY <1>2
<1>7. CollInv
  <2>1. \A c \in DOMAIN coll : DOMAIN coll[c] = {} BY <1>3
  <2>2. ASSUME NEW b \in 1 .. 2
        PROVE  /\ <<"votes max", b>> \in DOMAIN coll /\ <<"offset", b>> \in DOMAIN coll
               /\ <<"numbers max", b>> \in DOMAIN coll /\ <<"ranges", 1>> \in DOMAIN coll
    BY <1>3 DEF NumberingReductions, PatternReductions
  <2> QED BY <2>1, <2>2 DEF CollInv
<1>8. SyncInv
  <2>1. ASSUME NEW q \in Rank, NEW m \in 1 .. 4 PROVE ~Entered(q, m)
    BY <1>5 DEF Entered
  <2>2. \A q \in Rank : pc[q] \in Counted BY <1>6 DEF Counted, Numbering
  <2> QED BY <2>1, <2>2 DEF SyncInv
<1>9. ASSUME NEW q \in Rank, NEW r \in Rank PROVE Channel(q, r)
  <2>1. \A m \in 1 .. 4 : \A j : ~Given(q, j, m) /\ ~Taken(r, j, m) BY <1>5 DEF Given, Taken
  <2>2. net[<<q, r, 1>>] = <<>> BY <1>3
  <2> QED BY <2>1, <2>2 DEF Channel, Pending
<1>10. ASSUME NEW r \in Rank PROVE RankInv(r)
  <2>1. \A b \in 1 .. 2 : ~(2 * b <= Passed(r)) BY <1>5
  <2> QED BY <1>6, <2>1 DEF RankInv
<1> QED BY <1>4, <1>7, <1>8, <1>9, <1>10 DEF NumberingInv, ChannelsInv

(* Every reachable state satisfies the invariant: DofNumbering::build()    *)
(* gives all ranks the numbers that mesh and draws determine, whichever    *)
(* way their steps are interleaved.                                        *)
THEOREM NumberingInvariant == Spec => []NumberingInv
<1>1. Init => NumberingInv BY StartsNumbering
<1>2. NumberingInv /\ [Next]_vars => NumberingInv'
  <2>1. SUFFICES ASSUME NumberingInv, [Next]_vars PROVE NumberingInv' OBVIOUS
  <2>2. CASE UNCHANGED vars BY <2>1, <2>2, StutterKeeps
  <2>3. ASSUME NEW r \in Rank, Step(r) PROVE NumberingInv'
    <3>1. NumberingStep(r) \/ PatternStep(r) \/ HaloStep(r) BY <2>3 DEF Step, BuildStep
    <3> QED BY <2>1, <3>1, NumberingStepKeeps, PatternKeeps, HaloKeeps
  <2> QED BY <2>1, <2>2, <2>3 DEF Next
<1> QED BY <1>1, <1>2, PTL DEF Spec

------------------------------------------------------------------------------
(* What the invariant says of the dof maps *)

(* A dof map that a rank has is the result of its numbering.               *)
LEMMA BuiltIsResult ==
  ASSUME NumberingInv, NEW r \in Rank, NEW b \in 1 .. 2, Has(r, b)
  PROVE  Result(r, b, space.kind[b])
<1>1. NumberingType /\ RankInv(r) BY DEF NumberingInv
<1>2. map[r] \in 1 .. 2 /\ Passed(r) \in 0 .. 4 BY <1>1, PassedType
<1>3. CASE map[r] > b
  <2>1. b = 1 /\ map[r] = 2 BY <1>2, <1>3
  <2>2. 2 * b <= Passed(r) BY <2>1 DEF Passed
  <2> QED BY <1>1, <2>2 DEF RankInv
<1>4. CASE map[r] = b /\ pc[r] \notin Numbering
  <2>1. pc[r] \notin Voting /\ pc[r] \notin Counting
    BY <1>4 DEF Voting, Counting, Numbering, NumberingRings
  <2>2. 2 * b <= Passed(r) BY <1>2, <1>4, <2>1 DEF Passed
  <2> QED BY <1>1, <2>2 DEF RankInv
<1> QED BY <1>3, <1>4 DEF Has

(* The range of a rank has the numbers of the dofs it keeps.               *)
LEMMA RangeIsKept ==
  ASSUME space \in Spaces, NEW r \in Rank, NEW b \in 1 .. 2, NEW k \in Kinds, Result(r, b, k),
         NEW d \in Dofs(space)
  PROVE  InRange(r, b, NumberOf(k, d)) <=> Keeper(k, d) = r
<1>1. PICK D, keep, place : D = Dofs(space) /\ keep = KeeperMap(k) /\ place = PlaceMap OBVIOUS
<1>2. Blocks(D, keep, place, P) BY <1>1, NumbersAreBlocks
<1>3. /\ Kept(k, r) = BlockOf(D, keep, r) /\ FirstOf(k, r) = BlockStart(D, keep, r)
      /\ keep[d] = Keeper(k, d) /\ NumberOf(k, d) = BlockNumber(D, keep, place, d)
  BY <1>1, NumbersAreBlocks
<1>4. r \in 0 .. (P - 1) BY DEF Rank
<1>5. /\ BlockStart(D, keep, r) <= BlockNumber(D, keep, place, d)
      /\ BlockNumber(D, keep, place, d) < BlockStart(D, keep, r) + Cardinality(BlockOf(D, keep, r))
      <=> keep[d] = r
  BY <1>1, <1>2, <1>4, NumberInBlock
<1>6. range[r][b] = RangeOf(k, r) BY DEF Result
<1>7. /\ range[r][b].offset = FirstOf(k, r)
      /\ range[r][b].size = Cardinality(Kept(k, r))
  BY <1>6 DEF RangeOf
<1> QED BY <1>3, <1>5, <1>7 DEF InRange

(* When all ranks have their result the numbers are 0 .. n - 1, one rank   *)
(* has each in its range, and the holders agree.                           *)
LEMMA ResultsAgree ==
  ASSUME space \in Spaces, NEW b \in 1 .. 2, NEW k \in Kinds, \A r \in Rank : Result(r, b, k)
  PROVE  LET number(d) == array[CHOOSE q \in Rank : q \in HoldersOf(space, d)][b][d]
         IN  /\ {number(d) : d \in Dofs(space)} = 0 .. (Cardinality(Dofs(space)) - 1)
             /\ \A d \in Dofs(space) :
                  LET n == number(d)
                      holders == HoldersOf(space, d)
                  IN  /\ Cardinality({r \in holders : InRange(r, b, n)}) = 1
                      /\ \A r \in holders :
                           /\ array[r][b][d] = n
                           /\ n \in ghosts[r][b] <=> ~InRange(r, b, n)
                           /\ n \in shared[r][b] <=> holders # {r}
<1> DEFINE number(d) == array[CHOOSE q \in Rank : q \in HoldersOf(space, d)][b][d]
<1>1. ASSUME NEW d, NEW r \in HoldersOf(space, d)
      PROVE  /\ r \in Rank /\ d \in DofsOf(space, r) /\ d \in Dofs(space)
             /\ array[r][b][d] = NumberOf(k, d)
  <2>1. r \in Rank /\ d \in DofsOf(space, r) BY DEF HoldersOf
  <2>2. d \in Dofs(space) BY <2>1 DEF Dofs
  <2> QED BY <2>1, <2>2 DEF Result
<1>2. ASSUME NEW d \in Dofs(space) PROVE number(d) = NumberOf(k, d)
  <2>1. Keeper(k, d) \in Rank /\ Keeper(k, d) \in HoldersOf(space, d) BY KeeperHolds
  <2>2. (CHOOSE q \in Rank : q \in HoldersOf(space, d)) \in HoldersOf(space, d) BY <2>1
  <2> QED BY <1>1, <2>2
<1> HIDE DEF number
<1>3. {number(d) : d \in Dofs(space)} = 0 .. (Cardinality(Dofs(space)) - 1)
  <2>1. PICK D, keep, place : D = Dofs(space) /\ keep = KeeperMap(k) /\ place = PlaceMap OBVIOUS
  <2>2. Blocks(D, keep, place, P) /\ \A d \in D : NumberOf(k, d) = BlockNumber(D, keep, place, d)
    BY <2>1, NumbersAreBlocks
  <2>3. \A d \in D : number(d) = BlockNumber(D, keep, place, d) BY <1>2, <2>1, <2>2
  <2>4. {number(d) : d \in D} = {BlockNumber(D, keep, place, d) : d \in D} BY <2>3
  <2>5. {BlockNumber(D, keep, place, d) : d \in D} = 0 .. (Cardinality(D) - 1)
    BY <2>2, NumbersFill
  <2> QED BY <2>1, <2>4, <2>5
<1>4. ASSUME NEW d \in Dofs(space)
      PROVE  /\ Cardinality({r \in HoldersOf(space, d) : InRange(r, b, number(d))}) = 1
             /\ \A r \in HoldersOf(space, d) :
                  /\ array[r][b][d] = number(d)
                  /\ number(d) \in ghosts[r][b] <=> ~InRange(r, b, number(d))
                  /\ number(d) \in shared[r][b] <=> HoldersOf(space, d) # {r}
  <2>1. number(d) = NumberOf(k, d) BY <1>2
  <2>2. \A r \in Rank : InRange(r, b, NumberOf(k, d)) <=> Keeper(k, d) = r BY RangeIsKept
  <2>3. Keeper(k, d) \in HoldersOf(space, d) BY KeeperHolds
  <2>4. {r \in HoldersOf(space, d) : InRange(r, b, number(d))} = {Keeper(k, d)}
    BY <1>1, <2>1, <2>2, <2>3
  <2>5. Cardinality({Keeper(k, d)}) = 1 BY FS_Singleton
  <2>6. ASSUME NEW r \in HoldersOf(space, d)
        PROVE  /\ NumberOf(k, d) \in ghosts[r][b] <=> Keeper(k, d) # r
               /\ NumberOf(k, d) \in shared[r][b] <=> HoldersOf(space, d) # {r}
    <3>1. r \in Rank /\ d \in DofsOf(space, r) BY <1>1
    <3>2. /\ ghosts[r][b] = {NumberOf(k, e) : e \in Lost(k, r)}
          /\ shared[r][b] = {NumberOf(k, e) : e \in SharedEntities(r)}
      BY <3>1 DEF Result
    <3>3. ASSUME NEW S, S \subseteq DofsOf(space, r)
          PROVE  NumberOf(k, d) \in {NumberOf(k, e) : e \in S} <=> d \in S
      <4>1. ASSUME NEW e \in S, NumberOf(k, d) = NumberOf(k, e) PROVE d = e
        <5>1. e \in Dofs(space) BY <3>1, <3>3, Holding
        <5> QED BY <4>1, <5>1, NumberIsOneToOne
      <4> QED BY <4>1
    <3>4. Lost(k, r) \subseteq DofsOf(space, r) /\ SharedEntities(r) \subseteq DofsOf(space, r)
      BY DEF Lost, SharedEntities
    <3>5. d \in Lost(k, r) <=> Keeper(k, d) # r BY <3>1 DEF Lost
    <3>6. d \in SharedEntities(r) <=> HoldersOf(space, d) # {r} BY <3>1 DEF SharedEntities
    <3> QED BY <3>2, <3>3, <3>4, <3>5, <3>6
  <2>7. \A r \in HoldersOf(space, d) : r \in Rank /\ array[r][b][d] = NumberOf(k, d) BY <1>1
  <2> QED BY <2>1, <2>2, <2>4, <2>5, <2>6, <2>7
<1> QED BY <1>3, <1>4 DEF number

(* DofNumbering::build() by votes and by entities: when the ranks have a   *)
(* dof map, every dof has one number, the numbers have no gap, just one    *)
(* holder has it in its range, and ghosts_ and shared_ say so.             *)
THEOREM DofNumbersAgree == Spec => []NumbersAgree
<1>1. NumberingInv => NumbersAgree
  <2>1. SUFFICES ASSUME NumberingInv, NEW b \in 1 .. 2, AllHave(b)
                 PROVE  LET number(d) == array[CHOOSE q \in Rank : q \in HoldersOf(space, d)][b][d]
                        IN  /\ {number(d) : d \in Dofs(space)} = 0 .. (Cardinality(Dofs(space)) - 1)
                            /\ \A d \in Dofs(space) :
                                 LET n == number(d)
                                     holders == HoldersOf(space, d)
                                 IN  /\ Cardinality({r \in holders : InRange(r, b, n)}) = 1
                                     /\ \A r \in holders :
                                          /\ array[r][b][d] = n
                                          /\ n \in ghosts[r][b] <=> ~InRange(r, b, n)
                                          /\ n \in shared[r][b] <=> holders # {r}
    BY DEF NumbersAgree
  <2>2. PICK k : k = space.kind[b] OBVIOUS
  <2>3. space \in Spaces BY <2>1 DEF NumberingInv, NumberingType
  <2>4. k \in Kinds BY <2>2, <2>3, KindOK
  <2>5. \A r \in Rank : Result(r, b, k) BY <2>1, <2>2, BuiltIsResult DEF AllHave
  <2> QED BY <2>3, <2>4, <2>5, ResultsAgree
<1> QED BY <1>1, NumberingInvariant, PTL

(* std::srand() starts the generator again, so two numberings by votes are *)
(* the same on every rank.                                                 *)
THEOREM NumbersAreTheSameAgain == Spec => []SameAgain
<1>1. NumberingInv => SameAgain
  <2>1. SUFFICES ASSUME NumberingInv, NEW r \in Rank, Has(r, 2),
                        space.kind = [b \in 1 .. 2 |-> "votes"]
                 PROVE  /\ array[r][1] = array[r][2] /\ range[r][1] = range[r][2]
                        /\ ghosts[r][1] = ghosts[r][2] /\ shared[r][1] = shared[r][2]
    BY DEF SameAgain
  <2>2. NumberingType BY <2>1 DEF NumberingInv
  <2>3. space.kind[1] = "votes" /\ space.kind[2] = "votes" BY <2>1
  <2>4. Has(r, 1)
    <3>1. map[r] \in 1 .. 2 BY <2>2, PassedType
    <3> QED BY <2>1, <3>1 DEF Has
  <2>5. Result(r, 1, "votes") /\ Result(r, 2, "votes") BY <2>1, <2>3, <2>4, BuiltIsResult
  <2> QED BY <2>5 DEF Result
<1> QED BY <1>1, NumberingInvariant, PTL

------------------------------------------------------------------------------
(***************************************************************************)
(* The sparsity pattern.  Its entries are determined by the numbers; what  *)
(* has to be shown is that the ring brings each of them to the rank that   *)
(* owns its row, although the ranks are in different rounds and the halo   *)
(* uses the same channels afterwards.                                      *)
(***************************************************************************)

(* The kinds of the numberings of the rows and of the columns.             *)
Kind1 == space.kind[1]
Kind2 == space.kind[2]

(* The numbers of a rank, and by the numbers the couplings of its cells    *)
(* and of the periodic dofs it keeps.                                      *)
Span(k, q) == FirstOf(k, q) .. (FirstOf(k, q + 1) - 1)
Repeated(r) == {y \in space.periodic[r] : Keeper(Kind1, y[1]) = r}
Coupled(r) ==
  {<<NumberOf(Kind1, x[1]), NumberOf(Kind2, x[2])>> : x \in UNION {e \X e : e \in Elements(r)}}
    \cup {<<NumberOf(Kind1, x[1]), NumberOf(Kind1, x[2])>> : x \in Repeated(r)}

(* What rank q has in the rows of rank r, and what it sends of it; what a  *)
(* rank has of its rows before round j; the rank has them apart.           *)
RowsFor(q, r) == {e \in Coupled(q) : e[1] \in Span(Kind1, r)}
Outgoing(q, r) == IF q = r THEN {} ELSE RowsFor(q, r)
Heard(r, j) == {q \in Rank : q = r \/ Gap(q, r) < j}
Received(r, j) == UNION {RowsFor(q, r) : q \in Heard(r, j)}
Sorted(r, j) ==
  /\ d_entries[r] = {e \in Received(r, j) : e[2] \in Span(Kind2, r)}
  /\ o_entries[r] = {e \in Received(r, j) : e[2] \notin Span(Kind2, r)}

(* The longest packet of a rank; some rank has rows of another.            *)
Most(r) == MaxOf({PacketSize(Outgoing(r, q)) : q \in Rank})
RowsRing == \E q, r \in Rank : Outgoing(q, r) # {}

(* In round j of the ring of the rows a rank has sent, and received.       *)
RowsGiven(q, j) ==
  IF pc[q] = "rows" THEN j < round[q] \/ (j = round[q] /\ posted[q]) ELSE pc[q] \notin Building
RowsTaken(r, j) == IF pc[r] = "rows" THEN j < round[r] ELSE pc[r] \notin Building

(* The rows come before anything the halo sends.                           *)
RowsChannel(q, r) ==
  LET j == Gap(q, r)
      c == net[<<q, r, 1>>]
  IN  /\ RowsTaken(r, j) => RowsGiven(q, j)
      /\ ~RowsGiven(q, j) => c = <<>>
      /\ RowsGiven(q, j) /\ ~RowsTaken(r, j) =>
           c \in Seq(ToSet(c)) /\ c # <<>> /\ Head(c) = RowsFor(q, r)

(* The channels during the ring of the rows, and later.                    *)
RowsInv == RowsBegun /\ RowsRing => \A q, r \in Rank : q # r => RowsChannel(q, r)

(* A rank that has not yet given the length of its packets.                *)
Inserting == (Numbering \ {"error"}) \cup {"built", "ranges", "ready", "inserted"}

(* What the ranks have given to the reductions of the pattern; the rows    *)
(* begin when all have given.                                              *)
Gathered(r) == [b \in 1 .. 2 |-> Cardinality(Kept(space.kind[b], r))]
GatheredInv ==
  /\ \A r \in DOMAIN coll[<<"ranges", 1>>] : coll[<<"ranges", 1>>][r] = Gathered(r)
  /\ \A r \in DOMAIN coll[<<"rows max", 1>>] :
       coll[<<"rows max", 1>>][r] = Most(r) /\ r \in Rank /\ pc[r] \notin Inserting
  /\ RowsBegun => \A r \in Rank : pc[r] \notin Inserting

(* What a rank has of the pattern, by the step of init() and apply() it is *)
(* at.                                                                     *)
PartInv(r) ==
  /\ pc[r] \notin Counted => /\ rowRange[r] = [q \in 0 .. P |-> FirstOf(Kind1, q)]
                             /\ colRange[r] = [q \in 0 .. P |-> FirstOf(Kind2, q)]
  /\ pc[r] = "inserted" => r_entries[r] = Coupled(r) \ RowsFor(r, r)
  /\ pc[r] \in {"rows max", "rows"} => packets[r] = [q \in Rank |-> Outgoing(r, q)]
  /\ pc[r] = "rows" => RowsRing
  /\ pc[r] \in {"inserted", "rows max"} => Sorted(r, 1)
  /\ pc[r] = "rows" => Sorted(r, round[r])
  /\ HasPattern(r) => Sorted(r, P)
  /\ pc[r] \in {"built", "ranges", "ready", "inserted", "rows max"} => round[r] = 1 /\ ~posted[r]

PatternType ==
  /\ DOMAIN rowRange = Rank /\ DOMAIN colRange = Rank
  /\ DOMAIN d_entries = Rank /\ DOMAIN o_entries = Rank /\ DOMAIN r_entries = Rank
  /\ DOMAIN packets = Rank

(* The invariant of the pattern, next to that of the numbers.              *)
PatternInv == PatternType /\ GatheredInv /\ RowsInv /\ \A r \in Rank : PartInv(r)

------------------------------------------------------------------------------
(* What the numbers alone determine of the pattern *)

(* The ranges of the ranks follow one another from zero.                   *)
LEMMA Firsts ==
  ASSUME space \in Spaces, NEW k \in Kinds
  PROVE  /\ \A r \in 0 .. P : FirstOf(k, r) \in Nat
         /\ \A q, r \in 0 .. P : q <= r => FirstOf(k, q) <= FirstOf(k, r)
         /\ \A r \in Rank : /\ Cardinality(Kept(k, r)) \in Nat
                            /\ FirstOf(k, r + 1) = FirstOf(k, r) + Cardinality(Kept(k, r))
<1>1. PICK D, keep, place : D = Dofs(space) /\ keep = KeeperMap(k) /\ place = PlaceMap OBVIOUS
<1>2. Blocks(D, keep, place, P) BY <1>1, NumbersAreBlocks
<1>3. \A r \in Rank : Kept(k, r) = BlockOf(D, keep, r) BY <1>1, NumbersAreBlocks
<1>4. ASSUME NEW r \in 0 .. P PROVE FirstOf(k, r) = BlockStart(D, keep, r)
  <2> DEFINE f == [q \in 0 .. (r - 1) |-> Cardinality(Kept(k, q))]
             g == [q \in 0 .. (r - 1) |-> Cardinality(BlockOf(D, keep, q))]
  <2>1. \A q \in 0 .. (r - 1) : q \in Rank BY PAssumption DEF Rank
  <2>2. f = g BY <1>3, <2>1
  <2> QED BY <2>2 DEF FirstOf, BlockStart
<1>5. /\ \A r \in 0 .. P : BlockStart(D, keep, r) \in Nat
      /\ \A r \in 0 .. (P - 1) :
           /\ Cardinality(BlockOf(D, keep, r)) \in Nat
           /\ BlockStart(D, keep, r + 1)
                = BlockStart(D, keep, r) + Cardinality(BlockOf(D, keep, r))
      /\ \A r, q \in 0 .. P : r <= q => BlockStart(D, keep, r) <= BlockStart(D, keep, q)
  BY <1>2, BlockStarts
<1>6. ASSUME NEW r \in Rank
      PROVE  /\ Cardinality(Kept(k, r)) \in Nat
             /\ FirstOf(k, r + 1) = FirstOf(k, r) + Cardinality(Kept(k, r))
  <2>1. r \in 0 .. (P - 1) /\ r \in 0 .. P /\ r + 1 \in 0 .. P BY PAssumption DEF Rank
  <2> QED BY <1>3, <1>4, <1>5, <2>1
<1> QED BY <1>4, <1>5, <1>6

(* A number is in the range of the rank that keeps the dof.                *)
LEMMA SpanIsKept ==
  ASSUME space \in Spaces, NEW k \in Kinds, NEW d \in Dofs(space)
  PROVE  /\ NumberOf(k, d) \in 0 .. (Cardinality(Dofs(space)) - 1)
         /\ \A r \in Rank : NumberOf(k, d) \in Span(k, r) <=> Keeper(k, d) = r
<1>1. PICK D, keep, place : D = Dofs(space) /\ keep = KeeperMap(k) /\ place = PlaceMap OBVIOUS
<1>2. Blocks(D, keep, place, P) BY <1>1, NumbersAreBlocks
<1>3. keep[d] = Keeper(k, d) /\ NumberOf(k, d) = BlockNumber(D, keep, place, d)
  BY <1>1, NumbersAreBlocks
<1>4. ASSUME NEW r \in Rank
      PROVE  /\ NumberOf(k, d) \in 0 .. (Cardinality(D) - 1)
             /\ NumberOf(k, d) \in Span(k, r) <=> Keeper(k, d) = r
  <2>1. Kept(k, r) = BlockOf(D, keep, r) /\ FirstOf(k, r) = BlockStart(D, keep, r)
    BY <1>1, NumbersAreBlocks
  <2>2. r \in 0 .. (P - 1) BY DEF Rank
  <2>3. /\ BlockNumber(D, keep, place, d) \in 0 .. (Cardinality(D) - 1)
        /\ BlockStart(D, keep, r) <= BlockNumber(D, keep, place, d)
           /\ BlockNumber(D, keep, place, d) < BlockStart(D, keep, r) + Cardinality(BlockOf(D, keep, r))
           <=> keep[d] = r
    BY <1>1, <1>2, <2>2, NumberInBlock
  <2>4. NumberOf(k, d) \in 0 .. (Cardinality(D) - 1) BY <1>3, <2>3
  <2>5. /\ FirstOf(k, r) <= NumberOf(k, d) /\ NumberOf(k, d) < FirstOf(k, r) + Cardinality(Kept(k, r))
        <=> Keeper(k, d) = r
    BY <1>3, <2>1, <2>3
  <2>6. /\ FirstOf(k, r + 1) = FirstOf(k, r) + Cardinality(Kept(k, r))
        /\ Cardinality(Kept(k, r)) \in Nat
    BY Firsts
  <2>7. r \in 0 .. P BY PAssumption DEF Rank
  <2>8. FirstOf(k, r) \in Nat BY <2>7, Firsts
  <2>9. NumberOf(k, d) \in Int BY <2>4
  <2>10. NumberOf(k, d) \in Span(k, r) <=>
           FirstOf(k, r) <= NumberOf(k, d) /\ NumberOf(k, d) <= FirstOf(k, r + 1) - 1
    BY <2>6, <2>8, <2>9 DEF Span
  <2> QED BY <2>4, <2>5, <2>6, <2>8, <2>9, <2>10
<1>5. 0 \in Rank BY PAssumption DEF Rank
<1> QED BY <1>1, <1>4, <1>5

(* OwnerOf() finds the rank that has the row.                              *)
LEMMA OwnerIs ==
  ASSUME space \in Spaces, NEW k \in Kinds, NEW r,
         rowRange[r] = [q \in 0 .. P |-> FirstOf(k, q)],
         NEW q \in Rank, NEW row \in Span(k, q)
  PROVE  OwnerOf(r, row) = q
<1> DEFINE Fit(p) == row < rowRange[r][p + 1] /\ \A x \in 0 .. (p - 1) : rowRange[r][x + 1] <= row
<1>1. P \in Nat /\ \A p \in Rank : p \in Nat /\ p < P /\ p \in 0 .. P /\ p + 1 \in 0 .. P
  BY PAssumption DEF Rank
<1>2. \A p \in 0 .. P : rowRange[r][p] = FirstOf(k, p) /\ FirstOf(k, p) \in Nat BY Firsts
<1>3. row \in Int /\ FirstOf(k, q) <= row /\ row < FirstOf(k, q + 1)
  BY <1>1, <1>2 DEF Span
<1>4. \A p, x \in 0 .. P : p <= x => FirstOf(k, p) <= FirstOf(k, x) BY Firsts
<1>5. Fit(q)
  <2>1. row < rowRange[r][q + 1] BY <1>1, <1>2, <1>3
  <2>2. ASSUME NEW x \in 0 .. (q - 1) PROVE rowRange[r][x + 1] <= row
    <3>1. x + 1 \in 0 .. P /\ x + 1 <= q /\ q \in 0 .. P BY <1>1
    <3>2. FirstOf(k, x + 1) <= FirstOf(k, q) BY <1>4, <3>1
    <3>3. FirstOf(k, x + 1) \in Nat /\ FirstOf(k, q) \in Nat BY <1>2, <3>1
    <3> QED BY <1>2, <1>3, <3>1, <3>2, <3>3
  <2> QED BY <2>1, <2>2
<1>6. ASSUME NEW p \in Rank, Fit(p) PROVE p = q
  <2>1. CASE p < q
    <3>1. p + 1 \in 0 .. P /\ p + 1 <= q /\ q \in 0 .. P BY <1>1, <2>1
    <3>2. FirstOf(k, p + 1) <= FirstOf(k, q) /\ rowRange[r][p + 1] = FirstOf(k, p + 1)
      BY <1>2, <1>4, <3>1
    <3>3. FirstOf(k, p + 1) \in Nat /\ FirstOf(k, q) \in Nat BY <1>2, <3>1
    <3> QED BY <1>3, <1>6, <3>2, <3>3
  <2>2. CASE q < p
    <3>1. q \in 0 .. (p - 1) /\ q + 1 \in 0 .. P BY <1>1, <2>2
    <3>2. rowRange[r][q + 1] <= row /\ rowRange[r][q + 1] = FirstOf(k, q + 1)
      BY <1>2, <1>6, <3>1
    <3>3. FirstOf(k, q + 1) \in Nat BY <1>2, <3>1
    <3> QED BY <1>3, <3>2, <3>3
  <2> QED BY <1>1, <2>1, <2>2
<1>7. OwnerOf(r, row) = CHOOSE p \in Rank : Fit(p) BY DEF OwnerOf
<1> HIDE DEF Fit
<1> QED BY <1>5, <1>6, <1>7

(* The couplings are pairs of numbers of the dofs of the rank.             *)
LEMMA ElementDofs ==
  ASSUME space \in Spaces, NEW r \in Rank
  PROVE  \A x \in UNION {e \X e : e \in Elements(r)} :
           x[1] \in DofsOf(space, r) /\ x[2] \in DofsOf(space, r)
<1>1. \A k \in DOMAIN space.cells[r] : CellDofs(r, k) \subseteq DofsOf(space, r)
  BY DEF CellDofs, ToSet, DofsOf
<1>2. \A f \in Pairs(r) :
        f.cells[1] \in DOMAIN space.cells[r] /\ f.cells[2] \in DOMAIN space.cells[r]
  <2>1. SUFFICES ASSUME NEW f \in Pairs(r)
                 PROVE  f.cells[1] \in DOMAIN space.cells[r] /\ f.cells[2] \in DOMAIN space.cells[r]
    OBVIOUS
  <2>2. f \in ToSet(space.facets[r]) /\ Len(f.cells) = 2 BY DEF Pairs
  <2>3. \A n \in 1 .. Len(f.cells) : f.cells[n] \in DOMAIN space.cells[r]
    BY <2>2, FacetsAssumption
  <2> QED BY <2>2, <2>3
<1>3. ASSUME NEW e \in Elements(r) PROVE e \subseteq DofsOf(space, r)
  <2>1. CASE e \in {CellDofs(r, k) : k \in DOMAIN space.cells[r]} BY <1>1, <2>1
  <2>2. CASE e \in {CellDofs(r, f.cells[1]) \cup CellDofs(r, f.cells[2]) : f \in Pairs(r)}
    BY <1>1, <1>2, <2>2
  <2> QED BY <2>1, <2>2 DEF Elements
<1>4. ASSUME NEW x \in UNION {e \X e : e \in Elements(r)}
      PROVE  x[1] \in DofsOf(space, r) /\ x[2] \in DofsOf(space, r)
  <2>1. PICK e \in Elements(r) : x \in e \X e OBVIOUS
  <2> QED BY <1>3, <2>1
<1> QED BY <1>4

(* The kinds of the two dof maps.                                          *)
LEMMA KindsOK ==
  ASSUME space \in Spaces
  PROVE  Kind1 \in Kinds /\ Kind2 \in Kinds
BY KindOK DEF Kind1, Kind2

(* The numbers of dofs that meet in a cell or in a facet of the rank, or   *)
(* of periodic dofs.                                                       *)
LEMMA CoupledIs ==
  ASSUME space \in Spaces, NEW r \in Rank, NEW e \in Coupled(r)
  PROVE  \E d, c \in Dofs(space), k \in Kinds : e = <<NumberOf(Kind1, d), NumberOf(k, c)>>
<1>1. Kind1 \in Kinds /\ Kind2 \in Kinds BY KindsOK
<1>2. CASE \E x \in UNION {s \X s : s \in Elements(r)} :
             e = <<NumberOf(Kind1, x[1]), NumberOf(Kind2, x[2])>>
  <2>1. PICK x \in UNION {s \X s : s \in Elements(r)} :
          e = <<NumberOf(Kind1, x[1]), NumberOf(Kind2, x[2])>>
    BY <1>2
  <2>2. x[1] \in DofsOf(space, r) /\ x[2] \in DofsOf(space, r) BY <2>1, ElementDofs
  <2>3. x[1] \in Dofs(space) /\ x[2] \in Dofs(space) BY <2>2, Holding
  <2> QED BY <1>1, <2>1, <2>3
<1>3. CASE \E x \in Repeated(r) : e = <<NumberOf(Kind1, x[1]), NumberOf(Kind1, x[2])>>
  <2>1. PICK x \in Repeated(r) : e = <<NumberOf(Kind1, x[1]), NumberOf(Kind1, x[2])>> BY <1>3
  <2>2. x[1] \in DofsOf(space, r) /\ x[2] \in Dofs(space)
    BY FacetsAssumption DEF Repeated
  <2>3. x[1] \in Dofs(space) BY <2>2, Holding
  <2> QED BY <1>1, <2>1, <2>2, <2>3
<1> QED BY <1>2, <1>3 DEF Coupled

(* When all ranks have passed their rings, a dof has its number wherever   *)
(* one looks, and is a ghost on the ranks that do not keep it.             *)
LEMMA NumberIs ==
  ASSUME NumberingInv, AllNumbered, NEW d \in Dofs(space)
  PROVE  /\ Number(1, d) = NumberOf(Kind1, d)
         /\ \A r \in Rank : d \in DofsOf(space, r) =>
              /\ array[r][1][d] = NumberOf(Kind1, d)
              /\ array[r][1][d] \notin ghosts[r][1] <=> Keeper(Kind1, d) = r
<1>1. space \in Spaces BY DEF NumberingInv, NumberingType
<1>2. Kind1 \in Kinds BY <1>1, KindsOK
<1>3. ASSUME NEW r \in Rank PROVE Result(r, 1, Kind1)
  <2>1. Passed(r) = 4 /\ RankInv(r) BY DEF AllNumbered, NumberingInv
  <2>2. \A b \in 1 .. 2 : 2 * b <= 4 => Result(r, b, space.kind[b]) BY <2>1 DEF RankInv
  <2>3. 1 \in 1 .. 2 /\ 2 * 1 <= 4 OBVIOUS
  <2>4. Result(r, 1, space.kind[1]) BY <2>2, <2>3
  <2> QED BY <2>4 DEF Kind1
<1>4. ASSUME NEW r \in Rank, d \in DofsOf(space, r) PROVE array[r][1][d] = NumberOf(Kind1, d)
  BY <1>3, <1>4 DEF Result
<1>5. Keeper(Kind1, d) \in Rank /\ Keeper(Kind1, d) \in HoldersOf(space, d)
  BY <1>1, <1>2, KeeperHolds
<1>6. Number(1, d) = NumberOf(Kind1, d)
  <2> DEFINE q == CHOOSE p \in Rank : p \in HoldersOf(space, d)
  <2>1. q \in Rank /\ q \in HoldersOf(space, d) BY <1>5
  <2>2. d \in DofsOf(space, q) BY <2>1 DEF HoldersOf
  <2>3. Number(1, d) = array[q][1][d] BY DEF Number
  <2> HIDE DEF q
  <2> QED BY <1>4, <2>1, <2>2, <2>3
<1>7. ASSUME NEW r \in Rank, d \in DofsOf(space, r)
      PROVE  NumberOf(Kind1, d) \notin ghosts[r][1] <=> Keeper(Kind1, d) = r
  <2>1. ghosts[r][1] = {NumberOf(Kind1, c) : c \in Lost(Kind1, r)} BY <1>3 DEF Result
  <2>2. CASE Keeper(Kind1, d) # r
    <3>1. d \in Lost(Kind1, r) BY <1>7, <2>2 DEF Lost
    <3> QED BY <2>1, <2>2, <3>1
  <2>3. CASE Keeper(Kind1, d) = r
    <3>1. ASSUME NEW c \in Lost(Kind1, r), NumberOf(Kind1, c) = NumberOf(Kind1, d) PROVE FALSE
      <4>1. c \in DofsOf(space, r) /\ Keeper(Kind1, c) # r BY DEF Lost
      <4>2. c \in Dofs(space) BY <1>1, <4>1, Holding
      <4>3. NumberOf(Kind1, c) \notin Span(Kind1, r) BY <1>1, <1>2, <4>1, <4>2, SpanIsKept
      <4>4. NumberOf(Kind1, d) \in Span(Kind1, r) BY <1>1, <1>2, <2>3, SpanIsKept
      <4> QED BY <3>1, <4>3, <4>4
    <3> QED BY <2>1, <2>3, <3>1
  <2> QED BY <2>2, <2>3
<1> QED BY <1>4, <1>6, <1>7

(* A rank inserts its couplings when all have their numbers.               *)
LEMMA CouplingsAre ==
  ASSUME NumberingInv, AllNumbered, NEW r \in Rank,
         Result(r, 1, Kind1), Result(r, 2, Kind2)
  PROVE  Couplings(r) = Coupled(r)
<1> DEFINE X == UNION {e \X e : e \in Elements(r)}
           Y == {y \in space.periodic[r] : array[r][1][y[1]] \notin ghosts[r][1]}
<1>1. space \in Spaces BY DEF NumberingInv, NumberingType
<1>2. \A x \in X : x[1] \in DofsOf(space, r) /\ x[2] \in DofsOf(space, r) BY <1>1, ElementDofs
<1>3. \A d \in DofsOf(space, r) : /\ array[r][1][d] = NumberOf(Kind1, d)
                                  /\ array[r][2][d] = NumberOf(Kind2, d)
  BY DEF Result
<1>4. ASSUME NEW x \in space.periodic[r]
      PROVE  /\ array[r][1][x[1]] = NumberOf(Kind1, x[1])
             /\ Number(1, x[2]) = NumberOf(Kind1, x[2])
             /\ array[r][1][x[1]] \notin ghosts[r][1] <=> Keeper(Kind1, x[1]) = r
  <2>1. x[1] \in DofsOf(space, r) /\ x[2] \in Dofs(space) BY <1>1, FacetsAssumption
  <2>2. x[1] \in Dofs(space) BY <1>1, <2>1, Holding
  <2> QED BY <2>1, <2>2, NumberIs
<1>5. Y = Repeated(r) BY <1>4 DEF Repeated
<1>6. Couplings(r) = {<<array[r][1][x[1]], array[r][2][x[2]]>> : x \in X}
                       \cup {<<array[r][1][x[1]], Number(1, x[2])>> : x \in Y}
  BY DEF Couplings, Periodic
<1>7. Coupled(r) = {<<NumberOf(Kind1, x[1]), NumberOf(Kind2, x[2])>> : x \in X}
                     \cup {<<NumberOf(Kind1, x[1]), NumberOf(Kind1, x[2])>> : x \in Repeated(r)}
  BY DEF Coupled
<1>8. \A x \in Repeated(r) : <<array[r][1][x[1]], Number(1, x[2])>>
                               = <<NumberOf(Kind1, x[1]), NumberOf(Kind1, x[2])>>
  BY <1>4 DEF Repeated
<1> HIDE DEF X, Y
<1>9. \A x \in X : <<array[r][1][x[1]], array[r][2][x[2]]>>
                     = <<NumberOf(Kind1, x[1]), NumberOf(Kind2, x[2])>>
  BY <1>2, <1>3
<1>10. {<<array[r][1][x[1]], array[r][2][x[2]]>> : x \in X}
         = {<<NumberOf(Kind1, x[1]), NumberOf(Kind2, x[2])>> : x \in X}
  BY <1>9
<1>11. {<<array[r][1][x[1]], Number(1, x[2])>> : x \in Y}
         = {<<NumberOf(Kind1, x[1]), NumberOf(Kind1, x[2])>> : x \in Repeated(r)}
  BY <1>5, <1>8
<1> QED BY <1>6, <1>7, <1>10, <1>11

(* A row or a column is in the range of one rank.                          *)
LEMMA EntryKept ==
  ASSUME space \in Spaces, NEW r \in Rank, NEW e \in Coupled(r)
  PROVE  /\ e[1] \in 0 .. (Cardinality(Dofs(space)) - 1)
         /\ e \in (0 .. (Cardinality(Dofs(space)) - 1)) \X (0 .. (Cardinality(Dofs(space)) - 1))
         /\ \E q \in Rank : e[1] \in Span(Kind1, q)
         /\ \A q, p \in Rank : e[1] \in Span(Kind1, q) /\ e[1] \in Span(Kind1, p) => p = q
<1>1. PICK d \in Dofs(space) : \E c \in Dofs(space), k \in Kinds :
        e = <<NumberOf(Kind1, d), NumberOf(k, c)>>
  BY CoupledIs
<1>2. PICK c \in Dofs(space), k \in Kinds : e = <<NumberOf(Kind1, d), NumberOf(k, c)>> BY <1>1
<1>3. PICK n : n = Cardinality(Dofs(space)) - 1 OBVIOUS
<1>4. /\ NumberOf(Kind1, d) \in 0 .. n
      /\ \A q \in Rank : NumberOf(Kind1, d) \in Span(Kind1, q) <=> Keeper(Kind1, d) = q
  BY <1>3, SpanIsKept, KindsOK
<1>5. NumberOf(k, c) \in 0 .. n BY <1>3, SpanIsKept
<1>6. Keeper(Kind1, d) \in Rank BY KeeperHolds, KindsOK
<1>7. e[1] = NumberOf(Kind1, d) BY <1>2
<1>8. e \in (0 .. n) \X (0 .. n) BY <1>2, <1>4, <1>5
<1>9. \E q \in Rank : e[1] \in Span(Kind1, q) BY <1>4, <1>6, <1>7
<1>10. \A q, p \in Rank : e[1] \in Span(Kind1, q) /\ e[1] \in Span(Kind1, p) => p = q
  BY <1>4, <1>7
<1> QED BY <1>3, <1>4, <1>7, <1>8, <1>9, <1>10

(* The size of a packet is zero when there is nothing in it.               *)
LEMMA PacketSizeIs ==
  ASSUME NEW n \in Nat, NEW s \in SUBSET ((0 .. n) \X (0 .. n))
  PROVE  PacketSize(s) \in Nat /\ (PacketSize(s) = 0 <=> s = {})
<1> DEFINE rows == {e[1] : e \in s}
           I == 0 .. n
<1>1. IsFiniteSet(I)
  <2>1. 0 \in Int /\ n \in Int OBVIOUS
  <2> QED BY <2>1, FS_Interval
<1>2. s \in SUBSET (I \X I) /\ rows \in SUBSET I OBVIOUS
<1> HIDE DEF I
<1>3. IsFiniteSet(I \X I) BY <1>1, FS_Product
<1>4. IsFiniteSet(s) BY <1>2, <1>3, FS_Subset
<1>5. IsFiniteSet(rows)
  <2> HIDE DEF rows
  <2> QED BY <1>1, <1>2, FS_Subset
<1>6. rows = {} <=> s = {} OBVIOUS
<1>7. PacketSize(s) = 2 * Cardinality(rows) + Cardinality(s) BY DEF PacketSize
<1> HIDE DEF rows
<1>8. Cardinality(rows) \in Nat /\ Cardinality(s) \in Nat BY <1>4, <1>5, FS_CardinalityType
<1>9. Cardinality(s) = 0 <=> s = {} BY <1>4, FS_EmptySet
<1>10. Cardinality(rows) = 0 <=> rows = {} BY <1>5, FS_EmptySet
<1> QED BY <1>6, <1>7, <1>8, <1>9, <1>10

(* The largest of some numbers is zero when all are.                       *)
LEMMA MaxIsZero ==
  ASSUME NEW n \in Nat, NEW f \in [0 .. n -> Nat]
  PROVE  LET S == {f[k] : k \in 0 .. n}
         IN  MaxOf(S) \in Nat /\ (MaxOf(S) = 0 <=> \A k \in 0 .. n : f[k] = 0)
<1> DEFINE S == {f[k] : k \in 0 .. n}
<1>1. MaxOf(S) \in Nat /\ \A k \in 0 .. n : f[k] <= MaxOf(S) BY MaxOfFamily
<1>2. ASSUME MaxOf(S) = 0, NEW k \in 0 .. n PROVE f[k] = 0
  <2>1. f[k] \in Nat /\ f[k] <= 0 BY <1>1, <1>2
  <2> QED BY <2>1
<1>3. ASSUME \A k \in 0 .. n : f[k] = 0 PROVE MaxOf(S) = 0
  <2>1. f[0] = 0 /\ 0 \in 0 .. n BY <1>3
  <2>2. S = {0} BY <1>3, <2>1
  <2> HIDE DEF S
  <2>3. \A m \in S : m = 0 /\ \A x \in S : x <= m BY <2>2
  <2>4. \E m \in S : \A x \in S : x <= m BY <2>2
  <2>5. MaxOf(S) \in S BY <2>4 DEF MaxOf
  <2> QED BY <2>3, <2>5
<1> QED BY <1>1, <1>2, <1>3

(* What a rank sends are pairs of numbers.                                 *)
LEMMA OutgoingIs ==
  ASSUME space \in Spaces, NEW r \in Rank, NEW q \in Rank
  PROVE  PacketSize(Outgoing(r, q)) \in Nat /\ (PacketSize(Outgoing(r, q)) = 0 <=> Outgoing(r, q) = {})
<1>1. PICK n : n = Cardinality(Dofs(space)) OBVIOUS
<1>2. n \in Nat BY <1>1, SpaceOK, FS_CardinalityType DEF WellFormedSpace
<1>3. (0 .. (n - 1)) \X (0 .. (n - 1)) \subseteq (0 .. n) \X (0 .. n) BY <1>2
<1>4. \A e \in Coupled(r) : e \in (0 .. (n - 1)) \X (0 .. (n - 1)) BY <1>1, EntryKept
<1>5. Outgoing(r, q) \subseteq Coupled(r) BY DEF Outgoing, RowsFor
<1>6. Outgoing(r, q) \in SUBSET ((0 .. n) \X (0 .. n)) BY <1>3, <1>4, <1>5
<1> QED BY <1>2, <1>6, PacketSizeIs

(* There is a ring of the rows when the longest packet is not empty.       *)
LEMMA RingOfRows ==
  ASSUME space \in Spaces
  PROVE  /\ \A r \in Rank : Most(r) \in Nat
         /\ MaxOf({Most(r) : r \in Rank}) = 0 <=> ~RowsRing
<1>1. PICK n : n = P - 1 OBVIOUS
<1>2. n \in Nat /\ Rank = 0 .. n BY <1>1, PAssumption DEF Rank
<1>3. ASSUME NEW r \in Rank
      PROVE  Most(r) \in Nat /\ (Most(r) = 0 <=> \A q \in Rank : Outgoing(r, q) = {})
  <2> DEFINE size == [q \in 0 .. n |-> PacketSize(Outgoing(r, q))]
  <2>1. \A q \in 0 .. n : size[q] = PacketSize(Outgoing(r, q)) OBVIOUS
  <2>2. size \in [0 .. n -> Nat] BY <1>2, OutgoingIs
  <2>3. Most(r) = MaxOf({size[q] : q \in 0 .. n})
    <3>1. {PacketSize(Outgoing(r, q)) : q \in 0 .. n} = {size[q] : q \in 0 .. n} BY <2>1
    <3> QED BY <1>2, <3>1 DEF Most
  <2> HIDE DEF size
  <2>4. /\ MaxOf({size[q] : q \in 0 .. n}) \in Nat
        /\ MaxOf({size[q] : q \in 0 .. n}) = 0 <=> \A q \in 0 .. n : size[q] = 0
    BY <1>2, <2>2, MaxIsZero
  <2>5. \A q \in 0 .. n : size[q] = 0 <=> Outgoing(r, q) = {} BY <1>2, <2>1, OutgoingIs
  <2> QED BY <1>2, <2>3, <2>4, <2>5
<1>4. MaxOf({Most(r) : r \in Rank}) = 0 <=> \A r \in Rank : Most(r) = 0
  <2> DEFINE most == [r \in 0 .. n |-> Most(r)]
  <2>1. \A r \in 0 .. n : most[r] = Most(r) OBVIOUS
  <2>2. most \in [0 .. n -> Nat] BY <1>2, <1>3
  <2>3. {Most(r) : r \in 0 .. n} = {most[r] : r \in 0 .. n} BY <2>1
  <2> HIDE DEF most
  <2>4. MaxOf({most[r] : r \in 0 .. n}) = 0 <=> \A r \in 0 .. n : most[r] = 0
    BY <1>2, <2>2, MaxIsZero
  <2> QED BY <1>2, <2>1, <2>3, <2>4
<1>5. RowsRing <=> ~ \A r \in Rank : \A q \in Rank : Outgoing(r, q) = {} BY DEF RowsRing
<1> QED BY <1>3, <1>4, <1>5

(* What a rank has of its rows, round by round.                            *)
LEMMA ReceivedRounds ==
  ASSUME NEW r \in Rank
  PROVE  /\ Received(r, 1) = RowsFor(r, r)
         /\ \A j \in 1 .. (P - 1) : Received(r, j + 1) = Received(r, j) \cup RowsFor(Src(r, j), r)
         /\ Received(r, P) = UNION {RowsFor(q, r) : q \in Rank}
         /\ ~RowsRing => Received(r, P) = Received(r, 1)
<1>1. P \in Nat \ {0, 1} BY PAssumption
<1>2. \A q \in Rank \ {r} : Gap(q, r) \in 1 .. (P - 1) BY Gaps
<1>3. Heard(r, 1) = {r} BY <1>1, <1>2 DEF Heard
<1>4. Heard(r, P) = Rank BY <1>1, <1>2 DEF Heard
<1>5. ASSUME NEW j \in 1 .. (P - 1) PROVE Heard(r, j + 1) = Heard(r, j) \cup {Src(r, j)}
  <2>1. PICK s : s = Src(r, j) OBVIOUS
  <2>2. s \in Rank /\ s # r /\ Gap(s, r) = j BY <2>1, Rounds
  <2>3. ASSUME NEW q \in Rank, q # r PROVE Gap(q, r) < j + 1 <=> Gap(q, r) < j \/ q = s
    <3>1. Gap(q, r) \in 1 .. (P - 1) BY <1>2, <2>3
    <3>2. Gap(q, r) = j => q = s BY <2>2, <2>3, Gaps
    <3>3. q = s => Gap(q, r) = j BY <2>2
    <3>4. Gap(q, r) < j + 1 <=> Gap(q, r) < j \/ Gap(q, r) = j BY <1>1, <3>1
    <3> QED BY <3>2, <3>3, <3>4
  <2> QED BY <2>1, <2>2, <2>3 DEF Heard
<1>6. ASSUME NEW j \in 1 .. (P - 1)
      PROVE  Received(r, j + 1) = Received(r, j) \cup RowsFor(Src(r, j), r)
  BY <1>5 DEF Received
<1>7. ASSUME ~RowsRing, NEW q \in Rank \ {r} PROVE RowsFor(q, r) = {}
  BY <1>7 DEF RowsRing, Outgoing
<1>8. ~RowsRing => Received(r, P) = Received(r, 1)
  <2>1. SUFFICES ASSUME ~RowsRing PROVE Received(r, P) = Received(r, 1) OBVIOUS
  <2>2. \A q \in Rank : q = r \/ RowsFor(q, r) = {} BY <1>7, <2>1
  <2> QED BY <1>3, <1>4, <2>2 DEF Received
<1> QED BY <1>3, <1>4, <1>6, <1>8 DEF Received

(* The packets of a rank.                                                  *)
LEMMA PacketsAre ==
  ASSUME space \in Spaces, NEW r \in Rank,
         rowRange[r] = [q \in 0 .. P |-> FirstOf(Kind1, q)],
         r_entries[r] = Coupled(r) \ RowsFor(r, r), NEW q \in Rank
  PROVE  {e \in r_entries[r] : OwnerOf(r, e[1]) = q} = Outgoing(r, q)
<1>1. ASSUME NEW e \in r_entries[r]
      PROVE  OwnerOf(r, e[1]) = q <=> e \in Outgoing(r, q)
  <2>1. e \in Coupled(r) /\ e[1] \notin Span(Kind1, r) BY DEF RowsFor
  <2>2. PICK p \in Rank : e[1] \in Span(Kind1, p) BY <2>1, EntryKept
  <2>3. Kind1 \in Kinds BY KindsOK
  <2>4. PICK row, k : row = e[1] /\ k = Kind1 OBVIOUS
  <2>5. OwnerOf(r, row) = p BY <2>2, <2>3, <2>4, OwnerIs
  <2>6. e[1] \in Span(Kind1, q) => p = q BY <2>1, <2>2, EntryKept
  <2>7. p # r BY <2>1, <2>2
  <2> QED BY <2>1, <2>2, <2>4, <2>5, <2>6, <2>7 DEF Outgoing, RowsFor
<1>2. Outgoing(r, q) \subseteq r_entries[r]
  <2>1. ASSUME NEW e \in Outgoing(r, q) PROVE e \in Coupled(r) /\ e \notin RowsFor(r, r)
    <3>1. q # r /\ e \in Coupled(r) /\ e[1] \in Span(Kind1, q) BY DEF Outgoing, RowsFor
    <3> QED BY <3>1, EntryKept DEF RowsFor
  <2> QED BY <2>1
<1> QED BY <1>1, <1>2

------------------------------------------------------------------------------
(* Steps *)

(* Nothing that the numbers determine changes.                             *)
LEMMA PatternStatic ==
  ASSUME space' = space
  PROVE  /\ Kind1' = Kind1 /\ Kind2' = Kind2
         /\ \A k, q : FirstOf(k, q)' = FirstOf(k, q) /\ Span(k, q)' = Span(k, q)
         /\ \A r : Coupled(r)' = Coupled(r)
         /\ \A q, r : RowsFor(q, r)' = RowsFor(q, r) /\ Outgoing(q, r)' = Outgoing(q, r)
         /\ \A r, j : Received(r, j)' = Received(r, j)
         /\ \A r : Most(r)' = Most(r)
         /\ RowsRing' = RowsRing
         /\ \A r : Gathered(r)' = Gathered(r)
<1>1. Kind1' = Kind1 /\ Kind2' = Kind2 BY DEF Kind1, Kind2
<1>2. ASSUME NEW k, NEW q PROVE FirstOf(k, q)' = FirstOf(k, q) /\ Span(k, q)' = Span(k, q)
  BY DEF Span, FirstOf, Kept, Keeper, Elected, Beats, Loses, Vote, Fresh, FirstDraw
<1>3. ASSUME NEW r PROVE Coupled(r)' = Coupled(r)
  BY DEF Coupled, Repeated, Elements, CellDofs, Pairs, Kind1, Kind2, NumberOf, FirstOf, PlaceOf, Kept, Keeper, Elected,
         Beats, Loses, Vote, Fresh, FirstDraw
<1>4. ASSUME NEW q, NEW r PROVE RowsFor(q, r)' = RowsFor(q, r)
  BY DEF RowsFor, Span, Coupled, Repeated, Elements, CellDofs, Pairs, Kind1, Kind2, NumberOf, FirstOf, PlaceOf, Kept, Keeper,
         Elected, Beats, Loses, Vote, Fresh, FirstDraw
<1>5. ASSUME NEW q, NEW r PROVE Outgoing(q, r)' = Outgoing(q, r) BY <1>4 DEF Outgoing
<1>6. ASSUME NEW r, NEW j PROVE Received(r, j)' = Received(r, j)
  <2>1. Heard(r, j)' = Heard(r, j) BY DEF Heard
  <2>2. PICK H : H = Heard(r, j) OBVIOUS
  <2>3. Received(r, j)' = UNION {RowsFor(q, r)' : q \in H} BY <2>1, <2>2 DEF Received
  <2>4. {RowsFor(q, r)' : q \in H} = {RowsFor(q, r) : q \in H} BY <1>4
  <2> QED BY <2>2, <2>3, <2>4 DEF Received
<1>7. ASSUME NEW r PROVE Most(r)' = Most(r)
  BY DEF Most, PacketSize, Outgoing, RowsFor, Span, Coupled, Repeated, Elements, CellDofs, Pairs, Kind1, Kind2, NumberOf,
         FirstOf, PlaceOf, Kept, Keeper, Elected, Beats, Loses, Vote, Fresh, FirstDraw
<1>8. RowsRing' = RowsRing
  BY DEF RowsRing, Outgoing, RowsFor, Span, Coupled, Repeated, Elements, CellDofs, Pairs, Kind1, Kind2, NumberOf,
         FirstOf, PlaceOf, Kept, Keeper, Elected, Beats, Loses, Vote, Fresh, FirstDraw
<1>9. ASSUME NEW r PROVE Gathered(r)' = Gathered(r)
  BY DEF Gathered, Kept, Keeper, Elected, Beats, Loses, Vote, Fresh, FirstDraw
<1> QED BY <1>1, <1>2, <1>3, <1>4, <1>5, <1>6, <1>7, <1>8, <1>9

(* What the other ranks do not notice of a step of rank r in the pattern.  *)
PatternStill(r) ==
  /\ space' = space
  /\ \A q \in Rank \ {r} :
       /\ pc'[q] = pc[q] /\ round'[q] = round[q] /\ posted'[q] = posted[q]
       /\ rowRange'[q] = rowRange[q] /\ colRange'[q] = colRange[q]
       /\ d_entries'[q] = d_entries[q] /\ o_entries'[q] = o_entries[q]
       /\ r_entries'[q] = r_entries[q] /\ packets'[q] = packets[q]

(* The part of a rank stays sorted while the rank does not write to it.    *)
LEMMA SortedStays ==
  ASSUME space' = space, NEW r, NEW j, Sorted(r, j),
         d_entries'[r] = d_entries[r], o_entries'[r] = o_entries[r]
  PROVE  Sorted(r, j)'
<1>1. Received(r, j)' = Received(r, j) /\ Span(Kind2, r)' = Span(Kind2, r)
  <2>1. Kind2' = Kind2 BY PatternStatic
  <2>2. Span(Kind2, r)' = Span(Kind2, r)
    BY DEF Span, Kind2, FirstOf, Kept, Keeper, Elected, Beats, Loses, Vote, Fresh, FirstDraw
  <2> QED BY <2>2, PatternStatic
<1> QED BY <1>1 DEF Sorted

(* The ranges that a rank has gathered.                                    *)
Ranged(r) == /\ rowRange[r] = [q \in 0 .. P |-> FirstOf(Kind1, q)]
             /\ colRange[r] = [q \in 0 .. P |-> FirstOf(Kind2, q)]

(* They stay while the rank does not write to them.                        *)
LEMMA RangedStays ==
  ASSUME space' = space, NEW r, Ranged(r), rowRange'[r] = rowRange[r], colRange'[r] = colRange[r]
  PROVE  Ranged(r)'
<1>1. ASSUME NEW q \in 0 .. P
      PROVE  FirstOf(Kind1, q)' = FirstOf(Kind1, q) /\ FirstOf(Kind2, q)' = FirstOf(Kind2, q)
  BY DEF Kind1, Kind2, FirstOf, Kept, Keeper, Elected, Beats, Loses, Vote, Fresh, FirstDraw
<1>2. [q \in 0 .. P |-> FirstOf(Kind1, q)]' = [q \in 0 .. P |-> FirstOf(Kind1, q)] BY <1>1
<1>3. [q \in 0 .. P |-> FirstOf(Kind2, q)]' = [q \in 0 .. P |-> FirstOf(Kind2, q)] BY <1>1
<1> QED BY <1>2, <1>3 DEF Ranged

(* A rank that a step leaves alone keeps its part of the pattern.          *)
LEMMA PartStays ==
  ASSUME space' = space, NEW r, PartInv(r),
         pc'[r] = pc[r] /\ round'[r] = round[r] /\ posted'[r] = posted[r],
         rowRange'[r] = rowRange[r] /\ colRange'[r] = colRange[r],
         d_entries'[r] = d_entries[r] /\ o_entries'[r] = o_entries[r],
         r_entries'[r] = r_entries[r] /\ packets'[r] = packets[r]
  PROVE  PartInv(r)'
<1>1. \A j : Sorted(r, j) => Sorted(r, j)' BY SortedStays
<1>2. Ranged(r) => Ranged(r)' BY RangedStays
<1>3. (Coupled(r) \ RowsFor(r, r))' = Coupled(r) \ RowsFor(r, r) BY PatternStatic
<1>4. [q \in Rank |-> Outgoing(r, q)]' = [q \in Rank |-> Outgoing(r, q)]
  <2>1. \A q : Outgoing(r, q)' = Outgoing(r, q) BY PatternStatic
  <2> QED BY <2>1
<1>5. RowsRing' = RowsRing BY PatternStatic
<1>6. Sorted(r, round[r]) => Sorted(r, round[r])'
  <2>1. PICK j : j = round[r] OBVIOUS
  <2>2. Sorted(r, j) => Sorted(r, j)' BY <1>1
  <2> QED BY <2>1, <2>2
<1>7. Sorted(r, 1) => Sorted(r, 1)' BY <1>1
<1>8. Sorted(r, P) => Sorted(r, P)' BY <1>1
<1>9. HasPattern(r)' <=> HasPattern(r) BY DEF HasPattern
<1>10. PartInv(r) BY DEF PartInv
<1> QED BY <1>2, <1>3, <1>4, <1>5, <1>6, <1>7, <1>8, <1>9 DEF PartInv, Ranged

(* The parts of the invariant after a step of a rank.                      *)
LEMMA PatternCombine ==
  ASSUME PatternInv, NEW r \in Rank, PatternStill(r), PatternType', PartInv(r)', GatheredInv',
         RowsInv'
  PROVE  PatternInv'
<1>1. ASSUME NEW q \in Rank PROVE PartInv(q)'
  <2>1. CASE q = r BY <2>1
  <2>2. CASE q # r
    <3>1. PartInv(q) BY DEF PatternInv
    <3> QED BY <2>2, <3>1, PartStays DEF PatternStill
  <2> QED BY <2>1, <2>2
<1> QED BY <1>1 DEF PatternInv

(* Before a rank has given to the maximum nobody has begun.                *)
LEMMA BeforeRows ==
  ASSUME GatheredInv, NEW r \in Rank, pc[r] \in Inserting, pc'[r] \in Building,
         \A q \in Rank \ {r} : pc'[q] = pc[q]
  PROVE  ~RowsBegun /\ ~RowsBegun' /\ RowsInv' /\ r \notin DOMAIN coll[<<"rows max", 1>>]
<1>1. ~RowsBegun BY DEF GatheredInv
<1>2. \A q \in Rank : pc'[q] \in Building BY <1>1 DEF RowsBegun
<1>3. ~RowsBegun' BY <1>2 DEF RowsBegun
<1> QED BY <1>1, <1>3 DEF RowsInv, GatheredInv

(* What a step adds to the two reductions of the pattern.                  *)
GatherStep(r) ==
  /\ \/ coll'[<<"ranges", 1>>] = coll[<<"ranges", 1>>]
     \/ /\ DOMAIN coll'[<<"ranges", 1>>] = DOMAIN coll[<<"ranges", 1>>] \cup {r}
        /\ coll'[<<"ranges", 1>>][r] = Gathered(r)
        /\ \A q \in DOMAIN coll[<<"ranges", 1>>] :
             coll'[<<"ranges", 1>>][q] = coll[<<"ranges", 1>>][q]
  /\ \/ coll'[<<"rows max", 1>>] = coll[<<"rows max", 1>>]
     \/ /\ DOMAIN coll'[<<"rows max", 1>>] = DOMAIN coll[<<"rows max", 1>>] \cup {r}
        /\ coll'[<<"rows max", 1>>][r] = Most(r) /\ pc'[r] \notin Inserting
        /\ \A q \in DOMAIN coll[<<"rows max", 1>>] :
             coll'[<<"rows max", 1>>][q] = coll[<<"rows max", 1>>][q]
  /\ pc[r] \in Inserting \/ pc'[r] \notin Inserting
  /\ \A q \in Rank \ {r} : pc'[q] = pc[q]
  /\ RowsBegun' => RowsBegun \/ Reduced(<<"rows max", 1>>)

(* Such a step keeps what has been gathered.                               *)
LEMMA GatheredKept ==
  ASSUME GatheredInv, space' = space, NEW r \in Rank, GatherStep(r)
  PROVE  GatheredInv'
<1>1. \A q : Gathered(q)' = Gathered(q) /\ Most(q)' = Most(q) BY PatternStatic
<1>2. ASSUME NEW q \in DOMAIN coll'[<<"ranges", 1>>]
      PROVE  coll'[<<"ranges", 1>>][q] = Gathered(q)
  BY <1>2 DEF GatherStep, GatheredInv
<1>3. ASSUME NEW q \in Rank, pc[q] \notin Inserting PROVE pc'[q] \notin Inserting
  BY <1>3 DEF GatherStep
<1>4. ASSUME NEW q \in DOMAIN coll'[<<"rows max", 1>>]
      PROVE  coll'[<<"rows max", 1>>][q] = Most(q) /\ q \in Rank /\ pc'[q] \notin Inserting
  <2>1. CASE q \in DOMAIN coll[<<"rows max", 1>>]
    <3>1. coll[<<"rows max", 1>>][q] = Most(q) /\ q \in Rank /\ pc[q] \notin Inserting BY <2>1 DEF GatheredInv
    <3>2. coll'[<<"rows max", 1>>][q] = coll[<<"rows max", 1>>][q] BY <2>1 DEF GatherStep
    <3> QED BY <1>3, <2>1, <3>1, <3>2
  <2>2. CASE q \notin DOMAIN coll[<<"rows max", 1>>] BY <1>4, <2>2 DEF GatherStep
  <2> QED BY <2>1, <2>2
<1>5. ASSUME RowsBegun', NEW q \in Rank PROVE pc'[q] \notin Inserting
  <2>1. CASE RowsBegun BY <1>3, <2>1 DEF GatheredInv
  <2>2. CASE Reduced(<<"rows max", 1>>) BY <1>3, <2>2 DEF GatheredInv, Reduced
  <2> QED BY <1>5, <2>1, <2>2 DEF GatherStep
<1>6. (\A q \in DOMAIN coll[<<"ranges", 1>>] : coll[<<"ranges", 1>>][q] = Gathered(q))'
  BY <1>1, <1>2
<1>7. (\A q \in DOMAIN coll[<<"rows max", 1>>] :
         coll[<<"rows max", 1>>][q] = Most(q) /\ q \in Rank /\ pc[q] \notin Inserting)'
  BY <1>1, <1>4
<1>8. (RowsBegun => \A q \in Rank : pc[q] \notin Inserting)' BY <1>5
<1> QED BY <1>6, <1>7, <1>8 DEF GatheredInv

(* A step of the numbering as the pattern sees it.                         *)
NumberingMove(r) ==
  /\ space' = space
  /\ pc[r] \in Numbering \ {"error"}
  /\ pc'[r] \in (Numbering \ {"error"}) \cup {"built"}
  /\ pc'[r] = "built" => round'[r] = 1 /\ ~posted'[r]
  /\ \A q \in Rank \ {r} : pc'[q] = pc[q] /\ round'[q] = round[q] /\ posted'[q] = posted[q]
  /\ coll'[<<"ranges", 1>>] = coll[<<"ranges", 1>>]
  /\ coll'[<<"rows max", 1>>] = coll[<<"rows max", 1>>]

(* What the numbering gives to its reductions leaves those of the pattern. *)
LEMMA NumberingCollects ==
  ASSUME NumberingType, NEW r, NEW c \in NumberingReductions, NEW v, Contribute(c, r, v)
  PROVE  /\ coll'[<<"ranges", 1>>] = coll[<<"ranges", 1>>]
         /\ coll'[<<"rows max", 1>>] = coll[<<"rows max", 1>>]
<1>1. /\ c \in DOMAIN coll
      /\ <<"ranges", 1>> \in DOMAIN coll /\ <<"rows max", 1>> \in DOMAIN coll
  BY DEF NumberingType, NumberingReductions, PatternReductions
<1>2. c[1] \in {"votes max", "offset", "numbers max"} BY DEF NumberingReductions
<1>3. <<"ranges", 1>>[1] = "ranges" /\ <<"rows max", 1>>[1] = "rows max" OBVIOUS
<1>4. c # <<"ranges", 1>> /\ c # <<"rows max", 1>> BY <1>2, <1>3
<1>5. \A e \in DOMAIN coll \ {c} : coll'[e] = coll[e] BY <1>1, ContributeAdds
<1> QED BY <1>1, <1>5, <1>4

(* Every step of the numbering is such a step.                             *)
LEMMA NumberingMoves ==
  ASSUME NumberingInv, NEW r \in Rank, NumberingStep(r)
  PROVE  NumberingMove(r)
<1>1. NumberingType /\ RankInv(r) BY DEF NumberingInv
<1>2. /\ DOMAIN pc = Rank /\ map[r] \in 1 .. 2
      /\ round \in [Rank -> 1 .. (P - 1)] /\ posted \in [Rank -> BOOLEAN]
  BY <1>1, PassedType DEF NumberingType
<1> DEFINE Moves(stage) ==
             /\ pc[r] \in Numbering \ {"error"} /\ pc' = [pc EXCEPT ![r] = stage]
             /\ stage \in Numbering \ {"error"}
           Waits == round' = round /\ posted' = posted
           Takes1 == /\ posted' = [posted EXCEPT ![r] = FALSE]
                     /\ round' = [round EXCEPT ![r] = IF LastRound(r) THEN 1 ELSE @ + 1]
           Silent == /\ coll'[<<"ranges", 1>>] = coll[<<"ranges", 1>>]
                     /\ coll'[<<"rows max", 1>>] = coll[<<"rows max", 1>>]
<1>3. ASSUME NEW stage, Moves(stage), Waits \/ Takes1, Silent, space' = space
      PROVE  NumberingMove(r)
  <2>1. pc'[r] = stage /\ \A q \in Rank \ {r} : pc'[q] = pc[q] BY <1>2, <1>3
  <2>2. \A q \in Rank \ {r} : round'[q] = round[q] /\ posted'[q] = posted[q] BY <1>2, <1>3
  <2>3. stage # "built" BY <1>3 DEF Numbering, NumberingRings
  <2> QED BY <1>3, <2>1, <2>2, <2>3 DEF NumberingMove
<1>4. CASE StartVotes(r)
  <2>1. PICK v : Contribute(<<"votes max", map[r]>>, r, v) BY <1>4 DEF StartVotes
  <2>2. /\ pc[r] = "start" /\ pc' = [pc EXCEPT ![r] = "votes max"]
        /\ round' = round /\ posted' = posted /\ space' = space
    BY <1>4 DEF StartVotes
  <2>3. Moves("votes max") BY <2>2 DEF Numbering
  <2>4. Silent
    <3>1. <<"votes max", map[r]>> \in NumberingReductions BY <1>2 DEF NumberingReductions
    <3>2. PICK c : c = <<"votes max", map[r]>> OBVIOUS
    <3> QED BY <1>1, <2>1, <3>1, <3>2, NumberingCollects
  <2> QED BY <1>3, <2>2, <2>3, <2>4
<1>5. ASSUME NEW c, NEW next, EndMax(r, c, next), c[1] \in Numbering \ {"error"},
             next \in Numbering \ {"error"}
      PROVE  NumberingMove(r)
  <2>1. /\ pc[r] = c[1] /\ pc' = [pc EXCEPT ![r] = next]
        /\ round' = round /\ posted' = posted /\ space' = space /\ coll' = coll
    BY <1>5 DEF EndMax, numbering, mpi
  <2>2. Moves(next) BY <1>5, <2>1
  <2> QED BY <1>3, <2>1, <2>2
<1>6. CASE EndVotesMax(r)
  <2>1. "votes max" \in Numbering \ {"error"} /\ "votes" \in Numbering \ {"error"}
    BY DEF Numbering, NumberingRings
  <2>2. PICK c : c = <<"votes max", map[r]>> OBVIOUS
  <2>3. EndMax(r, c, "votes") /\ c[1] = "votes max" BY <1>6, <2>2 DEF EndVotesMax
  <2> QED BY <1>5, <2>1, <2>3
<1>7. CASE EndNumbersMax(r)
  <2>1. "numbers max" \in Numbering \ {"error"} /\ "numbers" \in Numbering \ {"error"}
    BY DEF Numbering, NumberingRings
  <2>2. PICK c : c = <<"numbers max", map[r]>> OBVIOUS
  <2>3. EndMax(r, c, "numbers") /\ c[1] = "numbers max" BY <1>7, <2>2 DEF EndNumbersMax
  <2> QED BY <1>5, <2>1, <2>3
<1>8. CASE ReturnVotes(r)
  <2>1. PICK stage \in {"owned", "votes"} : pc' = [pc EXCEPT ![r] = stage]
    BY <1>8 DEF ReturnVotes
  <2>2. pc[r] = "votes" /\ space' = space /\ coll' = coll /\ Takes1
    BY <1>8 DEF ReturnVotes, Recv, NextRound
  <2>3. Moves(stage) BY <2>1, <2>2 DEF Numbering, NumberingRings
  <2> QED BY <1>3, <2>2, <2>3
<1>9. CASE StartEntities(r)
  <2>1. /\ pc[r] = "start" /\ pc' = [pc EXCEPT ![r] = "owned"]
        /\ round' = round /\ posted' = posted /\ space' = space /\ coll' = coll
    BY <1>9 DEF StartEntities, mpi
  <2>2. Moves("owned") BY <2>1 DEF Numbering
  <2> QED BY <1>3, <2>1, <2>2
<1>10. CASE StartOffset(r)
  <2>1. PICK v : Contribute(<<"offset", map[r]>>, r, v) BY <1>10 DEF StartOffset
  <2>2. /\ pc[r] = "owned" /\ pc' = [pc EXCEPT ![r] = "offset"]
        /\ round' = round /\ posted' = posted /\ space' = space
    BY <1>10 DEF StartOffset, numbering
  <2>3. Moves("offset") BY <2>2 DEF Numbering
  <2>4. Silent
    <3>1. <<"offset", map[r]>> \in NumberingReductions BY <1>2 DEF NumberingReductions
    <3>2. PICK c : c = <<"offset", map[r]>> OBVIOUS
    <3> QED BY <1>1, <2>1, <3>1, <3>2, NumberingCollects
  <2> QED BY <1>3, <2>2, <2>3, <2>4
<1>11. CASE EndOffset(r)
  <2>1. PICK v : Contribute(<<"numbers max", map[r]>>, r, v) BY <1>11 DEF EndOffset
  <2>2. /\ pc[r] = "offset" /\ pc' = [pc EXCEPT ![r] = "numbers max"]
        /\ round' = round /\ posted' = posted /\ space' = space
    BY <1>11 DEF EndOffset
  <2>3. Moves("numbers max") BY <2>2 DEF Numbering
  <2>4. Silent
    <3>1. <<"numbers max", map[r]>> \in NumberingReductions BY <1>2 DEF NumberingReductions
    <3>2. PICK c : c = <<"numbers max", map[r]>> OBVIOUS
    <3> QED BY <1>1, <2>1, <3>1, <3>2, NumberingCollects
  <2> QED BY <1>3, <2>2, <2>3, <2>4
<1>12. CASE NumberingSend(r)
  <2>1. /\ pc[r] \in NumberingRings /\ pc' = pc /\ round' = round /\ space' = space /\ coll' = coll
        /\ posted' = [posted EXCEPT ![r] = TRUE]
    BY <1>12 DEF NumberingSend, Send, numbering
  <2>2. pc[r] \in Numbering \ {"error"} /\ pc[r] # "built"
    BY <2>1 DEF Numbering, NumberingRings
  <2>3. \A q \in Rank \ {r} : pc'[q] = pc[q] /\ round'[q] = round[q] /\ posted'[q] = posted[q]
    BY <1>2, <2>1
  <2> QED BY <2>1, <2>2, <2>3 DEF NumberingMove
<1>13. CASE ReturnNumbers(r)
  <2>1. PICK stage \in {"numbered", "numbers"} : pc' = [pc EXCEPT ![r] = stage]
    BY <1>13 DEF ReturnNumbers
  <2>2. pc[r] = "numbers" /\ space' = space /\ coll' = coll /\ Takes1
    BY <1>13 DEF ReturnNumbers, Recv, NextRound
  <2>3. Moves(stage) BY <2>1, <2>2 DEF Numbering, NumberingRings
  <2> QED BY <1>3, <2>2, <2>3
<1>14. CASE Return(r)
  <2>1. /\ pc[r] = "numbered"
        /\ pc' = [pc EXCEPT ![r] =
             IF Kind(r) = "entities" /\ ~CountsMatch(r) THEN "error"
             ELSE IF map[r] = 1 THEN "start" ELSE "built"]
        /\ space' = space /\ coll' = coll /\ round' = round /\ posted' = posted
    BY <1>14 DEF Return, mpi
  <2>2. Kind(r) = "entities" => CountsMatch(r) BY <1>1, <2>1, CountsAlwaysMatch
  <2>3. pc'[r] \in {"start", "built"} /\ \A q \in Rank \ {r} : pc'[q] = pc[q]
    BY <1>2, <2>1, <2>2
  <2>4. round[r] = 1 /\ ~posted[r]
    BY <1>1, <2>1 DEF NumberingType, Numbering, NumberingRings
  <2>5. pc[r] \in Numbering \ {"error"} /\ pc'[r] \in (Numbering \ {"error"}) \cup {"built"}
    BY <2>1, <2>3 DEF Numbering
  <2> QED BY <2>1, <2>3, <2>4, <2>5 DEF NumberingMove
<1> QED BY <1>4, <1>6, <1>7, <1>8, <1>9, <1>10, <1>11, <1>12, <1>13, <1>14 DEF NumberingStep

(* The steps of the numbering keep the pattern.                            *)
LEMMA NumberingKeepsPattern ==
  ASSUME NumberingInv, PatternInv, NEW r \in Rank, NumberingStep(r), UNCHANGED pattern
  PROVE  PatternInv'
<1>1. NumberingMove(r) BY NumberingMoves
<1>2. /\ rowRange' = rowRange /\ colRange' = colRange /\ packets' = packets
      /\ d_entries' = d_entries /\ o_entries' = o_entries /\ r_entries' = r_entries
  BY DEF pattern, entries
<1>3. PatternType /\ GatheredInv BY DEF PatternInv
<1>4. PatternStill(r) BY <1>1, <1>2 DEF NumberingMove, PatternStill
<1>5. pc[r] \in Inserting /\ pc'[r] \in Building
  BY <1>1 DEF NumberingMove, Inserting, Building, Counted
<1>6. ~RowsBegun' /\ RowsInv' BY <1>1, <1>3, <1>5, BeforeRows DEF NumberingMove
<1>7. GatheredInv'
  <2>1. GatherStep(r) BY <1>1, <1>5, <1>6 DEF NumberingMove, GatherStep
  <2> QED BY <1>1, <1>3, <2>1, GatheredKept DEF NumberingMove
<1>8. PatternType' BY <1>2, <1>3 DEF PatternType
<1>9. PartInv(r)'
  <2>1. pc'[r] \in Counted /\ ~HasPattern(r)'
    BY <1>1 DEF NumberingMove, Counted, HasPattern
  <2>2. pc'[r] \notin {"ranges", "ready", "inserted", "rows max", "rows"}
    BY <1>1 DEF NumberingMove, Numbering, NumberingRings
  <2> QED BY <1>1, <2>1, <2>2 DEF NumberingMove, PartInv
<1> QED BY <1>3, <1>4, <1>6, <1>7, <1>8, <1>9, PatternCombine

(* A contribution to a reduction of the pattern.                           *)
LEMMA PatternCollects ==
  ASSUME NumberingType, NEW r, NEW c \in PatternReductions, NEW v, Contribute(c, r, v)
  PROVE  /\ DOMAIN coll'[c] = DOMAIN coll[c] \cup {r} /\ coll'[c][r] = v
         /\ \A q \in DOMAIN coll[c] : coll'[c][q] = coll[c][q]
         /\ \A e \in PatternReductions \ {c} : coll'[e] = coll[e]
<1>1. PatternReductions \subseteq DOMAIN coll BY DEF NumberingType
<1> QED BY <1>1, ContributeAdds

(* The sizes that a rank gathers are those of its results.                 *)
LEMMA ResultsKnown ==
  ASSUME NumberingInv, NEW r \in Rank, pc[r] \notin Numbering
  PROVE  /\ space \in Spaces
         /\ Result(r, 1, Kind1) /\ Result(r, 2, Kind2)
         /\ [b \in 1 .. 2 |-> range[r][b].size] = Gathered(r)
<1>1. NumberingType BY DEF NumberingInv
<1>2. map[r] = 2 BY <1>1 DEF NumberingType
<1>3. \A b \in 1 .. 2 : Has(r, b) BY <1>2 DEF Has
<1>4. ASSUME NEW b \in 1 .. 2
      PROVE Result(r, b, space.kind[b]) /\ range[r][b].size = Cardinality(Kept(space.kind[b], r))
  <2>1. Result(r, b, space.kind[b]) BY <1>3, BuiltIsResult
  <2> QED BY <2>1 DEF Result, RangeOf
<1>5. space \in Spaces BY <1>1 DEF NumberingType
<1>6. Result(r, 1, Kind1) /\ Result(r, 2, Kind2) BY <1>4 DEF Kind1, Kind2
<1>7. [b \in 1 .. 2 |-> range[r][b].size] = Gathered(r) BY <1>4 DEF Gathered
<1> QED BY <1>5, <1>6, <1>7

(* The parts of a rank before it has begun.                                *)
LEMMA StartInitKeepsPattern ==
  ASSUME NumberingInv, PatternInv, NEW r \in Rank, StartInit(r)
  PROVE  PatternInv'
<1>1. NumberingType /\ PatternType /\ GatheredInv /\ PartInv(r) BY DEF NumberingInv, PatternInv
<1>2. /\ pc[r] = "built" /\ pc' = [pc EXCEPT ![r] = "ranges"]
      /\ Contribute(<<"ranges", 1>>, r, [b \in 1 .. 2 |-> range[r][b].size])
      /\ space' = space /\ round' = round /\ posted' = posted
      /\ rowRange' = rowRange /\ colRange' = colRange /\ packets' = packets
      /\ d_entries' = d_entries /\ o_entries' = o_entries /\ r_entries' = r_entries
  BY DEF StartInit, numbering, pattern, entries
<1>3. pc'[r] = "ranges" /\ \A q \in Rank \ {r} : pc'[q] = pc[q] BY <1>1, <1>2 DEF NumberingType
<1>4. PatternStill(r) BY <1>2, <1>3 DEF PatternStill
<1>5. pc[r] \in Inserting /\ pc'[r] \in Inserting /\ pc'[r] \in Building
  BY <1>2, <1>3 DEF Inserting, Building, Counted
<1>6. ~RowsBegun' /\ RowsInv' BY <1>1, <1>3, <1>5, BeforeRows
<1>7. GatheredInv'
  <2>1. pc[r] \notin Numbering BY <1>2 DEF Numbering, NumberingRings
  <2>2. Contribute(<<"ranges", 1>>, r, Gathered(r)) BY <1>2, <2>1, ResultsKnown
  <2>3. PICK c, d : c = <<"ranges", 1>> /\ d = <<"rows max", 1>> OBVIOUS
  <2>4. c \in PatternReductions /\ d \in PatternReductions \ {c} BY <2>3 DEF PatternReductions
  <2>5. PICK v : v = Gathered(r) OBVIOUS
  <2>6. Contribute(c, r, v) BY <2>2, <2>3, <2>5
  <2>7. /\ DOMAIN coll'[c] = DOMAIN coll[c] \cup {r} /\ coll'[c][r] = v
        /\ \A q \in DOMAIN coll[c] : coll'[c][q] = coll[c][q]
        /\ \A e \in PatternReductions \ {c} : coll'[e] = coll[e]
    BY <1>1, <2>4, <2>6, PatternCollects
  <2>8. GatherStep(r) BY <1>3, <1>5, <1>6, <2>3, <2>4, <2>7, <2>5 DEF GatherStep
  <2> QED BY <1>1, <1>2, <2>8, GatheredKept
<1>8. PatternType' BY <1>1, <1>2 DEF PatternType
<1>9. PartInv(r)'
  <2>1. pc'[r] \in Counted /\ ~HasPattern(r)' BY <1>3 DEF Counted, HasPattern
  <2>2. round'[r] = 1 /\ ~posted'[r] BY <1>1, <1>2 DEF PartInv
  <2> QED BY <1>3, <2>1, <2>2 DEF PartInv
<1> QED BY <1>4, <1>6, <1>7, <1>8, <1>9, PatternCombine

(* The prefix sums of the sizes are where the ranges begin.                *)
LEMMA EndInitKeepsPattern ==
  ASSUME NumberingInv, PatternInv, NEW r \in Rank, EndInit(r)
  PROVE  PatternInv'
<1> DEFINE gathered == coll[<<"ranges", 1>>]
           begin(b) == [q \in 0 .. P |-> SumOf([p \in 0 .. (q - 1) |-> gathered[p][b]], q)]
<1>1. NumberingType /\ PatternType /\ GatheredInv /\ PartInv(r) BY DEF NumberingInv, PatternInv
<1>2. /\ pc[r] = "ranges" /\ pc' = [pc EXCEPT ![r] = "ready"] /\ Reduced(<<"ranges", 1>>)
      /\ rowRange' = [rowRange EXCEPT ![r] = begin(1)]
      /\ colRange' = [colRange EXCEPT ![r] = begin(2)]
      /\ space' = space /\ round' = round /\ posted' = posted /\ coll' = coll
      /\ packets' = packets
      /\ d_entries' = d_entries /\ o_entries' = o_entries /\ r_entries' = r_entries
  BY DEF EndInit, numbering, mpi, entries
<1>3. pc'[r] = "ready" /\ \A q \in Rank \ {r} : pc'[q] = pc[q] BY <1>1, <1>2 DEF NumberingType
<1>4. ASSUME NEW b \in 1 .. 2, NEW k, k = space.kind[b]
      PROVE  begin(b) = [q \in 0 .. P |-> FirstOf(k, q)]
  <2>1. \A p \in Rank : gathered[p][b] = Cardinality(Kept(k, p))
    BY <1>1, <1>2, <1>4 DEF Reduced, GatheredInv, Gathered
  <2>2. ASSUME NEW q \in 0 .. P
        PROVE  SumOf([p \in 0 .. (q - 1) |-> gathered[p][b]], q) = FirstOf(k, q)
    <3>1. \A p \in 0 .. (q - 1) : p \in Rank BY PAssumption DEF Rank
    <3>2. [p \in 0 .. (q - 1) |-> gathered[p][b]] = [p \in 0 .. (q - 1) |-> Cardinality(Kept(k, p))]
      BY <2>1, <3>1
    <3> QED BY <3>2 DEF FirstOf
  <2> QED BY <2>2
<1>5. begin(1) = [q \in 0 .. P |-> FirstOf(Kind1, q)] /\ begin(2) = [q \in 0 .. P |-> FirstOf(Kind2, q)]
  BY <1>4 DEF Kind1, Kind2
<1> HIDE DEF begin
<1>6. /\ rowRange'[r] = begin(1) /\ \A q \in Rank \ {r} : rowRange'[q] = rowRange[q]
      /\ colRange'[r] = begin(2) /\ \A q \in Rank \ {r} : colRange'[q] = colRange[q]
      /\ DOMAIN rowRange' = Rank /\ DOMAIN colRange' = Rank
  BY <1>1, <1>2 DEF PatternType
<1>7. PatternStill(r) BY <1>2, <1>3, <1>6 DEF PatternStill
<1>8. pc[r] \in Inserting /\ pc'[r] \in Inserting /\ pc'[r] \in Building
  BY <1>2, <1>3 DEF Inserting, Building
<1>9. ~RowsBegun' /\ RowsInv' BY <1>1, <1>3, <1>8, BeforeRows
<1>10. GatheredInv'
  <2>1. GatherStep(r) BY <1>2, <1>3, <1>8, <1>9 DEF GatherStep
  <2> QED BY <1>1, <1>2, <2>1, GatheredKept
<1>11. PatternType' BY <1>1, <1>2, <1>6 DEF PatternType
<1>12. PartInv(r)'
  <2>1. ~HasPattern(r)' BY <1>3 DEF HasPattern
  <2>2. round'[r] = 1 /\ ~posted'[r] BY <1>1, <1>2 DEF PartInv
  <2>3. Ranged(r)'
    <3>1. \A q : FirstOf(Kind1, q)' = FirstOf(Kind1, q) /\ FirstOf(Kind2, q)' = FirstOf(Kind2, q)
      BY <1>2 DEF Kind1, Kind2, FirstOf, Kept, Keeper, Elected, Beats, Loses, Vote, Fresh, FirstDraw
    <3>2. /\ [q \in 0 .. P |-> FirstOf(Kind1, q)]' = [q \in 0 .. P |-> FirstOf(Kind1, q)]
          /\ [q \in 0 .. P |-> FirstOf(Kind2, q)]' = [q \in 0 .. P |-> FirstOf(Kind2, q)]
      BY <3>1
    <3> QED BY <1>5, <1>6, <3>2 DEF Ranged
  <2> QED BY <1>3, <2>1, <2>2, <2>3 DEF PartInv, Ranged
<1> QED BY <1>7, <1>9, <1>10, <1>11, <1>12, PatternCombine

(* What a rank inserts: the rows that it owns, the others in r_entries.    *)
LEMMA InsertKeepsPattern ==
  ASSUME NumberingInv, PatternInv, NEW r \in Rank, Insert(r)
  PROVE  PatternInv'
<1> DEFINE own == {e \in Couplings(r) : e[1] \in RowsOf(r, r)}
<1>1. NumberingType /\ PatternType /\ GatheredInv /\ PartInv(r) BY DEF NumberingInv, PatternInv
<1>2. /\ pc[r] = "ready" /\ pc' = [pc EXCEPT ![r] = "inserted"]
      /\ d_entries' = [d_entries EXCEPT ![r] = Diagonal(r, own)]
      /\ o_entries' = [o_entries EXCEPT ![r] = own \ Diagonal(r, own)]
      /\ r_entries' = [r_entries EXCEPT ![r] = Couplings(r) \ own]
      /\ space' = space /\ round' = round /\ posted' = posted /\ coll' = coll
      /\ packets' = packets /\ rowRange' = rowRange /\ colRange' = colRange
  BY DEF Insert, numbering, mpi
<1>3. pc'[r] = "inserted" /\ \A q \in Rank \ {r} : pc'[q] = pc[q]
  BY <1>1, <1>2 DEF NumberingType
<1>4. Ranged(r)
  <2>1. pc[r] \notin Counted BY <1>2 DEF Counted, Numbering, NumberingRings
  <2> QED BY <1>1, <2>1 DEF PartInv, Ranged
<1>5. Couplings(r) = Coupled(r)
  <2>1. pc[r] \notin Numbering BY <1>2 DEF Numbering, NumberingRings
  <2>2. pc[r] \notin Counted BY <1>2 DEF Counted, Numbering, NumberingRings
  <2>3. AllNumbered BY <2>2 DEF NumberingInv, SyncInv
  <2> QED BY <2>1, <2>3, ResultsKnown, CouplingsAre
<1>6. RowsOf(r, r) = Span(Kind1, r) /\ ColsOf(r, r) = Span(Kind2, r)
  <2>1. r \in 0 .. P /\ r + 1 \in 0 .. P BY PAssumption DEF Rank
  <2> QED BY <1>4, <2>1 DEF Ranged, RowsOf, ColsOf, Span
<1>7. own = RowsFor(r, r) BY <1>5, <1>6 DEF RowsFor
<1> HIDE DEF own
<1>8. /\ d_entries'[r] = {e \in RowsFor(r, r) : e[2] \in Span(Kind2, r)}
      /\ o_entries'[r] = {e \in RowsFor(r, r) : e[2] \notin Span(Kind2, r)}
      /\ r_entries'[r] = Coupled(r) \ RowsFor(r, r)
      /\ \A q \in Rank \ {r} : /\ d_entries'[q] = d_entries[q] /\ o_entries'[q] = o_entries[q]
                               /\ r_entries'[q] = r_entries[q]
      /\ DOMAIN d_entries' = Rank /\ DOMAIN o_entries' = Rank /\ DOMAIN r_entries' = Rank
  <2>1. Diagonal(r, own) = {e \in RowsFor(r, r) : e[2] \in Span(Kind2, r)}
    BY <1>6, <1>7 DEF Diagonal
  <2>2. own \ Diagonal(r, own) = {e \in RowsFor(r, r) : e[2] \notin Span(Kind2, r)}
    BY <1>7, <2>1
  <2>3. /\ d_entries'[r] = Diagonal(r, own) /\ o_entries'[r] = own \ Diagonal(r, own)
        /\ r_entries'[r] = Couplings(r) \ own
    BY <1>1, <1>2 DEF PatternType
  <2>4. /\ \A q \in Rank \ {r} : /\ d_entries'[q] = d_entries[q] /\ o_entries'[q] = o_entries[q]
                                 /\ r_entries'[q] = r_entries[q]
        /\ DOMAIN d_entries' = Rank /\ DOMAIN o_entries' = Rank /\ DOMAIN r_entries' = Rank
    BY <1>1, <1>2 DEF PatternType
  <2> QED BY <1>5, <1>7, <2>1, <2>2, <2>3, <2>4
<1>9. PatternStill(r) BY <1>2, <1>3, <1>8 DEF PatternStill
<1>10. pc[r] \in Inserting /\ pc'[r] \in Inserting /\ pc'[r] \in Building
  BY <1>2, <1>3 DEF Inserting, Building
<1>11. ~RowsBegun' /\ RowsInv' BY <1>1, <1>3, <1>10, BeforeRows
<1>12. GatheredInv'
  <2>1. GatherStep(r) BY <1>2, <1>3, <1>10, <1>11 DEF GatherStep
  <2> QED BY <1>1, <1>2, <2>1, GatheredKept
<1>13. PatternType' BY <1>1, <1>2, <1>8 DEF PatternType
<1>14. PartInv(r)'
  <2>1. ~HasPattern(r)' BY <1>3 DEF HasPattern
  <2>2. round'[r] = 1 /\ ~posted'[r] BY <1>1, <1>2 DEF PartInv
  <2>3. Ranged(r)' BY <1>2, <1>4, RangedStays
  <2>4. /\ RowsFor(r, r)' = RowsFor(r, r) /\ Coupled(r)' = Coupled(r)
        /\ Received(r, 1)' = Received(r, 1)
    BY <1>2, PatternStatic
  <2>5. Span(Kind2, r)' = Span(Kind2, r)
    BY <1>2 DEF Span, Kind2, FirstOf, Kept, Keeper, Elected, Beats, Loses, Vote, Fresh, FirstDraw
  <2>6. Received(r, 1) = RowsFor(r, r) BY ReceivedRounds
  <2>7. Sorted(r, 1)' BY <1>8, <2>4, <2>5, <2>6 DEF Sorted
  <2>8. (r_entries[r] = Coupled(r) \ RowsFor(r, r))' BY <1>8, <2>4
  <2> QED BY <1>3, <2>1, <2>2, <2>3, <2>7, <2>8 DEF PartInv, Ranged
<1> QED BY <1>9, <1>11, <1>12, <1>13, <1>14, PatternCombine

(* What a rank sends are the rows of the others.                           *)
LEMMA StartApplyKeepsPattern ==
  ASSUME NumberingInv, PatternInv, NEW r \in Rank, StartApply(r)
  PROVE  PatternInv'
<1>1. NumberingType /\ PatternType /\ GatheredInv /\ PartInv(r) BY DEF NumberingInv, PatternInv
<1>2. /\ pc[r] = "inserted" /\ pc' = [pc EXCEPT ![r] = "rows max"]
      /\ packets' = [packets EXCEPT ![r] =
           [q \in Rank |-> {e \in r_entries[r] : OwnerOf(r, e[1]) = q}]]
      /\ Contribute(<<"rows max", 1>>, r, MaxOf({PacketSize(packets'[r][q]) : q \in Rank}))
      /\ space' = space /\ round' = round /\ posted' = posted
      /\ rowRange' = rowRange /\ colRange' = colRange
      /\ d_entries' = d_entries /\ o_entries' = o_entries /\ r_entries' = r_entries
  BY DEF StartApply, numbering, entries
<1>3. pc'[r] = "rows max" /\ \A q \in Rank \ {r} : pc'[q] = pc[q]
  BY <1>1, <1>2 DEF NumberingType
<1>4. space \in Spaces BY <1>1 DEF NumberingType
<1>5. Ranged(r)
  <2>1. pc[r] \notin Counted BY <1>2 DEF Counted, Numbering, NumberingRings
  <2> QED BY <1>1, <2>1 DEF PartInv, Ranged
<1>6. r_entries[r] = Coupled(r) \ RowsFor(r, r) BY <1>1, <1>2 DEF PartInv
<1>7. \A q \in Rank : {e \in r_entries[r] : OwnerOf(r, e[1]) = q} = Outgoing(r, q)
  <2>1. rowRange[r] = [q \in 0 .. P |-> FirstOf(Kind1, q)] BY <1>5 DEF Ranged
  <2> QED BY <1>4, <1>6, <2>1, PacketsAre
<1>8. /\ packets'[r] = [q \in Rank |-> Outgoing(r, q)] /\ DOMAIN packets' = Rank
      /\ \A q \in Rank \ {r} : packets'[q] = packets[q]
  BY <1>1, <1>2, <1>7 DEF PatternType
<1>9. MaxOf({PacketSize(packets'[r][q]) : q \in Rank}) = Most(r)
  <2>1. \A q \in Rank : PacketSize(packets'[r][q]) = PacketSize(Outgoing(r, q)) BY <1>8
  <2>2. {PacketSize(packets'[r][q]) : q \in Rank} = {PacketSize(Outgoing(r, q)) : q \in Rank}
    BY <2>1
  <2> QED BY <2>2 DEF Most
<1>10. PatternStill(r) BY <1>2, <1>3, <1>8 DEF PatternStill
<1>11. pc[r] \in Inserting /\ pc'[r] \notin Inserting /\ pc'[r] \in Building
  BY <1>2, <1>3 DEF Inserting, Building, Numbering, NumberingRings
<1>12. ~RowsBegun' /\ RowsInv' BY <1>1, <1>3, <1>11, BeforeRows
<1>13. GatheredInv'
  <2>1. PICK c, d, v : c = <<"rows max", 1>> /\ d = <<"ranges", 1>> /\ v = Most(r) OBVIOUS
  <2>2. c \in PatternReductions /\ d \in PatternReductions \ {c} BY <2>1 DEF PatternReductions
  <2>3. Contribute(c, r, v) BY <1>2, <1>9, <2>1
  <2>4. /\ DOMAIN coll'[c] = DOMAIN coll[c] \cup {r} /\ coll'[c][r] = v
        /\ \A q \in DOMAIN coll[c] : coll'[c][q] = coll[c][q]
        /\ \A e \in PatternReductions \ {c} : coll'[e] = coll[e]
    BY <1>1, <2>2, <2>3, PatternCollects
  <2>5. GatherStep(r) BY <1>3, <1>11, <1>12, <2>1, <2>2, <2>4 DEF GatherStep
  <2> QED BY <1>1, <1>2, <2>5, GatheredKept
<1>14. PatternType' BY <1>1, <1>2, <1>8 DEF PatternType
<1>15. PartInv(r)'
  <2>1. ~HasPattern(r)' BY <1>3 DEF HasPattern
  <2>2. round'[r] = 1 /\ ~posted'[r] BY <1>1, <1>2 DEF PartInv
  <2>3. Ranged(r)' BY <1>2, <1>5, RangedStays
  <2>4. Sorted(r, 1)'
    <3>1. Sorted(r, 1) BY <1>1, <1>2 DEF PartInv
    <3> QED BY <1>2, <3>1, SortedStays
  <2>5. (packets[r] = [q \in Rank |-> Outgoing(r, q)])'
    <3>1. \A q \in Rank : Outgoing(r, q)' = Outgoing(r, q) BY <1>2, PatternStatic
    <3>2. [q \in Rank |-> Outgoing(r, q)]' = [q \in Rank |-> Outgoing(r, q)] BY <3>1
    <3> QED BY <1>8, <3>2
  <2> QED BY <1>3, <2>1, <2>2, <2>3, <2>4, <2>5 DEF PartInv, Ranged
<1> QED BY <1>10, <1>12, <1>13, <1>14, <1>15, PatternCombine

(* A channel on which nothing happens.                                     *)
LEMMA RowsSame ==
  ASSUME space' = space, NEW q, NEW p, RowsChannel(q, p),
         RowsGiven(q, Gap(q, p))' <=> RowsGiven(q, Gap(q, p)),
         RowsTaken(p, Gap(q, p))' <=> RowsTaken(p, Gap(q, p)),
         net'[<<q, p, 1>>] = net[<<q, p, 1>>]
  PROVE  RowsChannel(q, p)'
<1>1. RowsFor(q, p)' = RowsFor(q, p) BY PatternStatic
<1>2. PICK c : c = net[<<q, p, 1>>] OBVIOUS
<1>3. net'[<<q, p, 1>>] = c BY <1>2
<1>4. /\ RowsTaken(p, Gap(q, p)) => RowsGiven(q, Gap(q, p))
      /\ ~RowsGiven(q, Gap(q, p)) => c = <<>>
      /\ RowsGiven(q, Gap(q, p)) /\ ~RowsTaken(p, Gap(q, p)) =>
           c \in Seq(ToSet(c)) /\ c # <<>> /\ Head(c) = RowsFor(q, p)
  BY <1>2 DEF RowsChannel
<1>5. /\ RowsTaken(p, Gap(q, p))' => RowsGiven(q, Gap(q, p))'
      /\ ~RowsGiven(q, Gap(q, p))' => c = <<>>
      /\ RowsGiven(q, Gap(q, p))' /\ ~RowsTaken(p, Gap(q, p))' =>
           c \in Seq(ToSet(c)) /\ c # <<>> /\ Head(c) = RowsFor(q, p)'
  BY <1>1, <1>4
<1> QED BY <1>3, <1>5 DEF RowsChannel

(* Nothing is on the way when nobody has begun.                            *)
LEMMA RowsEmpty ==
  ASSUME NumberingInv, AllNumbered, ~RowsBegun, NEW q \in Rank, NEW p \in Rank, q # p
  PROVE  RowsChannel(q, p)
<1>1. Channel(q, p) BY DEF NumberingInv, ChannelsInv
<1>2. Passed(p) = 4 BY DEF AllNumbered
<1>3. \A m \in 1 .. 4 : ~Pending(q, p, m) BY <1>2 DEF Pending, Taken
<1>4. net[<<q, p, 1>>] = <<>> BY <1>1, <1>3 DEF Channel
<1>5. pc[q] \in Building /\ pc[p] \in Building BY DEF RowsBegun
<1>6. "rows" \notin Building BY DEF Building, Counted, Numbering, NumberingRings
<1>7. ~RowsGiven(q, Gap(q, p)) /\ ~RowsTaken(p, Gap(q, p))
  BY <1>5, <1>6 DEF RowsGiven, RowsTaken
<1> QED BY <1>4, <1>7 DEF RowsChannel

(* A rank that a step leaves alone has given and taken what it had.        *)
LEMMA RowsOthers ==
  ASSUME NEW r, PatternStill(r), NEW q \in Rank \ {r}, NEW j
  PROVE  (RowsGiven(q, j)' <=> RowsGiven(q, j)) /\ (RowsTaken(q, j)' <=> RowsTaken(q, j))
BY DEF PatternStill, RowsGiven, RowsTaken

(* The longest packet tells whether there is a ring.                       *)
LEMMA EndApplyMaxKeepsPattern ==
  ASSUME NumberingInv, PatternInv, NEW r \in Rank, EndApplyMax(r)
  PROVE  PatternInv'
<1> DEFINE most == Longest(r, <<"rows max", 1>>)
<1>1. /\ NumberingType /\ SyncInv /\ PatternType /\ GatheredInv /\ RowsInv /\ PartInv(r)
  BY DEF NumberingInv, PatternInv
<1>2. /\ pc[r] = "rows max" /\ Reduced(<<"rows max", 1>>)
      /\ pc' = [pc EXCEPT ![r] = IF most = 0 THEN "done" ELSE "rows"]
      /\ space' = space /\ round' = round /\ posted' = posted /\ net' = net /\ coll' = coll
      /\ rowRange' = rowRange /\ colRange' = colRange /\ packets' = packets
      /\ d_entries' = d_entries /\ o_entries' = o_entries /\ r_entries' = r_entries
  BY DEF EndApplyMax, numbering, mpi, pattern, entries
<1>3. space \in Spaces BY <1>1 DEF NumberingType
<1>4. most = 0 <=> ~RowsRing
  <2>1. \A q \in Rank : coll[<<"rows max", 1>>][q] = Most(q)
    BY <1>1, <1>2 DEF GatheredInv, Reduced
  <2>2. {coll[<<"rows max", 1>>][q] : q \in Rank} = {Most(q) : q \in Rank} BY <2>1
  <2>3. most = MaxOf({Most(q) : q \in Rank}) BY <2>2 DEF Longest
  <2> QED BY <1>3, <2>3, RingOfRows
<1> HIDE DEF most
<1>5. /\ pc'[r] = IF RowsRing THEN "rows" ELSE "done"
      /\ \A q \in Rank \ {r} : pc'[q] = pc[q]
  BY <1>1, <1>2, <1>4 DEF NumberingType
<1>6. PatternStill(r) BY <1>2, <1>5 DEF PatternStill
<1>7. round[r] = 1 /\ ~posted[r] /\ Sorted(r, 1) /\ packets[r] = [q \in Rank |-> Outgoing(r, q)]
  BY <1>1, <1>2 DEF PartInv
<1>8. Ranged(r)
  <2>1. pc[r] \notin Counted BY <1>2 DEF Counted, Numbering, NumberingRings
  <2> QED BY <1>1, <2>1 DEF PartInv, Ranged
<1>9. RowsRing' = RowsRing BY <1>2, PatternStatic
<1>10. ASSUME RowsRing, NEW q \in Rank, NEW p \in Rank, q # p PROVE RowsChannel(q, p)'
  <2>1. RowsChannel(q, p)
    <3>1. CASE RowsBegun BY <1>1, <1>10, <3>1 DEF RowsInv
    <3>2. CASE ~RowsBegun
      <4>1. AllNumbered
        <5>1. pc[r] \notin Counted BY <1>2 DEF Counted, Numbering, NumberingRings
        <5> QED BY <1>1, <5>1 DEF SyncInv
      <4> QED BY <1>10, <3>2, <4>1, RowsEmpty
    <3> QED BY <3>1, <3>2
  <2>2. PICK j : j = Gap(q, p) OBVIOUS
  <2>3. j \in 1 .. (P - 1) BY <1>10, <2>2, Gaps
  <2>4. ~RowsGiven(r, j) /\ ~RowsTaken(r, j) /\ ~RowsGiven(r, j)' /\ ~RowsTaken(r, j)'
    <3>1. pc[r] \in Building /\ pc[r] # "rows" BY <1>2 DEF Building
    <3>2. pc'[r] = "rows" /\ round'[r] = 1 /\ ~posted'[r] BY <1>2, <1>5, <1>7, <1>10
    <3>3. ~(j < 1) BY <2>3
    <3> QED BY <3>1, <3>2, <3>3 DEF RowsGiven, RowsTaken
  <2>5. RowsGiven(q, j)' <=> RowsGiven(q, j)
    <3>1. CASE q = r BY <2>4, <3>1
    <3>2. CASE q # r BY <1>6, <3>2, RowsOthers
    <3> QED BY <3>1, <3>2
  <2>6. RowsTaken(p, j)' <=> RowsTaken(p, j)
    <3>1. CASE p = r BY <2>4, <3>1
    <3>2. CASE p # r BY <1>6, <3>2, RowsOthers
    <3> QED BY <3>1, <3>2
  <2>7. net'[<<q, p, 1>>] = net[<<q, p, 1>>] BY <1>2
  <2>8. /\ RowsGiven(q, Gap(q, p))' <=> RowsGiven(q, Gap(q, p))
        /\ RowsTaken(p, Gap(q, p))' <=> RowsTaken(p, Gap(q, p))
    <3>1. Gap(q, p)' = Gap(q, p) BY DEF Gap
    <3> QED BY <2>2, <2>5, <2>6, <3>1
  <2> QED BY <1>2, <2>1, <2>7, <2>8, RowsSame
<1>11. RowsInv' BY <1>9, <1>10 DEF RowsInv
<1>12. pc[r] \notin Inserting /\ pc'[r] \notin Inserting
  <2>1. pc'[r] = "rows" \/ pc'[r] = "done" BY <1>5
  <2>2. pc[r] = "rows max" BY <1>2
  <2> QED BY <2>1, <2>2 DEF Inserting, Numbering, NumberingRings
<1>13. GatheredInv'
  <2>1. GatherStep(r) BY <1>2, <1>5, <1>12 DEF GatherStep
  <2> QED BY <1>1, <1>2, <2>1, GatheredKept
<1>14. PatternType' BY <1>1, <1>2 DEF PatternType
<1>15. PartInv(r)'
  <2>1. Ranged(r)' BY <1>2, <1>8, RangedStays
  <2>2. Sorted(r, 1)' BY <1>2, <1>7, SortedStays
  <2>3. CASE RowsRing
    <3>1. pc'[r] = "rows" /\ ~HasPattern(r)' /\ round'[r] = 1 BY <1>2, <1>5, <1>7, <2>3 DEF HasPattern
    <3>2. (packets[r] = [q \in Rank |-> Outgoing(r, q)])'
      <4>1. \A q \in Rank : Outgoing(r, q)' = Outgoing(r, q) BY <1>2, PatternStatic
      <4>2. [q \in Rank |-> Outgoing(r, q)]' = [q \in Rank |-> Outgoing(r, q)] BY <4>1
      <4> QED BY <1>2, <1>7, <4>2
    <3>3. Sorted(r, round[r])'
      <4>1. PICK j : j = 1 OBVIOUS
      <4>2. Sorted(r, j)' BY <2>2, <4>1
      <4> QED BY <3>1, <4>1, <4>2
    <3> QED BY <1>9, <2>1, <2>3, <3>1, <3>2, <3>3 DEF PartInv, Ranged
  <2>4. CASE ~RowsRing
    <3>1. pc'[r] = "done" BY <1>5, <2>4
    <3>2. Sorted(r, P)'
      <4>1. Received(r, P) = Received(r, 1) BY <2>4, ReceivedRounds
      <4>2. Sorted(r, P) BY <1>7, <4>1 DEF Sorted
      <4> QED BY <1>2, <4>2, SortedStays
    <3> QED BY <2>1, <3>1, <3>2 DEF PartInv, Ranged
  <2> QED BY <2>3, <2>4
<1> QED BY <1>1, <1>6, <1>11, <1>13, <1>14, <1>15, PatternCombine

(* A first message is the head of its channel.                             *)
LEMMA FirstOfChannel ==
  ASSUME NEW x, NEW c, c = <<x>>
  PROVE  c \in Seq(ToSet(c)) /\ c # <<>> /\ Head(c) = x
<1>1. ToSet(c) = {x} BY DEF ToSet
<1>2. x \in {x} OBVIOUS
<1>3. <<x>> \in Seq({x}) BY <1>2
<1> QED BY <1>1, <1>3

(* It stays the head when others follow.                                   *)
LEMMA HeadStays ==
  ASSUME NEW c, c \in Seq(ToSet(c)), c # <<>>, NEW x, NEW d, d = Append(c, x)
  PROVE  d \in Seq(ToSet(d)) /\ d # <<>> /\ Head(d) = Head(c)
<1>1. PICK S : S = ToSet(c) \cup {x} OBVIOUS
<1>2. c \in Seq(S) /\ x \in S
  <2>1. \A i \in 1 .. Len(c) : c[i] \in S BY <1>1
  <2>2. Len(c) \in Nat /\ c = [i \in 1 .. Len(c) |-> c[i]] OBVIOUS
  <2> QED BY <1>1, <2>1, <2>2
<1>3. /\ d \in Seq(S) /\ Len(d) = Len(c) + 1 /\ Len(c) \in Nat
      /\ \A i \in 1 .. Len(c) : d[i] = c[i]
  BY <1>2
<1>4. Len(c) > 0 BY <1>2
<1>5. Head(d) = Head(c) BY <1>2, <1>3, <1>4
<1>6. \A i \in 1 .. Len(d) : d[i] \in ToSet(d) BY <1>3 DEF ToSet
<1>7. ASSUME NEW T, NEW s \in Seq(T), \A i \in 1 .. Len(s) : s[i] \in ToSet(s)
      PROVE  s \in Seq(ToSet(s))
  BY <1>7
<1>8. d \in Seq(ToSet(d)) BY <1>3, <1>6, <1>7
<1> QED BY <1>3, <1>4, <1>5, <1>8

(* A rank sends in round j what it has in the rows of its receiver.        *)
LEMMA SendRowsKeepsPattern ==
  ASSUME NumberingInv, PatternInv, NEW r \in Rank, SendRows(r)
  PROVE  PatternInv'
<1>1. /\ NumberingType /\ PatternType /\ GatheredInv /\ RowsInv /\ PartInv(r)
  BY DEF NumberingInv, PatternInv
<1>2. PICK j, t : j = round[r] /\ t = Dst(r, j) OBVIOUS
<1>3. /\ pc[r] = "rows" /\ ~posted[r]
      /\ net' = [net EXCEPT ![<<r, t, 1>>] = Append(@, packets[r][t])]
      /\ posted' = [posted EXCEPT ![r] = TRUE]
      /\ space' = space /\ round' = round /\ pc' = pc /\ coll' = coll
      /\ rowRange' = rowRange /\ colRange' = colRange /\ packets' = packets
      /\ d_entries' = d_entries /\ o_entries' = o_entries /\ r_entries' = r_entries
  BY <1>2 DEF SendRows, Send, numbering, pattern, entries
<1>4. j \in 1 .. (P - 1) BY <1>1, <1>2 DEF NumberingType
<1>5. t \in Rank /\ t # r /\ Gap(r, t) = j BY <1>2, <1>4, Rounds
<1>6. posted'[r] = TRUE /\ \A q \in Rank \ {r} : posted'[q] = posted[q]
  BY <1>1, <1>3 DEF NumberingType
<1>7. PatternStill(r) BY <1>3, <1>6 DEF PatternStill
<1>8. RowsRing /\ packets[r] = [q \in Rank |-> Outgoing(r, q)] /\ Sorted(r, j) /\ Ranged(r)
  <2>1. pc[r] \notin Counted BY <1>3 DEF Counted, Numbering, NumberingRings
  <2> QED BY <1>1, <1>2, <1>3, <2>1 DEF PartInv, Ranged
<1>9. packets[r][t] = RowsFor(r, t) BY <1>5, <1>8 DEF Outgoing
<1>10. RowsBegun
  <2>1. pc[r] \notin Building BY <1>3 DEF Building, Counted, Numbering, NumberingRings
  <2> QED BY <2>1 DEF RowsBegun
<1>11. \A g : /\ RowsTaken(r, g)' <=> RowsTaken(r, g)
              /\ RowsGiven(r, g)' <=> RowsGiven(r, g) \/ g = j
  BY <1>2, <1>3, <1>6 DEF RowsTaken, RowsGiven
<1>12. ~RowsGiven(r, j) BY <1>2, <1>3, <1>4 DEF RowsGiven
<1>13. ASSUME NEW q \in Rank, NEW p \in Rank, q # p PROVE RowsChannel(q, p)'
  <2>1. RowsChannel(q, p) BY <1>1, <1>8, <1>10, <1>13 DEF RowsInv
  <2>2. PICK g : g = Gap(q, p) OBVIOUS
  <2>3. Gap(q, p)' = Gap(q, p) BY DEF Gap
  <2>4. RowsTaken(p, g)' <=> RowsTaken(p, g)
    <3>1. CASE p = r BY <1>11, <3>1
    <3>2. CASE p # r BY <1>7, <3>2, RowsOthers
    <3> QED BY <3>1, <3>2
  <2>5. CASE q = r /\ p = t
    <3>1. g = j /\ Gap(r, t) = j BY <1>5, <2>2, <2>5
    <3>2. /\ RowsTaken(t, j) => RowsGiven(r, j)
          /\ ~RowsGiven(r, j) => net[<<r, t, 1>>] = <<>>
      BY <2>1, <2>5, <3>1 DEF RowsChannel
    <3>3. ~RowsTaken(t, j) /\ net[<<r, t, 1>>] = <<>> BY <1>12, <3>2
    <3>4. PICK c : c = net'[<<r, t, 1>>] OBVIOUS
    <3>5. c = <<RowsFor(r, t)>>
      <4>1. <<r, t, 1>> \in DOMAIN net BY <1>1, <1>5 DEF NumberingType
      <4>2. net'[<<r, t, 1>>] = Append(net[<<r, t, 1>>], packets[r][t]) BY <1>3, <4>1
      <4>3. PICK x : x = RowsFor(r, t) OBVIOUS
      <4>4. Append(<<>>, x) = <<x>> OBVIOUS
      <4> QED BY <1>9, <3>3, <3>4, <4>2, <4>3, <4>4
    <3>6. c \in Seq(ToSet(c)) /\ c # <<>> /\ Head(c) = RowsFor(r, t) BY <3>5, FirstOfChannel
    <3>7. RowsGiven(r, j)' /\ ~RowsTaken(t, j)' BY <1>11, <2>4, <2>5, <3>1, <3>3
    <3>8. RowsFor(r, t)' = RowsFor(r, t) BY <1>3, PatternStatic
    <3>9. /\ RowsTaken(t, j)' => RowsGiven(r, j)'
          /\ ~RowsGiven(r, j)' => c = <<>>
          /\ RowsGiven(r, j)' /\ ~RowsTaken(t, j)' =>
               c \in Seq(ToSet(c)) /\ c # <<>> /\ Head(c) = RowsFor(r, t)'
      BY <3>6, <3>7, <3>8
    <3>10. RowsChannel(r, t)' BY <1>5, <2>3, <2>5, <3>4, <3>9 DEF RowsChannel
    <3> QED BY <2>5, <3>10
  <2>6. CASE ~(q = r /\ p = t)
    <3>1. net'[<<q, p, 1>>] = net[<<q, p, 1>>]
      <4>1. <<q, p, 1>> \in DOMAIN net /\ <<q, p, 1>> # <<r, t, 1>>
        BY <1>1, <2>6 DEF NumberingType
      <4> QED BY <1>3, <4>1
    <3>2. RowsGiven(q, g)' <=> RowsGiven(q, g)
      <4>1. CASE q = r
        <5>1. g # j BY <1>5, <1>13, <2>2, <2>6, <4>1, Gaps
        <5> QED BY <1>11, <4>1, <5>1
      <4>2. CASE q # r BY <1>7, <4>2, RowsOthers
      <4> QED BY <4>1, <4>2
    <3>3. /\ RowsGiven(q, Gap(q, p))' <=> RowsGiven(q, Gap(q, p))
          /\ RowsTaken(p, Gap(q, p))' <=> RowsTaken(p, Gap(q, p))
      BY <2>2, <2>3, <2>4, <3>2
    <3> QED BY <1>3, <2>1, <3>1, <3>3, RowsSame
  <2> QED BY <2>5, <2>6
<1>14. RowsInv' BY <1>13 DEF RowsInv
<1>15. GatheredInv'
  <2>1. pc[r] \notin Inserting /\ pc'[r] = pc[r]
    BY <1>3 DEF Inserting, Numbering, NumberingRings
  <2>2. RowsBegun' => RowsBegun BY <1>10
  <2>3. GatherStep(r) BY <1>3, <2>1, <2>2 DEF GatherStep
  <2> QED BY <1>1, <1>3, <2>3, GatheredKept
<1>16. PatternType' BY <1>1, <1>3 DEF PatternType
<1>17. PartInv(r)'
  <2>1. Ranged(r)' BY <1>3, <1>8, RangedStays
  <2>2. Sorted(r, round[r])'
    <3>1. Sorted(r, j)' BY <1>3, <1>8, SortedStays
    <3>2. round'[r] = j BY <1>2, <1>3
    <3> QED BY <3>1, <3>2
  <2>3. pc'[r] = "rows" /\ ~HasPattern(r)' BY <1>3 DEF HasPattern
  <2>4. (packets[r] = [q \in Rank |-> Outgoing(r, q)])'
    <3>1. \A q \in Rank : Outgoing(r, q)' = Outgoing(r, q) BY <1>3, PatternStatic
    <3>2. [q \in Rank |-> Outgoing(r, q)]' = [q \in Rank |-> Outgoing(r, q)] BY <3>1
    <3> QED BY <1>3, <1>8, <3>2
  <2>5. RowsRing' BY <1>3, <1>8, PatternStatic
  <2> QED BY <2>1, <2>2, <2>3, <2>4, <2>5 DEF PartInv, Ranged
<1> QED BY <1>1, <1>7, <1>14, <1>15, <1>16, <1>17, PatternCombine

(* A rank that receives gets rows of its own, and adds them.               *)
LEMMA ReturnRowsKeepsPattern ==
  ASSUME NumberingInv, PatternInv, NEW r \in Rank, ReturnRows(r)
  PROVE  PatternInv'
<1> DEFINE new == Message(r)
           mine == \A e \in new : e[1] \in RowsOf(r, r)
<1>1. /\ NumberingType /\ PatternType /\ GatheredInv /\ RowsInv /\ PartInv(r)
  BY DEF NumberingInv, PatternInv
<1>2. PICK j, s : j = round[r] /\ s = From(r) OBVIOUS
<1>3. /\ pc[r] = "rows" /\ posted[r] /\ net[<<s, r, 1>>] # <<>>
      /\ net' = [net EXCEPT ![<<s, r, 1>>] = Tail(@)]
      /\ posted' = [posted EXCEPT ![r] = FALSE]
      /\ round' = [round EXCEPT ![r] = IF LastRound(r) THEN 1 ELSE @ + 1]
      /\ mine => /\ d_entries' = [d_entries EXCEPT ![r] = @ \cup Diagonal(r, new)]
                 /\ o_entries' = [o_entries EXCEPT ![r] = @ \cup (new \ Diagonal(r, new))]
                 /\ pc' = [pc EXCEPT ![r] = IF LastRound(r) THEN "done" ELSE "rows"]
      /\ space' = space /\ coll' = coll
      /\ rowRange' = rowRange /\ colRange' = colRange /\ packets' = packets
      /\ r_entries' = r_entries
  BY <1>2 DEF ReturnRows, Recv, Arrived, NextRound, numbering
<1>4. j \in 1 .. (P - 1) BY <1>1, <1>2 DEF NumberingType
<1>5. s \in Rank /\ s # r /\ Gap(s, r) = j /\ s = Src(r, j) BY <1>2, <1>4, Rounds DEF From
<1>6. RowsRing /\ packets[r] = [q \in Rank |-> Outgoing(r, q)] /\ Sorted(r, j) /\ Ranged(r)
  <2>1. pc[r] \notin Counted BY <1>3 DEF Counted, Numbering, NumberingRings
  <2> QED BY <1>1, <1>2, <1>3, <2>1 DEF PartInv, Ranged
<1>7. RowsBegun
  <2>1. pc[r] \notin Building BY <1>3 DEF Building, Counted, Numbering, NumberingRings
  <2> QED BY <2>1 DEF RowsBegun
<1>8. RowsGiven(s, j) /\ new = RowsFor(s, r)
  <2>1. RowsChannel(s, r) BY <1>1, <1>5, <1>6, <1>7 DEF RowsInv
  <2>2. ~RowsTaken(r, j) BY <1>2, <1>3, <1>4 DEF RowsTaken
  <2>3. /\ ~RowsGiven(s, j) => net[<<s, r, 1>>] = <<>>
        /\ RowsGiven(s, j) /\ ~RowsTaken(r, j) => Head(net[<<s, r, 1>>]) = RowsFor(s, r)
    BY <1>5, <2>1 DEF RowsChannel
  <2>4. new = Head(net[<<s, r, 1>>]) BY <1>2 DEF Message, Arriving
  <2> QED BY <1>3, <2>2, <2>3, <2>4
<1>9. RowsOf(r, r) = Span(Kind1, r) /\ ColsOf(r, r) = Span(Kind2, r)
  <2>1. r \in 0 .. P /\ r + 1 \in 0 .. P BY PAssumption DEF Rank
  <2> QED BY <1>6, <2>1 DEF Ranged, RowsOf, ColsOf, Span
<1>10. mine BY <1>8, <1>9 DEF RowsFor
<1> HIDE DEF mine, new
<1>11. LastRound(r) <=> j = P - 1 BY <1>2 DEF LastRound
<1>12. /\ posted'[r] = FALSE /\ round'[r] = (IF j = P - 1 THEN 1 ELSE j + 1)
       /\ pc'[r] = (IF j = P - 1 THEN "done" ELSE "rows")
       /\ d_entries'[r] = d_entries[r] \cup Diagonal(r, new)
       /\ o_entries'[r] = o_entries[r] \cup (new \ Diagonal(r, new))
       /\ DOMAIN d_entries' = Rank /\ DOMAIN o_entries' = Rank
  BY <1>1, <1>2, <1>3, <1>10, <1>11 DEF NumberingType, PatternType
<1>13. \A q \in Rank \ {r} :
         /\ pc'[q] = pc[q] /\ round'[q] = round[q] /\ posted'[q] = posted[q]
         /\ d_entries'[q] = d_entries[q] /\ o_entries'[q] = o_entries[q]
  BY <1>1, <1>3, <1>10 DEF NumberingType, PatternType
<1>14. PatternStill(r) BY <1>3, <1>13 DEF PatternStill
<1>15. P \in Nat BY PAssumption
<1>16. ASSUME NEW g \in 1 .. (P - 1)
       PROVE  /\ RowsTaken(r, g)' <=> RowsTaken(r, g) \/ g = j
              /\ RowsGiven(r, g)' <=> RowsGiven(r, g)
  <2>1. RowsTaken(r, g) <=> g < j BY <1>2, <1>3 DEF RowsTaken
  <2>2. RowsGiven(r, g) <=> g < j \/ g = j BY <1>2, <1>3 DEF RowsGiven
  <2>3. CASE j = P - 1
    <3>1. pc'[r] = "done" BY <1>12, <2>3
    <3>2. "done" \notin Building BY DEF Building, Counted, Numbering, NumberingRings
    <3>3. RowsTaken(r, g)' /\ RowsGiven(r, g)' BY <3>1, <3>2 DEF RowsTaken, RowsGiven, Building, Counted
    <3>4. g < j \/ g = j BY <1>15, <2>3
    <3> QED BY <2>1, <2>2, <3>3, <3>4
  <2>4. CASE j # P - 1
    <3>1. pc'[r] = "rows" /\ round'[r] = j + 1 /\ ~posted'[r] BY <1>12, <2>4
    <3>2. RowsTaken(r, g)' <=> g < j + 1 BY <3>1 DEF RowsTaken
    <3>3. RowsGiven(r, g)' <=> g < j + 1 BY <3>1 DEF RowsGiven
    <3>4. g < j + 1 <=> g < j \/ g = j BY <1>4
    <3> QED BY <2>1, <2>2, <3>2, <3>3, <3>4
  <2> QED BY <2>3, <2>4
<1>17. ASSUME NEW q \in Rank, NEW p \in Rank, q # p PROVE RowsChannel(q, p)'
  <2>1. RowsChannel(q, p) BY <1>1, <1>6, <1>7, <1>17 DEF RowsInv
  <2>2. PICK g : g = Gap(q, p) OBVIOUS
  <2>3. g \in 1 .. (P - 1) BY <1>17, <2>2, Gaps
  <2>4. Gap(q, p)' = Gap(q, p) BY DEF Gap
  <2>5. RowsGiven(q, g)' <=> RowsGiven(q, g)
    <3>1. CASE q = r BY <1>16, <2>3, <3>1
    <3>2. CASE q # r BY <1>14, <3>2, RowsOthers
    <3> QED BY <3>1, <3>2
  <2>6. CASE q = s /\ p = r
    <3>1. g = j BY <1>5, <2>2, <2>6
    <3>2. RowsGiven(q, g)' BY <1>8, <2>5, <2>6, <3>1
    <3>3. RowsTaken(p, g)' BY <1>16, <2>3, <2>6, <3>1
    <3> QED BY <2>2, <2>4, <3>2, <3>3 DEF RowsChannel
  <2>7. CASE ~(q = s /\ p = r)
    <3>1. net'[<<q, p, 1>>] = net[<<q, p, 1>>]
      <4>1. <<q, p, 1>> \in DOMAIN net /\ <<q, p, 1>> # <<s, r, 1>>
        BY <1>1, <2>7 DEF NumberingType
      <4> QED BY <1>3, <4>1
    <3>2. RowsTaken(p, g)' <=> RowsTaken(p, g)
      <4>1. CASE p = r
        <5>1. g # j BY <1>5, <1>17, <2>2, <2>7, <4>1, Gaps
        <5> QED BY <1>16, <2>3, <4>1, <5>1
      <4>2. CASE p # r BY <1>14, <4>2, RowsOthers
      <4> QED BY <4>1, <4>2
    <3>3. /\ RowsGiven(q, Gap(q, p))' <=> RowsGiven(q, Gap(q, p))
          /\ RowsTaken(p, Gap(q, p))' <=> RowsTaken(p, Gap(q, p))
      BY <2>2, <2>4, <2>5, <3>2
    <3> QED BY <1>3, <2>1, <3>1, <3>3, RowsSame
  <2> QED BY <2>6, <2>7
<1>18. RowsInv' BY <1>17 DEF RowsInv
<1>19. GatheredInv'
  <2>1. pc'[r] = "done" \/ pc'[r] = "rows" BY <1>12
  <2>2. pc'[r] \notin Inserting BY <2>1 DEF Inserting, Numbering, NumberingRings
  <2>3. GatherStep(r) BY <1>3, <1>7, <1>13, <2>2 DEF GatherStep
  <2> QED BY <1>1, <1>3, <2>3, GatheredKept
<1>20. PatternType' BY <1>1, <1>3, <1>12 DEF PatternType
<1>21. (Sorted(r, j + 1))'
  <2>1. Received(r, j + 1) = Received(r, j) \cup new BY <1>4, <1>5, <1>8, ReceivedRounds
  <2>2. Diagonal(r, new) = {e \in new : e[2] \in Span(Kind2, r)} BY <1>9 DEF Diagonal
  <2>3. /\ d_entries[r] = {e \in Received(r, j) : e[2] \in Span(Kind2, r)}
        /\ o_entries[r] = {e \in Received(r, j) : e[2] \notin Span(Kind2, r)}
    BY <1>6 DEF Sorted
  <2>4. /\ d_entries'[r] = {e \in Received(r, j + 1) : e[2] \in Span(Kind2, r)}
        /\ o_entries'[r] = {e \in Received(r, j + 1) : e[2] \notin Span(Kind2, r)}
    BY <1>12, <2>1, <2>2, <2>3
  <2>5. Received(r, j + 1)' = Received(r, j + 1) BY <1>3, PatternStatic
  <2>6. Span(Kind2, r)' = Span(Kind2, r)
    BY <1>3 DEF Span, Kind2, FirstOf, Kept, Keeper, Elected, Beats, Loses, Vote, Fresh, FirstDraw
  <2> QED BY <2>4, <2>5, <2>6 DEF Sorted
<1>22. PartInv(r)'
  <2>1. Ranged(r)' BY <1>3, <1>6, RangedStays
  <2>2. CASE j = P - 1
    <3>1. pc'[r] = "done" BY <1>12, <2>2
    <3>2. j + 1 = P BY <1>15, <2>2
    <3>3. (Sorted(r, P))' BY <1>21, <3>2
    <3> QED BY <2>1, <3>1, <3>3 DEF PartInv, Ranged
  <2>3. CASE j # P - 1
    <3>1. pc'[r] = "rows" /\ round'[r] = j + 1 /\ ~HasPattern(r)' BY <1>12, <2>3 DEF HasPattern
    <3>2. Sorted(r, round[r])' BY <1>21, <3>1
    <3>3. (packets[r] = [q \in Rank |-> Outgoing(r, q)])'
      <4>1. \A q \in Rank : Outgoing(r, q)' = Outgoing(r, q) BY <1>3, PatternStatic
      <4>2. [q \in Rank |-> Outgoing(r, q)]' = [q \in Rank |-> Outgoing(r, q)] BY <4>1
      <4> QED BY <1>3, <1>6, <4>2
    <3>4. RowsRing' BY <1>3, <1>6, PatternStatic
    <3> QED BY <2>1, <3>1, <3>2, <3>3, <3>4 DEF PartInv, Ranged
  <2> QED BY <2>2, <2>3
<1> QED BY <1>1, <1>14, <1>18, <1>19, <1>20, <1>22, PatternCombine

(* A step after the pattern: the rank may send or receive, after its rows. *)
HaloMove(r) ==
  /\ space' = space /\ coll' = coll
  /\ rowRange' = rowRange /\ colRange' = colRange /\ packets' = packets
  /\ d_entries' = d_entries /\ o_entries' = o_entries /\ r_entries' = r_entries
  /\ pc[r] \notin Building \cup {"rows", "error"} /\ pc'[r] \notin Building \cup {"rows"}
  /\ \A q \in Rank \ {r} : pc'[q] = pc[q] /\ round'[q] = round[q] /\ posted'[q] = posted[q]
  /\ \A q, p \in Rank :
       \/ net'[<<q, p, 1>>] = net[<<q, p, 1>>]
       \/ q = r /\ \E x : net'[<<q, p, 1>>] = Append(net[<<q, p, 1>>], x)
       \/ p = r

(* It finds the rows behind it: they are first in their channels.          *)
LEMMA HaloMoveKeepsPattern ==
  ASSUME NumberingInv, PatternInv, NEW r \in Rank, HaloMove(r)
  PROVE  PatternInv'
<1>1. PatternType /\ GatheredInv /\ RowsInv /\ PartInv(r) BY DEF PatternInv
<1>2. /\ space' = space /\ coll' = coll
      /\ rowRange' = rowRange /\ colRange' = colRange /\ packets' = packets
      /\ d_entries' = d_entries /\ o_entries' = o_entries /\ r_entries' = r_entries
      /\ pc[r] \notin Building /\ pc'[r] \notin Building /\ pc[r] # "rows" /\ pc'[r] # "rows"
      /\ pc[r] # "error"
      /\ \A q \in Rank \ {r} : pc'[q] = pc[q] /\ round'[q] = round[q] /\ posted'[q] = posted[q]
  BY DEF HaloMove
<1>3. PatternStill(r) BY <1>2 DEF PatternStill
<1>4. RowsBegun BY <1>2 DEF RowsBegun
<1>5. \A j : /\ RowsGiven(r, j) /\ RowsTaken(r, j)
             /\ RowsGiven(r, j)' /\ RowsTaken(r, j)'
  BY <1>2 DEF RowsGiven, RowsTaken, Building, Counted
<1>6. ASSUME RowsRing, NEW q \in Rank, NEW p \in Rank, q # p PROVE RowsChannel(q, p)'
  <2>1. RowsChannel(q, p) BY <1>1, <1>4, <1>6 DEF RowsInv
  <2>2. PICK g : g = Gap(q, p) OBVIOUS
  <2>3. Gap(q, p)' = g BY <2>2 DEF Gap
  <2>4. /\ RowsTaken(p, g) => RowsGiven(q, g)
        /\ RowsGiven(q, g) /\ ~RowsTaken(p, g) =>
             /\ net[<<q, p, 1>>] \in Seq(ToSet(net[<<q, p, 1>>]))
             /\ net[<<q, p, 1>>] # <<>> /\ Head(net[<<q, p, 1>>]) = RowsFor(q, p)
    BY <2>1, <2>2 DEF RowsChannel
  <2>5. (RowsGiven(q, g)' <=> RowsGiven(q, g)) /\ (RowsTaken(p, g)' <=> RowsTaken(p, g))
    <3>1. RowsGiven(q, g)' <=> RowsGiven(q, g)
      <4>1. CASE q = r BY <1>5, <4>1
      <4>2. CASE q # r BY <1>3, <4>2, RowsOthers
      <4> QED BY <4>1, <4>2
    <3>2. RowsTaken(p, g)' <=> RowsTaken(p, g)
      <4>1. CASE p = r BY <1>5, <4>1
      <4>2. CASE p # r BY <1>3, <4>2, RowsOthers
      <4> QED BY <4>1, <4>2
    <3> QED BY <3>1, <3>2
  <2>6. CASE net'[<<q, p, 1>>] = net[<<q, p, 1>>]
    <3>1. /\ RowsGiven(q, Gap(q, p))' <=> RowsGiven(q, Gap(q, p))
          /\ RowsTaken(p, Gap(q, p))' <=> RowsTaken(p, Gap(q, p))
      BY <2>2, <2>3, <2>5
    <3> QED BY <1>2, <2>1, <2>6, <3>1, RowsSame
  <2>7. ASSUME q = r, NEW x, net'[<<q, p, 1>>] = Append(net[<<q, p, 1>>], x)
        PROVE  RowsChannel(q, p)'
    <3>1. RowsGiven(q, g) BY <1>5, <2>7
    <3>2. PICK c, d : c = net[<<q, p, 1>>] /\ d = net'[<<q, p, 1>>] OBVIOUS
    <3>3. RowsFor(q, p)' = RowsFor(q, p) BY <1>2, PatternStatic
    <3>4. ~RowsTaken(p, g) => c \in Seq(ToSet(c)) /\ c # <<>> /\ Head(c) = RowsFor(q, p)
      BY <2>4, <3>1, <3>2
    <3>5. d = Append(c, x) BY <2>7, <3>2
    <3>6. ~RowsTaken(p, g) => d \in Seq(ToSet(d)) /\ d # <<>> /\ Head(d) = Head(c)
      BY <3>4, <3>5, HeadStays
    <3>7. ~RowsTaken(p, g)' => d \in Seq(ToSet(d)) /\ d # <<>> /\ Head(d) = RowsFor(q, p)'
      BY <2>5, <3>3, <3>4, <3>6
    <3>8. RowsGiven(q, g)' BY <2>5, <3>1
    <3>9. /\ RowsTaken(p, g)' => RowsGiven(q, g)'
          /\ ~RowsGiven(q, g)' => d = <<>>
          /\ RowsGiven(q, g)' /\ ~RowsTaken(p, g)' =>
               d \in Seq(ToSet(d)) /\ d # <<>> /\ Head(d) = RowsFor(q, p)'
      BY <3>7, <3>8
    <3> QED BY <2>3, <3>2, <3>9 DEF RowsChannel
  <2>8. CASE p = r
    <3>1. RowsTaken(p, g) /\ RowsTaken(p, g)' BY <1>5, <2>8
    <3>2. RowsGiven(q, g)' BY <2>4, <2>5, <3>1
    <3> QED BY <2>3, <3>1, <3>2 DEF RowsChannel
  <2> QED BY <2>6, <2>7, <2>8 DEF HaloMove
<1>7. RowsRing' = RowsRing BY <1>2, PatternStatic
<1>8. RowsInv' BY <1>6, <1>7 DEF RowsInv
<1>9. GatheredInv'
  <2>1. pc'[r] \notin Inserting BY <1>2 DEF Inserting, Building, Counted
  <2>2. GatherStep(r) BY <1>2, <1>4, <2>1 DEF GatherStep
  <2> QED BY <1>1, <1>2, <2>2, GatheredKept
<1>10. PatternType' BY <1>1, <1>2 DEF PatternType
<1>11. PartInv(r)'
  <2>1. pc'[r] \notin {"built", "ranges", "ready", "inserted", "rows max", "rows"}
    BY <1>2 DEF Building, Counted
  <2>2. HasPattern(r)
    <3>1. pc[r] \notin {"built", "ranges", "ready", "inserted", "rows max", "rows"}
      BY <1>2 DEF Building, Counted
    <3>2. pc[r] \notin Numbering BY <1>2 DEF Building, Counted
    <3> QED BY <3>1, <3>2 DEF HasPattern
  <2>3. Sorted(r, P) /\ Ranged(r)
    <3>1. pc[r] \notin Counted BY <1>2 DEF Building
    <3> QED BY <1>1, <2>2, <3>1 DEF PartInv, Ranged
  <2>4. Sorted(r, P)' BY <1>2, <2>3, SortedStays
  <2>5. Ranged(r)' BY <1>2, <2>3, RangedStays
  <2> QED BY <2>1, <2>4, <2>5 DEF PartInv, Ranged
<1> QED BY <1>1, <1>3, <1>8, <1>9, <1>10, <1>11, PatternCombine

(* The steps of the halo are such.                                         *)
LEMMA HaloMoves ==
  ASSUME NumberingInv, NEW r \in Rank, HaloStep(r)
  PROVE  HaloMove(r)
<1>1. NumberingType BY DEF NumberingInv
<1>2. /\ DOMAIN pc = Rank /\ DOMAIN round = Rank /\ DOMAIN posted = Rank
      /\ DOMAIN net = Rank \X Rank \X {0, 1} /\ round[r] \in 1 .. (P - 1)
  BY <1>1 DEF NumberingType
<1> DEFINE Before == {"done", "mapping", "mapped", "halo reals", "halo dofs", "filled"}
           After == {"mapping", "mapped", "error", "halo reals", "halo dofs", "filled", "assembled"}
           Frame == /\ space' = space /\ coll' = coll
                    /\ rowRange' = rowRange /\ colRange' = colRange /\ packets' = packets
                    /\ d_entries' = d_entries /\ o_entries' = o_entries /\ r_entries' = r_entries
           Clocks == \A q \in Rank \ {r} : round'[q] = round[q] /\ posted'[q] = posted[q]
           Channels == \A q, p \in Rank :
                         \/ net'[<<q, p, 1>>] = net[<<q, p, 1>>]
                         \/ q = r /\ \E x : net'[<<q, p, 1>>] = Append(net[<<q, p, 1>>], x)
                         \/ p = r
<1>3. ASSUME pc[r] \in Before, NEW stage \in After, pc'[r] = stage,
             \A q \in Rank \ {r} : pc'[q] = pc[q], Frame, Clocks, Channels
      PROVE  HaloMove(r)
  <2>1. pc[r] \notin Building \cup {"rows", "error"}
    BY <1>3 DEF Building, Counted, Numbering, NumberingRings
  <2>2. stage \notin Building \cup {"rows"}
    BY DEF Building, Counted, Numbering, NumberingRings
  <2> QED BY <1>3, <2>1, <2>2 DEF HaloMove
<1>4. ASSUME NEW stage, pc' = [pc EXCEPT ![r] = stage]
       PROVE  pc'[r] = stage /\ \A q \in Rank \ {r} : pc'[q] = pc[q]
  BY <1>2, <1>4
<1>5. ASSUME NEW q, NEW x, Send(r, q, 1, x) PROVE Clocks \/ round' # round
  BY <1>2, <1>5 DEF Send
<1>6. ASSUME NEW q, NEW x, Send(r, q, 1, x) PROVE Channels
  <2>1. net' = [net EXCEPT ![<<r, q, 1>>] = Append(@, x)] BY <1>6 DEF Send
  <2>2. ASSUME NEW s \in Rank, NEW p \in Rank
        PROVE  \/ net'[<<s, p, 1>>] = net[<<s, p, 1>>]
               \/ s = r /\ net'[<<s, p, 1>>] = Append(net[<<s, p, 1>>], x)
    <3>1. <<s, p, 1>> \in DOMAIN net BY <1>2
    <3> QED BY <2>1, <3>1
  <2> QED BY <2>2
<1>7. ASSUME Recv(r, From(r), 1), NextRound(r) \/ round' = round PROVE Clocks /\ Channels
  <2>1. /\ net' = [net EXCEPT ![<<From(r), r, 1>>] = Tail(@)]
        /\ posted' = [posted EXCEPT ![r] = FALSE]
    BY <1>7 DEF Recv
  <2>2. Clocks BY <1>2, <1>7, <2>1 DEF NextRound
  <2>3. ASSUME NEW s \in Rank, NEW p \in Rank, p # r
        PROVE  net'[<<s, p, 1>>] = net[<<s, p, 1>>]
    <3>1. <<s, p, 1>> \in DOMAIN net /\ <<s, p, 1>> # <<From(r), r, 1>> BY <1>2, <2>3
    <3> QED BY <2>1, <3>1
  <2> QED BY <2>2, <2>3
<1>8. ASSUME NEW s \in Rank, NEW p \in Rank, NEW c, c = <<s, p, 1>>
       PROVE  c \in DOMAIN net /\ c[3] # 0
  <2>1. c[3] = 1 BY <1>8
  <2>2. c \in DOMAIN net BY <1>2, <1>8
  <2>3. 1 # 0 OBVIOUS
  <2> QED BY <2>1, <2>2, <2>3
<1>9. CASE StartMapping(r)
  <2>1. /\ pc[r] \in Before /\ pc' = [pc EXCEPT ![r] = "mapping"] /\ Frame /\ Clocks
    BY <1>9 DEF StartMapping, numbering, pattern, entries
  <2>2. PICK copied : net' = [c \in DOMAIN net |->
          IF c[1] = r /\ c[2] \in Adj(r) /\ c[3] = 0
          THEN Append(net[c], IF c[2] \in copied THEN Ids(SharedWith(r, c[2]))
                              ELSE Indices(SharedWith(r, c[2])))
          ELSE net[c]]
    BY <1>9 DEF StartMapping
  <2>3. ASSUME NEW s \in Rank, NEW p \in Rank PROVE net'[<<s, p, 1>>] = net[<<s, p, 1>>]
    <3>1. PICK c : c = <<s, p, 1>> OBVIOUS
    <3>2. c \in DOMAIN net /\ c[3] # 0 BY <1>8, <3>1
    <3> QED BY <2>2, <3>1, <3>2
  <2>4. "mapping" \in After OBVIOUS
  <2>5. Channels BY <2>3
  <2> HIDE DEF Before, After, Frame, Clocks, Channels
  <2> QED BY <1>3, <1>4, <2>1, <2>4, <2>5
<1>10. CASE EndMapping(r)
  <2>1. /\ pc[r] \in Before /\ Frame /\ Clocks
        /\ net' = [c \in DOMAIN net |->
              IF c[1] \in Adj(r) /\ c[2] = r /\ c[3] = 0 THEN Tail(net[c]) ELSE net[c]]
    BY <1>10 DEF EndMapping, numbering, pattern, entries
  <2>2. PICK stage \in After : pc' = [pc EXCEPT ![r] = stage] BY <1>10 DEF EndMapping
  <2>3. ASSUME NEW s \in Rank, NEW p \in Rank PROVE net'[<<s, p, 1>>] = net[<<s, p, 1>>]
    <3>1. PICK c : c = <<s, p, 1>> OBVIOUS
    <3>2. c \in DOMAIN net /\ c[3] # 0 BY <1>8, <3>1
    <3> QED BY <2>1, <3>1, <3>2
  <2>4. Channels BY <2>3
  <2> HIDE DEF Before, After, Frame, Clocks, Channels
  <2> QED BY <1>3, <1>4, <2>1, <2>2, <2>4
<1>11. CASE FillHalo(r)
  <2>1. /\ pc[r] \in Before /\ pc' = [pc EXCEPT ![r] = "halo reals"] /\ Frame /\ Clocks
        /\ Channels /\ "halo reals" \in After
    BY <1>11 DEF FillHalo, numbering, mpi, pattern, entries
  <2> HIDE DEF Before, After, Frame, Clocks, Channels
  <2> QED BY <1>3, <1>4, <2>1
<1>12. CASE SendHalo(r)
  <2>1. PICK q, x : Send(r, q, 1, x) BY <1>12 DEF SendHalo
  <2>2. pc[r] \in HaloRings /\ pc' = pc /\ Frame /\ round' = round
    BY <1>12 DEF SendHalo, numbering, pattern, entries
  <2>3. pc[r] \in Before /\ pc[r] \in After BY <2>2 DEF HaloRings
  <2>4. pc'[r] = pc[r] /\ \A p \in Rank \ {r} : pc'[p] = pc[p] BY <2>2
  <2>5. Clocks BY <1>5, <2>1, <2>2
  <2>6. Channels BY <1>6, <2>1
  <2> HIDE DEF Before, After, Frame, Clocks, Channels
  <2> QED BY <1>3, <2>2, <2>3, <2>4, <2>5, <2>6
<1>13. CASE ReturnHalo(r)
  <2>1. /\ pc[r] \in HaloRings /\ Recv(r, From(r), 1) /\ Frame
        /\ NextRound(r) \/ round' = round
    BY <1>13 DEF ReturnHalo, numbering, pattern, entries
  <2>2. PICK stage \in After : pc' = [pc EXCEPT ![r] = stage] BY <1>13 DEF ReturnHalo
  <2>3. pc[r] \in Before BY <2>1 DEF HaloRings
  <2>4. Clocks /\ Channels BY <1>7, <2>1
  <2> HIDE DEF Before, After, Frame, Clocks, Channels
  <2> QED BY <1>3, <1>4, <2>1, <2>2, <2>3, <2>4
<1>14. CASE AssembleFacets(r)
  <2>1. /\ pc[r] \in Before /\ pc' = [pc EXCEPT ![r] = "assembled"] /\ Frame /\ Clocks
        /\ Channels /\ "assembled" \in After
    BY <1>14 DEF AssembleFacets, numbering, mpi, pattern, entries
  <2> HIDE DEF Before, After, Frame, Clocks, Channels
  <2> QED BY <1>3, <1>4, <2>1
<1> QED BY <1>9, <1>10, <1>11, <1>12, <1>13, <1>14 DEF HaloStep

(* The steps of the pattern and of the halo keep the invariant.            *)
LEMMA PatternStepKeeps ==
  ASSUME NumberingInv, PatternInv, NEW r \in Rank, PatternStep(r)
  PROVE  PatternInv'
BY StartInitKeepsPattern, EndInitKeepsPattern, InsertKeepsPattern, StartApplyKeepsPattern,
   EndApplyMaxKeepsPattern, SendRowsKeepsPattern, ReturnRowsKeepsPattern DEF PatternStep

(* A step that changes nothing keeps it.                                   *)
LEMMA StutterKeepsPattern ==
  ASSUME NumberingInv, PatternInv, UNCHANGED vars
  PROVE  PatternInv'
<1>1. 0 \in Rank BY PAssumption DEF Rank
<1>2. PICK r : r \in Rank BY <1>1
<1>3. /\ space' = space /\ round' = round /\ posted' = posted /\ pc' = pc
      /\ net' = net /\ coll' = coll
      /\ rowRange' = rowRange /\ colRange' = colRange /\ packets' = packets
      /\ d_entries' = d_entries /\ o_entries' = o_entries /\ r_entries' = r_entries
  BY DEF vars, patternVars, numbering, mpi, pattern, entries
<1>4. PatternType /\ GatheredInv /\ RowsInv /\ PartInv(r) BY <1>2 DEF PatternInv
<1>5. PatternStill(r) BY <1>3 DEF PatternStill
<1>6. RowsBegun' = RowsBegun BY <1>3 DEF RowsBegun
<1>7. GatheredInv'
  <2>1. GatherStep(r) BY <1>3, <1>6 DEF GatherStep
  <2> QED BY <1>2, <1>3, <1>4, <2>1, GatheredKept
<1>8. RowsRing' = RowsRing BY <1>3, PatternStatic
<1>9. ASSUME RowsBegun, RowsRing, NEW q \in Rank, NEW p \in Rank, q # p PROVE RowsChannel(q, p)'
  <2>1. RowsChannel(q, p) BY <1>4, <1>9 DEF RowsInv
  <2>2. /\ RowsGiven(q, Gap(q, p))' <=> RowsGiven(q, Gap(q, p))
        /\ RowsTaken(p, Gap(q, p))' <=> RowsTaken(p, Gap(q, p))
    BY <1>3 DEF RowsGiven, RowsTaken, Gap
  <2>3. net'[<<q, p, 1>>] = net[<<q, p, 1>>] BY <1>3
  <2> QED BY <1>3, <2>1, <2>2, <2>3, RowsSame
<1>10. RowsInv' BY <1>6, <1>8, <1>9 DEF RowsInv
<1>11. PatternType' BY <1>3, <1>4 DEF PatternType
<1>12. PartInv(r)' BY <1>3, <1>4, PartStays
<1> QED BY <1>2, <1>5, <1>7, <1>10, <1>11, <1>12, PatternCombine

(* It holds at the start.                                                  *)
LEMMA StartsPattern ==
  ASSUME Init
  PROVE  PatternInv
<1>1. NumberingInit /\ InitMPI({0, 1}, NumberingReductions \cup PatternReductions) /\ PatternInit
  BY DEF Init
<1>2. \A r \in Rank : pc[r] = "start" BY <1>1 DEF NumberingInit
<1>3. "start" \in Counted /\ "start" \in Building BY DEF Building, Counted, Numbering
<1>4. ~RowsBegun BY <1>2, <1>3 DEF RowsBegun
<1>5. PatternType BY <1>1 DEF PatternInit, PatternType
<1>6. GatheredInv
  <2>1. \A c \in PatternReductions : coll[c] = <<>> BY <1>1 DEF InitMPI
  <2>2. <<"ranges", 1>> \in PatternReductions /\ <<"rows max", 1>> \in PatternReductions
    BY DEF PatternReductions
  <2>3. coll[<<"ranges", 1>>] = <<>> /\ coll[<<"rows max", 1>>] = <<>> BY <2>1, <2>2
  <2>4. DOMAIN coll[<<"ranges", 1>>] = {} /\ DOMAIN coll[<<"rows max", 1>>] = {}
    <3>1. \A f : f = <<>> => DOMAIN f = {} OBVIOUS
    <3> QED BY <2>3, <3>1
  <2> QED BY <1>4, <2>4 DEF GatheredInv
<1>7. ASSUME NEW r \in Rank PROVE PartInv(r)
  <2>1. pc[r] = "start" BY <1>2
  <2>2. ~HasPattern(r) BY <2>1 DEF HasPattern, Numbering
  <2> QED BY <1>3, <2>1, <2>2 DEF PartInv
<1> QED BY <1>4, <1>5, <1>6, <1>7 DEF PatternInv, RowsInv

(* Every reachable state satisfies the invariant: whichever way the ranks  *)
(* go round the ring, each message has what its round is for, and a rank   *)
(* has after each round the rows of the ranks it has heard.                *)
THEOREM PatternInvariant == Spec => []PatternInv
<1>1. Init => PatternInv BY StartsPattern
<1>2. NumberingInv /\ PatternInv /\ [Next]_vars => PatternInv'
  <2>1. SUFFICES ASSUME NumberingInv, PatternInv, [Next]_vars PROVE PatternInv' OBVIOUS
  <2>2. CASE UNCHANGED vars BY <2>1, <2>2, StutterKeepsPattern
  <2>3. ASSUME NEW r \in Rank, Step(r) PROVE PatternInv'
    <3>1. CASE NumberingStep(r) /\ UNCHANGED pattern BY <2>1, <3>1, NumberingKeepsPattern
    <3>2. CASE PatternStep(r) BY <2>1, <3>2, PatternStepKeeps
    <3>3. CASE HaloStep(r) BY <2>1, <3>3, HaloMoves, HaloMoveKeepsPattern
    <3> QED BY <2>3, <3>1, <3>2, <3>3 DEF Step, BuildStep
  <2> QED BY <2>1, <2>2, <2>3 DEF Next
<1> QED BY <1>1, <1>2, NumberingInvariant, PTL DEF Spec

(* A number is in the range of a result just when it is in the span.       *)
LEMMA SpanIsRange ==
  ASSUME space \in Spaces, NEW r \in Rank, NEW b \in 1 .. 2, NEW k \in Kinds, Result(r, b, k),
         NEW n \in Nat
  PROVE  InRange(r, b, n) <=> n \in Span(k, r)
<1>1. range[r][b].offset = FirstOf(k, r) /\ range[r][b].size = Cardinality(Kept(k, r))
  BY DEF Result, RangeOf
<1>2. r \in 0 .. P BY PAssumption DEF Rank
<1>3. /\ FirstOf(k, r) \in Nat /\ Cardinality(Kept(k, r)) \in Nat
      /\ FirstOf(k, r + 1) = FirstOf(k, r) + Cardinality(Kept(k, r))
  BY <1>2, Firsts
<1> QED BY <1>1, <1>3 DEF InRange, Span

(* SparsityPattern::apply(): when the ranks have their patterns, the owner *)
(* of a row has exactly the entries that the ranks have inserted in it,    *)
(* those in its own columns apart from the others, for every mesh, every   *)
(* number of ranks and every order of the ring's steps.                    *)
THEOREM PatternIsExact == Spec => []PatternExact
<1>1. NumberingInv /\ PatternInv => PatternExact
  <2>1. SUFFICES ASSUME NumberingInv, PatternInv, \A q \in Rank : HasPattern(q), NEW r \in Rank
                 PROVE  LET mine == {e \in UNION {Couplings(q) : q \in Rank} : InRange(r, 1, e[1])}
                        IN  /\ d_entries[r] = {e \in mine : InRange(r, 2, e[2])}
                            /\ o_entries[r] = {e \in mine : ~InRange(r, 2, e[2])}
    BY DEF PatternExact
  <2>2. \A q \in Rank : pc[q] \notin Numbering BY <2>1 DEF HasPattern
  <2>3. \A q \in Rank : Couplings(q) = Coupled(q)
    <3>1. pc[r] \notin Counted
      BY <2>1 DEF HasPattern, Counted, Numbering, NumberingRings
    <3>2. AllNumbered BY <2>1, <3>1 DEF NumberingInv, SyncInv
    <3> QED BY <2>1, <2>2, <3>2, ResultsKnown, CouplingsAre
  <2>4. {Couplings(q) : q \in Rank} = {Coupled(q) : q \in Rank} BY <2>3
  <2>5. ASSUME NEW q \in Rank, NEW e \in Coupled(q)
        PROVE  /\ InRange(r, 1, e[1]) <=> e[1] \in Span(Kind1, r)
               /\ InRange(r, 2, e[2]) <=> e[2] \in Span(Kind2, r)
    <3>1. space \in Spaces /\ Result(r, 1, Kind1) /\ Result(r, 2, Kind2)
      BY <2>1, <2>2, ResultsKnown
    <3>2. Kind1 \in Kinds /\ Kind2 \in Kinds BY <3>1, KindsOK
    <3>3. e[1] \in Nat /\ e[2] \in Nat BY <3>1, EntryKept
    <3> QED BY <3>1, <3>2, <3>3, SpanIsRange
  <2>6. Sorted(r, P) BY <2>1 DEF PatternInv, PartInv
  <2>7. Received(r, P) = UNION {RowsFor(q, r) : q \in Rank} BY ReceivedRounds
  <2>8. \A e : e \in Received(r, P) <=>
          e \in UNION {Coupled(q) : q \in Rank} /\ InRange(r, 1, e[1])
    BY <2>5, <2>7 DEF RowsFor
  <2>9. \A e \in Received(r, P) : InRange(r, 2, e[2]) <=> e[2] \in Span(Kind2, r)
    BY <2>5, <2>7 DEF RowsFor
  <2> QED BY <2>4, <2>6, <2>8, <2>9 DEF Sorted
<1> QED BY <1>1, NumberingInvariant, PatternInvariant, PTL

=============================================================================
