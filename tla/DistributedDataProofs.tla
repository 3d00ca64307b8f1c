------------------------ MODULE DistributedDataProofs ------------------------
(***************************************************************************)
(* For any number of ranks and any well-formed layout: NumberingInv is an  *)
(* invariant of the protocol, and with it the holders of an entity agree   *)
(* on its number, no rank fails, and a rank that is done holds exactly the *)
(* canonical numbering.  remap_shared_adj() leaves a rank with exactly the *)
(* other holders of each of its entities, and no message of the three      *)
(* rings is larger than the buffer it arrives in.                          *)
(***************************************************************************)
EXTENDS DistributedData, SumsProofs

------------------------------------------------------------------------------
(* The ring *)

(* The partners of a round are ranks, other than the caller.               *)
LEMMA Partners ==
  ASSUME NEW r \in Rank, NEW j \in 1 .. (P - 1)
  PROVE  /\ Dst(r, j) \in Rank /\ Dst(r, j) # r
         /\ Src(r, j) \in Rank /\ Src(r, j) # r
         /\ Dst(Src(r, j), j) = r /\ Src(Dst(r, j), j) = r
BY PAssumption DEF Rank, Dst, Src

(* Each other rank is asked in exactly one round.                          *)
LEMMA RoundOfPartner ==
  ASSUME NEW r \in Rank, NEW d \in Rank, r # d
  PROVE  /\ RoundFor(r, d) \in 1 .. (P - 1)
         /\ \A j \in 1 .. (P - 1) : Dst(r, j) = d <=> j = RoundFor(r, d)
<1>1. CASE d > r
  <2>1. RoundFor(r, d) = d - r BY <1>1, PAssumption DEF Rank, RoundFor
  <2>2. ASSUME NEW j \in 1 .. (P - 1) PROVE Dst(r, j) = d <=> j = d - r
    BY <1>1, PAssumption DEF Rank, Dst
  <2> QED BY <1>1, <2>1, <2>2, PAssumption DEF Rank
<1>2. CASE d < r
  <2>1. RoundFor(r, d) = d - r + P BY <1>2, PAssumption DEF Rank, RoundFor
  <2>2. ASSUME NEW j \in 1 .. (P - 1) PROVE Dst(r, j) = d <=> j = d - r + P
    BY <1>2, PAssumption DEF Rank, Dst
  <2> QED BY <1>2, <2>1, <2>2, PAssumption DEF Rank
<1> QED BY <1>1, <1>2 DEF Rank

------------------------------------------------------------------------------
(* The layout *)

(* The entities a rank holds, and those of them it owns, are finitely many.*)
LEMMA LocalFinite ==
  ASSUME WellFormed(layout), NEW r \in Rank
  PROVE  /\ \A S \in SUBSET Local(layout, r) : IsFiniteSet(S) /\ Cardinality(S) \in Nat
         /\ NumOwned(r) \in Nat
         /\ NumOwned(r) = Cardinality(Owned(layout, r))
<1> DEFINE L == Local(layout, r)
<1>1. layout.size[r] \in Nat BY DEF WellFormed
<1>2. IsFiniteSet(L) /\ Cardinality(L) = layout.size[r]
  <2>1. 0 \in Int /\ layout.size[r] - 1 \in Int BY <1>1
  <2>2. /\ IsFiniteSet(0 .. (layout.size[r] - 1))
        /\ Cardinality(0 .. (layout.size[r] - 1)) =
             IF 0 > layout.size[r] - 1 THEN 0 ELSE (layout.size[r] - 1) - 0 + 1
    BY <2>1, FS_Interval
  <2> QED BY <1>1, <2>2 DEF Local
<1>3. ASSUME NEW S \in SUBSET L PROVE IsFiniteSet(S) /\ Cardinality(S) \in Nat
  BY <1>2, FS_Subset, FS_CardinalityType
<1>4. Ghosts(r) \in SUBSET L /\ L \cap Ghosts(r) = Ghosts(r) BY DEF Ghosts
<1>5. Owned(layout, r) = L \ Ghosts(r)
  BY DEF Owned, Local, Ghosts
<1>6. Cardinality(L \ Ghosts(r)) = Cardinality(L) - Cardinality(Ghosts(r))
  BY <1>2, <1>4, FS_Difference
<1>7. NumOwned(r) = Cardinality(Owned(layout, r))
  BY <1>2, <1>5, <1>6 DEF NumOwned
<1>8. Owned(layout, r) \in SUBSET L BY <1>5
<1>9. NumOwned(r) \in Nat BY <1>3, <1>7, <1>8
<1> HIDE DEF L
<1> QED BY <1>3, <1>7, <1>9 DEF L

(* The inverse of a numbering leads back into its domain.                  *)
LEMMA InvertedRange ==
  ASSUME NEW f, NEW g \in DOMAIN Inverted(f)
  PROVE  Inverted(f)[g] \in DOMAIN f /\ f[Inverted(f)[g]] = g
BY DEF Inverted

(* Global-to-local finds an entity by its exported number.                 *)
LEMMA OldLookup ==
  ASSUME WellFormed(layout), NEW r \in Rank, NEW i \in Local(layout, r)
  PROVE  LET m == Inverted(layout.ids[r])
         IN  /\ layout.ids[r][i] \in DOMAIN m
             /\ m[layout.ids[r][i]] = i
<1> DEFINE f == layout.ids[r]
<1>1. f \in [Local(layout, r) -> Nat] BY DEF WellFormed
<1>2. \A k \in Local(layout, r) : f[k] = f[i] => k = i BY DEF WellFormed
<1>3. (CHOOSE k \in DOMAIN f : f[k] = f[i]) = i BY <1>1, <1>2
<1> QED BY <1>1, <1>3 DEF Inverted

(* The owner of an entity holds it and knows that it owns it.              *)
LEMMA OwnerHolds ==
  ASSUME WellFormed(layout), NEW r \in Rank, NEW i \in Local(layout, r),
         NEW o \in Rank, o = layout.owners[r][i]
  PROVE  \E k \in Local(layout, o) :
           layout.ids[o][k] = layout.ids[r][i] /\ layout.owners[o][k] = o
<1>0. \A q \in Rank : \A x \in Local(layout, q) :
        \E k \in Local(layout, layout.owners[q][x]) :
          layout.ids[layout.owners[q][x]][k] = layout.ids[q][x]
  BY DEF WellFormed
<1>1. PICK k \in Local(layout, o) : layout.ids[o][k] = layout.ids[r][i]
  BY <1>0
<1>2. layout.owners[o][k] = layout.owners[r][i] BY <1>1 DEF WellFormed
<1> QED BY <1>1, <1>2

(* A well-formed layout is consistent.                                     *)
LEMMA WellFormedIsConsistent ==
  ASSUME NEW L, WellFormed(L)
  PROVE  Consistent(L, Rank)
<1>1. ASSUME NEW r \in Rank
      PROVE  /\ L.size[r] \in Nat
             /\ \A i \in Local(L, r) : L.owners[r][i] \in Rank
             /\ \A i, k \in Local(L, r) : L.ids[r][i] = L.ids[r][k] => i = k
  BY DEF WellFormed
<1>2. \E n \in Nat : Rank = 0 .. (n - 1) BY PAssumption DEF Rank
<1> QED BY <1>1, <1>2 DEF WellFormed, Consistent

(* The canonical number is a number, and belongs to one entity, whatever   *)
(* rank looks at it.                                                       *)
LEMMA CanonType ==
  ASSUME WellFormed(layout), NEW r \in Rank, NEW i \in Local(layout, r)
  PROVE  Canon(r, i) \in Nat
BY WellFormedIsConsistent, CanonicalInterval DEF Canon

LEMMA CanonAgree ==
  ASSUME WellFormed(layout), NEW r \in Rank, NEW i \in Local(layout, r),
         NEW q \in Rank, NEW k \in Local(layout, q)
  PROVE  layout.ids[r][i] = layout.ids[q][k] <=> Canon(r, i) = Canon(q, k)
<1>1. Consistent(layout, Rank) BY WellFormedIsConsistent
<1>2. layout.ids[r][i] = layout.ids[q][k] => Canon(r, i) = Canon(q, k)
  BY <1>1, CanonicalAgrees DEF Canon
<1>3. Canon(r, i) = Canon(q, k) => layout.ids[r][i] = layout.ids[q][k]
  BY <1>1, CanonicalSeparates DEF Canon
<1> QED BY <1>2, <1>3

LEMMA CanonOwned ==
  ASSUME WellFormed(layout), NEW r \in Rank, NEW i \in Local(layout, r),
         layout.owners[r][i] = r
  PROVE  Canon(r, i) = Below(layout, r)
                       + Cardinality({x \in Owned(layout, r) : x < i})
<1>1. (CHOOSE x \in Local(layout, r) : layout.ids[r][x] = layout.ids[r][i]) = i
  BY DEF WellFormed
<1> QED BY <1>1 DEF Canon, Canonical

------------------------------------------------------------------------------
(* The initial state *)

LEMMA InitInv == Init => NumberingInv
<1> SUFFICES ASSUME Init PROVE NumberingInv OBVIOUS
<1> USE DEF Init
<1>1. WellFormed(layout) BY LayoutsAssumption
<1>2. ControlTypes
  <2>1. DOMAIN layout.ids = Rank
    <3>1. layout.ids = [r \in Rank |-> layout.ids[r]] BY <1>1 DEF WellFormed
    <3> QED BY <3>1
  <2>2. 1 \in 1 .. (P - 1) BY PAssumption
  <2> QED BY <1>1, <2>1, <2>2 DEF ControlTypes, Stage, Collective
<1>3. ASSUME NEW r \in Rank PROVE DataTypes(r)
  <2>1. numbering[r] \in [Local(layout, r) -> Nat] BY <1>1 DEF WellFormed
  <2>2. \A g \in DOMAIN local[r] : local[r][g] \in Local(layout, r)
    BY <2>1 DEF Inverted
  <2>3. shared[r] \in [Local(layout, r) -> SUBSET Rank] BY <1>1 DEF WellFormed
  <2> QED BY <2>1, <2>2, <2>3 DEF DataTypes
<1>4. ChannelsInv
  <2>1. ASSUME NEW s \in Rank, NEW d \in Rank, NEW t \in Tag
        PROVE net[<<s, d, t>>] = <<>>
    OBVIOUS
  <2>2. \A S : <<>> \in Seq(S) OBVIOUS
  <2> QED BY <2>1, <2>2 DEF ChannelsInv
<1>5. ScanInv BY DEF ScanInv, Collective
<1>6. ASSUME NEW r \in Rank PROVE RankInv(r)
  BY DEF RankInv, ControlInv, OldNumbersInv, OwnershipInv, NewNumbersInv, Ring,
         Finalized, Renumbering
<1> QED BY <1>2, <1>3, <1>4, <1>5, <1>6 DEF NumberingInv, TypeOK

------------------------------------------------------------------------------
(* What a step leaves alone *)

(* The layout never changes, and with it all that is read from it.         *)
LEMMA LayoutFixed ==
  ASSUME layout' = layout
  PROVE  /\ \A r : Ghosts(r)' = Ghosts(r) /\ NumOwned(r)' = NumOwned(r)
         /\ \A r, i : Canon(r, i)' = Canon(r, i)
         /\ \A r, d : GhostsFor(r, d)' = GhostsFor(r, d)
         /\ \A r, d : Question(r, d)' = Question(r, d) /\ Answer(r, d)' = Answer(r, d)
         /\ \A s, d, t : Buffers(s, d, t)' = Buffers(s, d, t)
<1>1. \A r : Ghosts(r)' = Ghosts(r) BY DEF Ghosts
<1>2. \A r : NumOwned(r)' = NumOwned(r) BY <1>1 DEF NumOwned
<1>3. \A r, i : Canon(r, i)' = Canon(r, i) BY DEF Canon
<1>4. \A r, d : GhostsFor(r, d)' = GhostsFor(r, d) BY <1>1 DEF GhostsFor
<1>5. \A r, d : Question(r, d)' = Question(r, d) BY <1>4 DEF Question
<1>6. \A r, d : Answer(r, d)' = Answer(r, d) BY <1>3, <1>4 DEF Answer
<1>7. \A s, d, t : Buffers(s, d, t)' = Buffers(s, d, t) BY <1>5, <1>6 DEF Buffers
<1> QED BY <1>1, <1>2, <1>3, <1>4, <1>5, <1>6, <1>7

LEMMA ChannelsFixed ==
  ASSUME ChannelsInv, layout' = layout, net' = net
  PROVE  ChannelsInv'
<1>1. SUFFICES ASSUME NEW s \in Rank, NEW d \in Rank, NEW t \in Tag
      PROVE  net'[<<s, d, t>>] \in Seq(Buffers(s, d, t)')
  BY DEF ChannelsInv
<1>2. Buffers(s, d, t)' = Buffers(s, d, t) BY LayoutFixed
<1>3. net[<<s, d, t>>] \in Seq(Buffers(s, d, t)) BY DEF ChannelsInv
<1> QED BY <1>2, <1>3

(* A rank whose own variables a step leaves alone keeps its invariant.     *)
LEMMA Frame ==
  ASSUME NEW q \in Rank, DataTypes(q), RankInv(q), layout' = layout,
         pc'[q] = pc[q], round'[q] = round[q], numbering'[q] = numbering[q],
         local'[q] = local[q], fresh'[q] = fresh[q], shared'[q] = shared[q],
         ownership'[q] = ownership[q], offset'[q] = offset[q],
         sendbuf'[q] = sendbuf[q], reply'[q] = reply[q]
  PROVE  DataTypes(q)' /\ RankInv(q)'
<1>1. DataTypes(q)' BY DEF DataTypes
<1>2. ControlInv(q)' BY DEF RankInv, ControlInv
<1>3. OldNumbersInv(q)' BY LayoutFixed DEF RankInv, OldNumbersInv
<1>4. OwnershipInv(q)' BY LayoutFixed DEF RankInv, OwnershipInv
<1>5. NewNumbersInv(q)'
  <2>1. \A i : Settled(q, i)' <=> Settled(q, i) BY DEF Settled
  <2> QED BY <2>1, LayoutFixed DEF RankInv, NewNumbersInv
<1> QED BY <1>1, <1>2, <1>3, <1>4, <1>5 DEF RankInv

(* A contribution keeps the table of contributions well formed.            *)
LEMMA Contributed ==
  ASSUME coll \in [Collective -> [Rank -> Nat \cup {NotEntered}]],
         NEW c \in Collective, NEW r \in Rank, NEW v \in Nat, Contribute(c, r, v)
  PROVE  /\ coll' \in [Collective -> [Rank -> Nat \cup {NotEntered}]]
         /\ \A q \in Rank : coll'["scan"][q] =
              IF c = "scan" /\ q = r THEN v ELSE coll["scan"][q]
BY DEF Contribute, Collective

(* The largest contribution to a reduction that is complete.               *)
LEMMA LargestContribution ==
  ASSUME coll \in [Collective -> [Rank -> Nat \cup {NotEntered}]],
         NEW c \in Collective, Reduced(c)
  PROVE  MaxOf({coll[c][q] : q \in Rank}) \in Nat
<1>1. P - 1 \in Nat BY PAssumption
<1>2. coll[c] \in [0 .. (P - 1) -> Nat] BY DEF Reduced, Rank
<1>3. MaxOf({coll[c][k] : k \in 0 .. (P - 1)}) \in Nat BY <1>1, <1>2, MaxOfFamily
<1> QED BY <1>3 DEF Rank

(* The invariant of the whole from that of its parts, when r steps.        *)
LEMMA Assembled ==
  ASSUME NumberingInv, NEW r \in Rank, layout' = layout, ControlTypes',
         ChannelsInv', ScanInv', DataTypes(r)', RankInv(r)',
         \A q \in Rank \ {r} :
           /\ pc'[q] = pc[q] /\ round'[q] = round[q] /\ numbering'[q] = numbering[q]
           /\ local'[q] = local[q] /\ fresh'[q] = fresh[q] /\ shared'[q] = shared[q]
           /\ ownership'[q] = ownership[q] /\ offset'[q] = offset[q]
           /\ sendbuf'[q] = sendbuf[q] /\ reply'[q] = reply[q]
  PROVE  NumberingInv'
<1>1. \A q \in Rank \ {r} : DataTypes(q)' /\ RankInv(q)'
  BY Frame DEF NumberingInv, TypeOK
<1>2. \A q \in Rank : DataTypes(q)' /\ RankInv(q)' BY <1>1
<1> QED BY <1>2 DEF NumberingInv, TypeOK

------------------------------------------------------------------------------
(* remap_shared_adj() *)

LEMMA StartRemapInv ==
  ASSUME NumberingInv, NEW r \in Rank, StartRemap(r)
  PROVE  NumberingInv'
<1> DEFINE D == {k \in Local(layout, r) : shared[r][k] # {}}
           buffer == [i \in D |-> numbering[r][i]]
<1>1. /\ pc[r] = "exported" /\ pc' = [pc EXCEPT ![r] = "adjmax"]
      /\ Contribute("adjmax", r, Cardinality(DOMAIN buffer))
      /\ sendbuf' = [sendbuf EXCEPT ![r] = [d \in Rank |-> buffer]]
      /\ UNCHANGED <<layout, round, posted, net, data, reply, recvmax>>
  BY DEF StartRemap
<1>2. ControlTypes /\ DataTypes(r) /\ RankInv(r) /\ ScanInv /\ ChannelsInv
  BY DEF NumberingInv, TypeOK
<1>3. Cardinality(DOMAIN buffer) \in Nat
  <2>1. D \in SUBSET Local(layout, r) /\ DOMAIN buffer = D OBVIOUS
  <2> HIDE DEF D, buffer
  <2> QED BY <1>2, <2>1, LocalFinite DEF ControlTypes
<1>4. \A d \in Rank : buffer \in Buffers(r, d, 0)
  <2>1. numbering[r] = layout.ids[r]
    BY <1>1, <1>2 DEF RankInv, OldNumbersInv, Renumbering
  <2> QED BY <2>1 DEF Buffers
<1> HIDE DEF buffer
<1>5. /\ coll' \in [Collective -> [Rank -> Nat \cup {NotEntered}]]
      /\ \A q \in Rank : coll'["scan"][q] = coll["scan"][q]
  BY <1>1, <1>2, <1>3, Contributed DEF ControlTypes, Collective
<1>6. ControlTypes' BY <1>1, <1>2, <1>5 DEF ControlTypes, data, Stage, Collective
<1>7. ScanInv' BY <1>1, <1>2, <1>5, LayoutFixed DEF ScanInv
<1>8. ChannelsInv' BY <1>1, <1>2, ChannelsFixed
<1>9. DataTypes(r)' BY <1>1, <1>2 DEF DataTypes, data
<1>10. RankInv(r)'
  <2>1. pc'[r] = "adjmax" /\ \A d \in Rank : sendbuf'[r][d] = buffer
    BY <1>1, <1>2 DEF ControlTypes
  <2>2. ControlInv(r)' BY <1>1, <1>2, <2>1 DEF RankInv, ControlInv, Ring
  <2>3. OldNumbersInv(r)'
    BY <1>1, <1>2, <1>4, <2>1, LayoutFixed DEF RankInv, OldNumbersInv, data, Renumbering
  <2>4. OwnershipInv(r)' BY <2>1 DEF OwnershipInv, Finalized, Renumbering
  <2>5. NewNumbersInv(r)'
    BY <1>1, <1>2, <2>1 DEF RankInv, NewNumbersInv, data, Renumbering
  <2> QED BY <2>2, <2>3, <2>4, <2>5 DEF RankInv
<1> QED BY <1>1, <1>2, <1>6, <1>7, <1>8, <1>9, <1>10, Assembled DEF ControlTypes, data

LEMMA EndRemapMaxInv ==
  ASSUME NumberingInv, NEW r \in Rank, EndRemapMax(r)
  PROVE  NumberingInv'
<1>1. /\ pc[r] = "adjmax" /\ Reduced("adjmax") /\ pc' = [pc EXCEPT ![r] = "adj"]
      /\ recvmax' = [recvmax EXCEPT ![r] = MaxOf({coll["adjmax"][q] : q \in Rank})]
      /\ UNCHANGED <<layout, mpi, data, sendbuf, reply>>
  BY DEF EndRemapMax
<1>2. ControlTypes /\ DataTypes(r) /\ RankInv(r) /\ ScanInv /\ ChannelsInv
  BY DEF NumberingInv, TypeOK
<1>3. MaxOf({coll["adjmax"][q] : q \in Rank}) \in Nat
  BY <1>1, <1>2, LargestContribution DEF ControlTypes, Collective
<1>4. ControlTypes' BY <1>1, <1>2, <1>3 DEF ControlTypes, mpi, data, Stage, Ring
<1>5. ScanInv' BY <1>1, <1>2, LayoutFixed DEF ScanInv, mpi
<1>6. ChannelsInv' BY <1>1, <1>2, ChannelsFixed DEF mpi
<1>7. DataTypes(r)' BY <1>1, <1>2 DEF DataTypes, data
<1>8. RankInv(r)'
  <2>1. pc'[r] = "adj" BY <1>1, <1>2 DEF ControlTypes
  <2>2. ControlInv(r)' BY <2>1 DEF ControlInv, Ring
  <2>3. OldNumbersInv(r)'
    BY <1>1, <1>2, <2>1, LayoutFixed DEF RankInv, OldNumbersInv, data, Renumbering
  <2>4. OwnershipInv(r)' BY <2>1 DEF OwnershipInv, Finalized, Renumbering
  <2>5. NewNumbersInv(r)'
    BY <1>1, <1>2, <2>1 DEF RankInv, NewNumbersInv, data, Renumbering
  <2> QED BY <2>2, <2>3, <2>4, <2>5 DEF RankInv
<1> QED BY <1>1, <1>2, <1>4, <1>5, <1>6, <1>7, <1>8, Assembled DEF ControlTypes, mpi, data

------------------------------------------------------------------------------
(* The messages of the rings *)

LEMMA Sent ==
  ASSUME ChannelsInv, layout' = layout, DOMAIN net = Rank \X Rank \X Tag,
         NEW s \in Rank, NEW d \in Rank, NEW t \in Tag, NEW m \in Buffers(s, d, t),
         net' = [net EXCEPT ![<<s, d, t>>] = Append(@, m)]
  PROVE  ChannelsInv' /\ DOMAIN net' = Rank \X Rank \X Tag
<1>1. SUFFICES ASSUME NEW a \in Rank, NEW b \in Rank, NEW c \in Tag
      PROVE  net'[<<a, b, c>>] \in Seq(Buffers(a, b, c)')
  BY DEF ChannelsInv
<1>2. Buffers(a, b, c)' = Buffers(a, b, c) BY LayoutFixed
<1>3. net[<<a, b, c>>] \in Seq(Buffers(a, b, c)) BY DEF ChannelsInv
<1>4. CASE a = s /\ b = d /\ c = t
  <2>1. net'[<<s, d, t>>] = Append(net[<<s, d, t>>], m) OBVIOUS
  <2> QED BY <1>2, <1>3, <1>4, <2>1
<1>5. CASE ~(a = s /\ b = d /\ c = t)
  <2>1. net'[<<a, b, c>>] = net[<<a, b, c>>] BY <1>5
  <2> QED BY <1>2, <1>3, <2>1
<1> QED BY <1>4, <1>5

LEMMA Received ==
  ASSUME ChannelsInv, layout' = layout, DOMAIN net = Rank \X Rank \X Tag,
         NEW s \in Rank, NEW d \in Rank, NEW t \in Tag, net[<<s, d, t>>] # <<>>,
         net' = [net EXCEPT ![<<s, d, t>>] = Tail(@)]
  PROVE  /\ ChannelsInv' /\ DOMAIN net' = Rank \X Rank \X Tag
         /\ Head(net[<<s, d, t>>]) \in Buffers(s, d, t)
<1>0. net[<<s, d, t>>] \in Seq(Buffers(s, d, t)) BY DEF ChannelsInv
<1>1. Head(net[<<s, d, t>>]) \in Buffers(s, d, t) BY <1>0
<1>2. ASSUME NEW a \in Rank, NEW b \in Rank, NEW c \in Tag
      PROVE  net'[<<a, b, c>>] \in Seq(Buffers(a, b, c)')
  <2>2. Buffers(a, b, c)' = Buffers(a, b, c) BY LayoutFixed
  <2>3. net[<<a, b, c>>] \in Seq(Buffers(a, b, c)) BY DEF ChannelsInv
  <2>4. CASE a = s /\ b = d /\ c = t
    <3>1. net'[<<s, d, t>>] = Tail(net[<<s, d, t>>]) OBVIOUS
    <3>2. Tail(net[<<s, d, t>>]) \in Seq(Buffers(s, d, t)) BY <1>0
    <3> QED BY <2>2, <2>4, <3>1, <3>2
  <2>5. CASE ~(a = s /\ b = d /\ c = t)
    <3>1. net'[<<a, b, c>>] = net[<<a, b, c>>] BY <2>5
    <3> QED BY <2>2, <2>3, <3>1
  <2> QED BY <2>4, <2>5
<1> QED BY <1>1, <1>2 DEF ChannelsInv

LEMMA PostInv ==
  ASSUME NumberingInv, NEW r \in Rank, Post(r)
  PROVE  NumberingInv'
<1>1. /\ pc[r] \in Ring /\ net' = [net EXCEPT ![Out(r)] = Append(@, Payload(r))]
      /\ posted' = [posted EXCEPT ![r] = TRUE]
      /\ UNCHANGED <<layout, pc, round, coll, data, buffers>>
  BY DEF Post
<1>2. ControlTypes /\ DataTypes(r) /\ RankInv(r) /\ ScanInv /\ ChannelsInv
  BY DEF NumberingInv, TypeOK
<1>3. round[r] \in 1 .. (P - 1) BY <1>2 DEF ControlTypes
<1>4. To(r) \in Rank BY <1>3, Partners DEF To
<1>5. TagOf(r) \in Tag BY DEF TagOf, Tag
<1>6. Payload(r) \in Buffers(r, To(r), TagOf(r))
  <2>1. CASE pc[r] = "adj"
    <3>1. TagOf(r) = 0 /\ Payload(r) = sendbuf[r][To(r)] BY <2>1 DEF TagOf, Payload
    <3> QED BY <1>2, <1>4, <2>1, <3>1 DEF RankInv, OldNumbersInv
  <2>2. CASE pc[r] = "ask"
    <3>1. TagOf(r) = 1 /\ Payload(r) = sendbuf[r][To(r)] BY <2>2 DEF TagOf, Payload
    <3>2. sendbuf[r][To(r)] = Question(r, To(r))
      BY <1>2, <1>4, <2>2 DEF RankInv, NewNumbersInv, Renumbering
    <3> QED BY <3>1, <3>2 DEF Buffers
  <2>3. CASE pc[r] = "answer"
    <3>1. TagOf(r) = 2 /\ Payload(r) = reply[r] /\ To(r) = Src(r, round[r])
      BY <2>3 DEF TagOf, Payload, To
    <3>2. reply[r] = Answer(To(r), r) BY <1>2, <2>3, <3>1 DEF RankInv, NewNumbersInv
    <3> QED BY <3>1, <3>2 DEF Buffers
  <2> QED BY <1>1, <2>1, <2>2, <2>3 DEF Ring
<1>7. ChannelsInv' /\ DOMAIN net' = Rank \X Rank \X Tag
  <2>1. net' = [net EXCEPT ![<<r, To(r), TagOf(r)>>] = Append(@, Payload(r))]
    BY <1>1 DEF Out
  <2> QED BY <1>1, <1>2, <1>4, <1>5, <1>6, <2>1, Sent DEF ControlTypes
<1>8. ControlTypes' BY <1>1, <1>2, <1>7 DEF ControlTypes, data, buffers
<1>9. ScanInv' BY <1>1, <1>2, LayoutFixed DEF ScanInv
<1>10. DataTypes(r)' /\ RankInv(r)' BY <1>1, <1>2, Frame DEF data, buffers
<1> QED BY <1>1, <1>7, <1>8, <1>9, <1>10, Assembled DEF data, buffers

(* Where a rank goes from a round of a ring.                               *)
LEMMA Advanced ==
  ASSUME ControlTypes, NEW r \in Rank, NEW again \in Stage, NEW after \in Stage,
         NextRound(r, again, after)
  PROVE  /\ pc' \in [Rank -> Stage] /\ round' \in [Rank -> 1 .. (P - 1)]
         /\ \A q \in Rank \ {r} : pc'[q] = pc[q] /\ round'[q] = round[q]
         /\ \/ LastRound(r) /\ pc'[r] = after /\ round'[r] = 1
            \/ ~LastRound(r) /\ pc'[r] = again /\ round'[r] = round[r] + 1
<1>1. pc \in [Rank -> Stage] /\ round \in [Rank -> 1 .. (P - 1)] BY DEF ControlTypes
<1>2. CASE LastRound(r)
  <2>1. pc' = [pc EXCEPT ![r] = after] /\ round' = [round EXCEPT ![r] = 1]
    BY <1>2 DEF NextRound
  <2> QED BY <1>1, <1>2, <2>1, PAssumption
<1>3. CASE ~LastRound(r)
  <2>1. pc' = [pc EXCEPT ![r] = again] /\ round' = [round EXCEPT ![r] = @ + 1]
    BY <1>3 DEF NextRound
  <2>2. round[r] + 1 \in 1 .. (P - 1) BY <1>1, <1>3, PAssumption DEF LastRound
  <2> QED BY <1>1, <1>3, <2>1, <2>2
<1> QED BY <1>2, <1>3

(* What a return from a sendrecv does to the rings and the channels.       *)
LEMMA Returned ==
  ASSUME NumberingInv, NEW r \in Rank, pc[r] \in Ring, layout' = layout, Receive(r)
  PROVE  /\ From(r) \in Rank /\ From(r) # r
         /\ Message(r) \in Buffers(From(r), r, TagOf(r))
         /\ ChannelsInv' /\ DOMAIN net' = Rank \X Rank \X Tag
         /\ posted' \in [Rank -> BOOLEAN]
<1>1. ControlTypes /\ ChannelsInv BY DEF NumberingInv, TypeOK
<1>2. round[r] \in 1 .. (P - 1) BY <1>1 DEF ControlTypes
<1>3. From(r) \in Rank /\ From(r) # r BY <1>2, Partners DEF From
<1>4. TagOf(r) \in Tag BY DEF TagOf, Tag
<1>5. posted' \in [Rank -> BOOLEAN] BY <1>1 DEF ControlTypes, Receive
<1>6. /\ net[<<From(r), r, TagOf(r)>>] # <<>>
      /\ net' = [net EXCEPT ![<<From(r), r, TagOf(r)>>] = Tail(@)]
  BY DEF Receive, In
<1>7. /\ ChannelsInv' /\ DOMAIN net' = Rank \X Rank \X Tag
      /\ Head(net[<<From(r), r, TagOf(r)>>]) \in Buffers(From(r), r, TagOf(r))
  BY <1>1, <1>3, <1>4, <1>6, Received DEF ControlTypes
<1> QED BY <1>3, <1>5, <1>7 DEF Message, In

LEMMA ReturnAdjInv ==
  ASSUME NumberingInv, NEW r \in Rank, ReturnAdj(r)
  PROVE  NumberingInv'
<1>1. /\ pc[r] = "adj" /\ Receive(r) /\ NextRound(r, "adj", "linked")
      /\ UNCHANGED <<layout, coll, numbering, local, fresh, ownership, offset,
                     total, buffers>>
  BY DEF ReturnAdj
<1>2. ControlTypes /\ DataTypes(r) /\ RankInv(r) /\ ScanInv /\ ChannelsInv
  BY DEF NumberingInv, TypeOK
<1>3. /\ From(r) \in Rank /\ ChannelsInv' /\ DOMAIN net' = Rank \X Rank \X Tag
      /\ posted' \in [Rank -> BOOLEAN]
  BY <1>1, Returned DEF Ring
<1>4. /\ shared'[r] \in [Local(layout, r) -> SUBSET Rank] /\ DOMAIN shared' = Rank
      /\ \A q \in Rank \ {r} : shared'[q] = shared[q]
  BY <1>2, <1>3 DEF ReturnAdj, ControlTypes, DataTypes
<1>5. /\ pc'[r] \in {"adj", "linked"} /\ (pc'[r] = "linked" => round'[r] = 1)
      /\ pc' \in [Rank -> Stage] /\ round' \in [Rank -> 1 .. (P - 1)]
      /\ \A q \in Rank \ {r} : pc'[q] = pc[q] /\ round'[q] = round[q]
  BY <1>1, <1>2, Advanced DEF Stage, Ring
<1>6. ControlTypes' BY <1>1, <1>2, <1>3, <1>4, <1>5 DEF ControlTypes, buffers
<1>7. ScanInv' BY <1>1, <1>2, LayoutFixed DEF ScanInv
<1>8. DataTypes(r)' BY <1>1, <1>2, <1>4 DEF DataTypes
<1>9. RankInv(r)'
  <2>1. ControlInv(r)' BY <1>5 DEF ControlInv, Ring
  <2>2. OldNumbersInv(r)'
    BY <1>1, <1>2, <1>5, LayoutFixed DEF RankInv, OldNumbersInv, buffers, Renumbering
  <2>3. OwnershipInv(r)' BY <1>5 DEF OwnershipInv, Finalized, Renumbering
  <2>4. NewNumbersInv(r)'
    BY <1>1, <1>2, <1>5 DEF RankInv, NewNumbersInv, Renumbering
  <2> QED BY <2>1, <2>2, <2>3, <2>4 DEF RankInv
<1> QED BY <1>1, <1>3, <1>4, <1>5, <1>6, <1>7, <1>8, <1>9, Assembled DEF buffers

------------------------------------------------------------------------------
(* finalize() *)

LEMMA StartFinalizeInv ==
  ASSUME NumberingInv, NEW r \in Rank, StartFinalize(r)
  PROVE  NumberingInv'
<1>1. /\ pc[r] = "linked" /\ Contribute("scan", r, NumOwned(r))
      /\ pc' = [pc EXCEPT ![r] = "scan"]
      /\ UNCHANGED <<layout, round, posted, net, data, buffers>>
  BY DEF StartFinalize
<1>2. ControlTypes /\ DataTypes(r) /\ RankInv(r) /\ ScanInv /\ ChannelsInv
  BY DEF NumberingInv, TypeOK
<1>3. NumOwned(r) \in Nat BY <1>2, LocalFinite DEF ControlTypes
<1>4. /\ coll' \in [Collective -> [Rank -> Nat \cup {NotEntered}]]
      /\ \A q \in Rank : coll'["scan"][q] = IF q = r THEN NumOwned(r) ELSE coll["scan"][q]
  BY <1>1, <1>2, <1>3, Contributed DEF ControlTypes, Collective
<1>5. ControlTypes' BY <1>1, <1>2, <1>4 DEF ControlTypes, data, buffers, Stage, Collective
<1>6. ScanInv' BY <1>1, <1>2, <1>4, LayoutFixed DEF ScanInv
<1>7. ChannelsInv' BY <1>1, <1>2, ChannelsFixed
<1>8. DataTypes(r)' BY <1>1, <1>2 DEF DataTypes, data
<1>9. RankInv(r)'
  <2>1. pc'[r] = "scan" BY <1>1, <1>2 DEF ControlTypes
  <2>2. ControlInv(r)' BY <1>1, <1>2, <2>1 DEF RankInv, ControlInv, Ring
  <2>3. OldNumbersInv(r)'
    BY <1>1, <1>2, <2>1, LayoutFixed DEF RankInv, OldNumbersInv, data, Renumbering
  <2>4. OwnershipInv(r)' BY <2>1 DEF OwnershipInv, Finalized, Renumbering
  <2>5. NewNumbersInv(r)'
    BY <1>1, <1>2, <2>1 DEF RankInv, NewNumbersInv, data, Renumbering
  <2> QED BY <2>2, <2>3, <2>4, <2>5 DEF RankInv
<1> QED BY <1>1, <1>2, <1>5, <1>6, <1>7, <1>8, <1>9, Assembled DEF ControlTypes, data, buffers

(* The result of the scan is the number of entities the lower ranks own.   *)
LEMMA ScanResult ==
  ASSUME NumberingInv, NEW r \in Rank, Scanned("scan", r)
  PROVE  SumOf([q \in 0 .. (r - 1) |-> coll["scan"][q]], r) = Below(layout, r)
<1>1. ASSUME NEW q \in 0 .. (r - 1)
      PROVE  coll["scan"][q] = Cardinality(Owned(layout, q))
  <2>1. q \in Rank BY PAssumption DEF Rank
  <2>2. coll["scan"][q] = NumOwned(q)
    BY <2>1 DEF Scanned, NumberingInv, ScanInv
  <2> QED BY <2>1, <2>2, LocalFinite DEF NumberingInv, TypeOK, ControlTypes
<1>2. [q \in 0 .. (r - 1) |-> coll["scan"][q]]
        = [q \in 0 .. (r - 1) |-> Cardinality(Owned(layout, q))]
  BY <1>1
<1> QED BY <1>2 DEF Below

LEMMA EndScanInv ==
  ASSUME NumberingInv, NEW r \in Rank, EndScan(r)
  PROVE  NumberingInv'
<1>1. /\ pc[r] = "scan" /\ Scanned("scan", r) /\ Contribute("sum", r, NumOwned(r))
      /\ offset' = [offset EXCEPT ![r] =
                      SumOf([q \in 0 .. (r - 1) |-> coll["scan"][q]], r)]
      /\ pc' = [pc EXCEPT ![r] = "sum"]
      /\ UNCHANGED <<layout, round, posted, net, numbering, local, fresh, shared,
                     ownership, total, buffers>>
  BY DEF EndScan
<1>2. ControlTypes /\ DataTypes(r) /\ RankInv(r) /\ ScanInv /\ ChannelsInv
  BY DEF NumberingInv, TypeOK
<1>3. NumOwned(r) \in Nat BY <1>2, LocalFinite DEF ControlTypes
<1>4. /\ coll' \in [Collective -> [Rank -> Nat \cup {NotEntered}]]
      /\ \A q \in Rank : coll'["scan"][q] = coll["scan"][q]
  BY <1>1, <1>2, <1>3, Contributed DEF ControlTypes, Collective
<1>5. offset' = [offset EXCEPT ![r] = Below(layout, r)] BY <1>1, ScanResult
<1>6. Below(layout, r) \in Nat BY <1>2, WellFormedIsConsistent, BelowIsNat DEF ControlTypes
<1>7. ControlTypes'
  BY <1>1, <1>2, <1>4, <1>5, <1>6 DEF ControlTypes, buffers, Stage, Collective
<1>8. ScanInv' BY <1>1, <1>2, <1>4, LayoutFixed DEF ScanInv
<1>9. ChannelsInv' BY <1>1, <1>2, ChannelsFixed
<1>10. DataTypes(r)' BY <1>1, <1>2 DEF DataTypes
<1>11. RankInv(r)'
  <2>1. pc'[r] = "sum" /\ offset'[r] = Below(layout, r)
    BY <1>1, <1>2, <1>5 DEF ControlTypes
  <2>2. ControlInv(r)' BY <1>1, <1>2, <2>1 DEF RankInv, ControlInv, Ring
  <2>3. OldNumbersInv(r)'
    BY <1>1, <1>2, <2>1, LayoutFixed DEF RankInv, OldNumbersInv, Renumbering
  <2>4. OwnershipInv(r)' BY <1>1, <2>1 DEF OwnershipInv, Finalized, Renumbering
  <2>5. NewNumbersInv(r)' BY <1>1, <1>2, <2>1 DEF RankInv, NewNumbersInv, Renumbering
  <2> QED BY <2>2, <2>3, <2>4, <2>5 DEF RankInv
<1> QED BY <1>1, <1>2, <1>7, <1>8, <1>9, <1>10, <1>11, Assembled
        DEF ControlTypes, buffers

LEMMA EndFinalizeInv ==
  ASSUME NumberingInv, NEW r \in Rank, EndFinalize(r)
  PROVE  NumberingInv'
<1>1. /\ pc[r] = "sum" /\ Reduced("sum") /\ pc' = [pc EXCEPT ![r] = "final"]
      /\ total' = [total EXCEPT ![r] = SumOf(coll["sum"], P)]
      /\ ownership' = [ownership EXCEPT ![r] = [i \in Local(layout, r) |->
                         IF i \in Ghosts(r) THEN layout.owners[r][i]
                         ELSE IF shared[r][i] # {} THEN r ELSE P]]
      /\ UNCHANGED <<layout, mpi, numbering, local, fresh, shared, offset, buffers>>
  BY DEF EndFinalize
<1>2. ControlTypes /\ DataTypes(r) /\ RankInv(r) /\ ScanInv /\ ChannelsInv
  BY DEF NumberingInv, TypeOK
<1>3. SumOf(coll["sum"], P) \in Nat
  <2>1. P \in Nat /\ \A k \in 0 .. (P - 1) : coll["sum"][k] \in Nat
    BY <1>1, <1>2, PAssumption DEF Reduced, ControlTypes, Collective, Rank
  <2> QED BY <2>1, SumOfType
<1>4. /\ ownership'[r] \in [Local(layout, r) -> 0 .. P]
      /\ \A i \in Local(layout, r) :
           IF i \in Ghosts(r) THEN ownership'[r][i] = layout.owners[r][i]
           ELSE ownership'[r][i] \in {r, P}
  <2>1. \A i \in Local(layout, r) : layout.owners[r][i] \in Rank
    BY <1>2 DEF ControlTypes, WellFormed
  <2>2. Rank \subseteq 0 .. P /\ P \in 0 .. P BY PAssumption DEF Rank
  <2>3. ownership'[r] = [i \in Local(layout, r) |->
                           IF i \in Ghosts(r) THEN layout.owners[r][i]
                           ELSE IF shared[r][i] # {} THEN r ELSE P]
    BY <1>1, <1>2 DEF ControlTypes
  <2> QED BY <2>1, <2>2, <2>3
<1>5. ControlTypes' BY <1>1, <1>2, <1>3 DEF ControlTypes, mpi, buffers, Stage
<1>6. ScanInv' BY <1>1, <1>2, LayoutFixed DEF ScanInv, mpi
<1>7. ChannelsInv' BY <1>1, <1>2, ChannelsFixed DEF mpi
<1>8. DataTypes(r)' BY <1>1, <1>2, <1>4 DEF DataTypes
<1>9. RankInv(r)'
  <2>1. pc'[r] = "final" BY <1>1, <1>2 DEF ControlTypes
  <2>2. ControlInv(r)' BY <1>1, <1>2, <2>1 DEF RankInv, ControlInv, Ring, mpi
  <2>3. OldNumbersInv(r)'
    BY <1>1, <1>2, <2>1, LayoutFixed DEF RankInv, OldNumbersInv, Renumbering
  <2>4. OwnershipInv(r)'
    BY <1>1, <1>2, <1>4, <2>1, LayoutFixed DEF RankInv, OwnershipInv
  <2>5. NewNumbersInv(r)' BY <1>1, <1>2, <2>1 DEF RankInv, NewNumbersInv, Renumbering
  <2> QED BY <2>2, <2>3, <2>4, <2>5 DEF RankInv
<1> QED BY <1>1, <1>2, <1>5, <1>6, <1>7, <1>8, <1>9, Assembled
        DEF ControlTypes, mpi, buffers
------------------------------------------------------------------------------
(* renumber_global() *)

(* The entities a rank takes for owned are those it owns.                  *)
LEMMA OwnedKnown ==
  ASSUME NumberingInv, NEW r \in Rank, pc[r] \in Finalized
  PROVE  /\ {i \in Local(layout, r) : IsOwned(r, i)} = Owned(layout, r)
         /\ \A i \in Ghosts(r) : ownership[r][i] = layout.owners[r][i]
<1>1. /\ \A i \in Local(layout, r) :
           IF i \in Ghosts(r) THEN ownership[r][i] = layout.owners[r][i]
           ELSE ownership[r][i] \in {r, P}
      /\ \A i \in Local(layout, r) : layout.owners[r][i] \in Rank
  BY DEF NumberingInv, TypeOK, ControlTypes, WellFormed, RankInv, OwnershipInv
<1>2. ASSUME NEW i \in Local(layout, r)
      PROVE  IsOwned(r, i) <=> layout.owners[r][i] = r
  BY <1>1, PAssumption DEF IsOwned, Ghosts, Rank
<1>3. {i \in Local(layout, r) : IsOwned(r, i)} = {i \in Local(layout, r) : layout.owners[r][i] = r}
  BY <1>2
<1>4. Owned(layout, r) = {i \in Local(layout, r) : layout.owners[r][i] = r} BY DEF Owned
<1>5. \A i \in Ghosts(r) : ownership[r][i] = layout.owners[r][i] BY <1>1 DEF Ghosts
<1> QED BY <1>3, <1>4, <1>5

(* The number an owner gives is the canonical one, and the queues are the  *)
(* questions.                                                              *)
LEMMA StartRenumberData ==
  ASSUME NumberingInv, NEW r \in Rank, StartRenumber(r)
  PROVE  /\ DOMAIN numbering' = Rank /\ DOMAIN fresh' = Rank /\ DOMAIN sendbuf' = Rank
         /\ \A q \in Rank \ {r} : /\ numbering'[q] = numbering[q] /\ fresh'[q] = fresh[q]
                                  /\ sendbuf'[q] = sendbuf[q]
         /\ numbering'[r] \in [Local(layout, r) -> Nat]
         /\ \A i \in Owned(layout, r) : numbering'[r][i] = Canon(r, i)
         /\ \A g \in DOMAIN fresh'[r] : fresh'[r][g] \in Local(layout, r)
         /\ \A d \in Rank : sendbuf'[r][d] = Question(r, d)
         /\ \E v \in Nat : Contribute("max", r, v)
<1> DEFINE here == Local(layout, r)
           owned == {i \in here : IsOwned(r, i)}
           number(i) == offset[r] + Cardinality({k \in owned : k < i})
           queue(d) == [i \in {k \in here \ owned : ownership[r][k] = d} |-> numbering[r][i]]
<1>1. /\ pc[r] = "final"
      /\ numbering' = [numbering EXCEPT ![r] = [i \in here |->
                         IF i \in owned THEN number(i) ELSE @[i]]]
      /\ fresh' = [fresh EXCEPT ![r] = Inverted([i \in owned |-> number(i)])]
      /\ sendbuf' = [sendbuf EXCEPT ![r] = [d \in Rank |-> queue(d)]]
      /\ Contribute("max", r, MaxOf({Cardinality(DOMAIN queue(d)) : d \in Rank}))
  BY DEF StartRenumber
<1>2. ControlTypes /\ WellFormed(layout) /\ DataTypes(r) /\ RankInv(r)
  BY DEF NumberingInv, TypeOK, ControlTypes
<1>3. /\ owned = Owned(layout, r)
      /\ \A i \in Ghosts(r) : ownership[r][i] = layout.owners[r][i]
  BY <1>1, OwnedKnown DEF Finalized
<1>4. offset[r] = Below(layout, r) BY <1>1, <1>2 DEF RankInv, OwnershipInv, Finalized
<1>5. numbering[r] = layout.ids[r]
  BY <1>1, <1>2 DEF RankInv, OldNumbersInv, Renumbering
<1>6. ASSUME NEW i \in owned PROVE number(i) = Canon(r, i) /\ number(i) \in Nat
  <2>1. i \in here /\ layout.owners[r][i] = r BY <1>3 DEF Owned, Local
  <2>2. Canon(r, i) = Below(layout, r) + Cardinality({x \in Owned(layout, r) : x < i})
    BY <1>2, <2>1, CanonOwned
  <2>3. number(i) = Canon(r, i) BY <1>3, <1>4, <2>2
  <2>4. Canon(r, i) \in Nat BY <1>2, <2>1, CanonType
  <2> QED BY <2>3, <2>4
<1>7. ASSUME NEW d \in Rank PROVE queue(d) = Question(r, d)
  <2>1. here \ owned = Ghosts(r) BY <1>3 DEF Owned, Ghosts, Local
  <2>2. {k \in here \ owned : ownership[r][k] = d} = GhostsFor(r, d)
    BY <1>3, <2>1 DEF GhostsFor
  <2> QED BY <1>5, <2>2 DEF Question
<1>8. MaxOf({Cardinality(DOMAIN queue(d)) : d \in Rank}) \in Nat
  <2> DEFINE c == [d \in 0 .. (P - 1) |-> Cardinality(DOMAIN queue(d))]
  <2>1. ASSUME NEW d \in Rank PROVE Cardinality(DOMAIN queue(d)) \in Nat
    <3>1. DOMAIN queue(d) \in SUBSET here OBVIOUS
    <3> HIDE DEF queue, here
    <3> QED BY <1>2, <3>1, LocalFinite DEF here
  <2>2. c \in [0 .. (P - 1) -> Nat] BY <2>1 DEF Rank
  <2>3. {Cardinality(DOMAIN queue(d)) : d \in Rank} = {c[k] : k \in 0 .. (P - 1)}
    BY DEF Rank
  <2>4. P - 1 \in Nat BY PAssumption
  <2> HIDE DEF c
  <2>5. MaxOf({c[k] : k \in 0 .. (P - 1)}) \in Nat BY <2>2, <2>4, MaxOfFamily
  <2> QED BY <2>3, <2>5
<1>9. /\ numbering'[r] = [i \in here |-> IF i \in owned THEN number(i) ELSE numbering[r][i]]
      /\ fresh'[r] = Inverted([i \in owned |-> number(i)])
      /\ sendbuf'[r] = [d \in Rank |-> queue(d)]
  BY <1>1, <1>2 DEF ControlTypes
<1>10. \A g \in DOMAIN fresh'[r] : fresh'[r][g] \in here
  <2> DEFINE f == [i \in owned |-> number(i)]
  <2>1. DOMAIN f \subseteq here OBVIOUS
  <2>2. fresh'[r] = Inverted(f) BY <1>9
  <2> HIDE DEF f, here
  <2> QED BY <2>1, <2>2, InvertedRange
<1>11. numbering'[r] \in [here -> Nat]
  <2>1. \A i \in here : numbering[r][i] \in Nat BY <1>2 DEF DataTypes
  <2> HIDE DEF number, owned, here
  <2> QED BY <1>6, <1>9, <2>1
<1>12. \A i \in Owned(layout, r) : numbering'[r][i] = Canon(r, i)
  <2>1. \A i \in owned : i \in here OBVIOUS
  <2> HIDE DEF number, owned, here
  <2> QED BY <1>3, <1>6, <1>9, <2>1
<1>13. \A d \in Rank : sendbuf'[r][d] = Question(r, d) BY <1>7, <1>9
<1>14. /\ DOMAIN numbering' = Rank /\ DOMAIN fresh' = Rank /\ DOMAIN sendbuf' = Rank
       /\ \A q \in Rank \ {r} : /\ numbering'[q] = numbering[q] /\ fresh'[q] = fresh[q]
                                /\ sendbuf'[q] = sendbuf[q]
  BY <1>1, <1>2 DEF ControlTypes
<1>15. \E v \in Nat : Contribute("max", r, v) BY <1>1, <1>8
<1> QED BY <1>10, <1>11, <1>12, <1>13, <1>14, <1>15

LEMMA StartRenumberInv ==
  ASSUME NumberingInv, NEW r \in Rank, StartRenumber(r)
  PROVE  NumberingInv'
<1>1. /\ pc[r] = "final" /\ pc' = [pc EXCEPT ![r] = "max"]
      /\ UNCHANGED <<layout, round, posted, net, local, shared, ownership,
                     offset, total, reply, recvmax>>
  BY DEF StartRenumber
<1>2. ControlTypes /\ DataTypes(r) /\ RankInv(r) /\ ScanInv /\ ChannelsInv
  BY DEF NumberingInv, TypeOK
<1>3. /\ DOMAIN numbering' = Rank /\ DOMAIN fresh' = Rank /\ DOMAIN sendbuf' = Rank
      /\ \A q \in Rank \ {r} : /\ numbering'[q] = numbering[q] /\ fresh'[q] = fresh[q]
                               /\ sendbuf'[q] = sendbuf[q]
  BY StartRenumberData
<1>4. /\ numbering'[r] \in [Local(layout, r) -> Nat]
      /\ \A i \in Owned(layout, r) : numbering'[r][i] = Canon(r, i)
      /\ \A g \in DOMAIN fresh'[r] : fresh'[r][g] \in Local(layout, r)
      /\ \A d \in Rank : sendbuf'[r][d] = Question(r, d)
  BY StartRenumberData
<1>5. /\ coll' \in [Collective -> [Rank -> Nat \cup {NotEntered}]]
      /\ \A q \in Rank : coll'["scan"][q] = coll["scan"][q]
  <2>1. PICK v \in Nat : Contribute("max", r, v) BY StartRenumberData
  <2> QED BY <1>2, <2>1, Contributed DEF ControlTypes, Collective
<1>6. ControlTypes' BY <1>1, <1>2, <1>3, <1>5 DEF ControlTypes, Stage, Collective
<1>7. ScanInv' BY <1>1, <1>2, <1>5, LayoutFixed DEF ScanInv
<1>8. ChannelsInv' BY <1>1, <1>2, ChannelsFixed
<1>9. DataTypes(r)' BY <1>1, <1>2, <1>4 DEF DataTypes
<1>10. RankInv(r)'
  <2>1. pc'[r] = "max" /\ round[r] = 1 BY <1>1, <1>2 DEF ControlTypes, RankInv, ControlInv, Ring
  <2>2. ControlInv(r)' BY <1>1, <2>1 DEF ControlInv, Ring
  <2>3. OldNumbersInv(r)'
    BY <1>1, <1>2, <2>1, LayoutFixed DEF RankInv, OldNumbersInv, Renumbering
  <2>4. OwnershipInv(r)'
    BY <1>1, <1>2, <2>1, LayoutFixed DEF RankInv, OwnershipInv, Finalized, Renumbering
  <2>5. NewNumbersInv(r)'
    <3>1. ASSUME NEW i \in Local(layout, r), Settled(r, i)'
          PROVE  numbering'[r][i] = Canon(r, i)
      <4>1. layout.owners[r][i] \in Rank BY <1>2 DEF ControlTypes, WellFormed
      <4>2. layout.owners[r][i] = r
        BY <1>1, <2>1, <3>1, <4>1, RoundOfPartner DEF Settled
      <4> QED BY <1>4, <4>2 DEF Owned, Local
    <3> QED BY <1>1, <1>4, <2>1, <3>1, LayoutFixed DEF NewNumbersInv
  <2> QED BY <2>2, <2>3, <2>4, <2>5 DEF RankInv
<1> QED BY <1>1, <1>2, <1>3, <1>6, <1>7, <1>8, <1>9, <1>10, Assembled DEF ControlTypes

LEMMA EndRenumberMaxInv ==
  ASSUME NumberingInv, NEW r \in Rank, EndRenumberMax(r)
  PROVE  NumberingInv'
<1>1. /\ pc[r] = "max" /\ Reduced("max") /\ pc' = [pc EXCEPT ![r] = "ask"]
      /\ recvmax' = [recvmax EXCEPT ![r] = MaxOf({coll["max"][q] : q \in Rank})]
      /\ UNCHANGED <<layout, mpi, data, sendbuf, reply>>
  BY DEF EndRenumberMax
<1>2. ControlTypes /\ DataTypes(r) /\ RankInv(r) /\ ScanInv /\ ChannelsInv
  BY DEF NumberingInv, TypeOK
<1>3. MaxOf({coll["max"][q] : q \in Rank}) \in Nat
  BY <1>1, <1>2, LargestContribution DEF ControlTypes, Collective
<1>4. ControlTypes' BY <1>1, <1>2, <1>3 DEF ControlTypes, mpi, data, Stage, Ring
<1>5. ScanInv' BY <1>1, <1>2, LayoutFixed DEF ScanInv, mpi
<1>6. ChannelsInv' BY <1>1, <1>2, ChannelsFixed DEF mpi
<1>7. DataTypes(r)' BY <1>1, <1>2 DEF DataTypes, data
<1>8. RankInv(r)'
  <2>1. pc'[r] = "ask" BY <1>1, <1>2 DEF ControlTypes
  <2>2. ControlInv(r)' BY <2>1 DEF ControlInv, Ring
  <2>3. OldNumbersInv(r)'
    BY <1>1, <1>2, <2>1, LayoutFixed DEF RankInv, OldNumbersInv, data, Renumbering
  <2>4. OwnershipInv(r)'
    BY <1>1, <1>2, <2>1, LayoutFixed DEF RankInv, OwnershipInv, data, Finalized, Renumbering
  <2>5. NewNumbersInv(r)'
    <3>1. \A i : Settled(r, i)' => Settled(r, i) BY <1>1, <2>1 DEF Settled, mpi
    <3> QED
      BY <1>1, <1>2, <2>1, <3>1, LayoutFixed DEF RankInv, NewNumbersInv, data, Renumbering
  <2> QED BY <2>2, <2>3, <2>4, <2>5 DEF RankInv
<1> QED BY <1>1, <1>2, <1>4, <1>5, <1>6, <1>7, <1>8, Assembled DEF ControlTypes, mpi, data

(* The asked rank owns every entity of a question, and answers with the    *)
(* canonical numbers.                                                      *)
LEMMA Answered ==
  ASSUME NumberingInv, NEW r \in Rank, pc[r] = "ask", NEW s \in Rank,
         NEW ask, ask = Question(s, r)
  PROVE  /\ \A k \in DOMAIN ask : /\ ask[k] \in DOMAIN local[r]
                                  /\ IsOwned(r, local[r][ask[k]])
         /\ [k \in DOMAIN ask |-> numbering[r][local[r][ask[k]]]] = Answer(s, r)
<1>1. WellFormed(layout) /\ RankInv(r) BY DEF NumberingInv, TypeOK, ControlTypes
<1>2. local[r] = Inverted(layout.ids[r]) BY <1>1 DEF RankInv, OldNumbersInv
<1>3. ASSUME NEW k \in GhostsFor(s, r)
      PROVE  /\ ask[k] \in DOMAIN local[r] /\ IsOwned(r, local[r][ask[k]])
             /\ numbering[r][local[r][ask[k]]] = Canon(s, k)
  <2>1. /\ k \in Local(layout, s) /\ layout.owners[s][k] = r
        /\ ask[k] = layout.ids[s][k]
    BY DEF GhostsFor, Ghosts, Question
  <2>2. PICK i \in Local(layout, r) :
          layout.ids[r][i] = layout.ids[s][k] /\ layout.owners[r][i] = r
    BY <1>1, <2>1, OwnerHolds
  <2>3. ask[k] \in DOMAIN local[r] /\ local[r][ask[k]] = i
    BY <1>1, <1>2, <2>1, <2>2, OldLookup
  <2>4. IsOwned(r, i)
    <3>1. i \in Owned(layout, r) BY <2>2 DEF Owned, Local
    <3> QED BY <3>1, OwnedKnown DEF Finalized, Renumbering
  <2>5. numbering[r][i] = Canon(r, i)
    BY <1>1, <2>2 DEF RankInv, NewNumbersInv, Renumbering, Settled
  <2>6. Canon(r, i) = Canon(s, k) BY <1>1, <2>1, <2>2, CanonAgree
  <2> QED BY <2>3, <2>4, <2>5, <2>6
<1>4. DOMAIN ask = GhostsFor(s, r) BY DEF Question
<1> QED BY <1>3, <1>4 DEF Answer

LEMMA ReturnAskInv ==
  ASSUME NumberingInv, NEW r \in Rank, ReturnAsk(r)
  PROVE  NumberingInv'
<1> DEFINE ask == Message(r)
           s == Src(r, round[r])
<1>1. /\ pc[r] = "ask" /\ Receive(r)
      /\ UNCHANGED <<layout, round, coll, data, sendbuf, recvmax>>
  BY DEF ReturnAsk
<1>2. ControlTypes /\ DataTypes(r) /\ RankInv(r) /\ ScanInv /\ ChannelsInv
  BY DEF NumberingInv, TypeOK
<1>3. /\ s \in Rank /\ ask = Question(s, r) /\ ChannelsInv'
      /\ DOMAIN net' = Rank \X Rank \X Tag /\ posted' \in [Rank -> BOOLEAN]
  <2>1. From(r) = s /\ TagOf(r) = 1 BY <1>1 DEF From, TagOf
  <2>2. /\ s \in Rank /\ ask \in Buffers(s, r, 1) /\ ChannelsInv'
        /\ DOMAIN net' = Rank \X Rank \X Tag /\ posted' \in [Rank -> BOOLEAN]
    BY <1>1, <2>1, Returned DEF Ring
  <2> QED BY <2>2 DEF Buffers
<1>4. /\ \A k \in DOMAIN ask : ask[k] \in DOMAIN local[r] /\ IsOwned(r, local[r][ask[k]])
      /\ [k \in DOMAIN ask |-> numbering[r][local[r][ask[k]]]] = Answer(s, r)
  <2> HIDE DEF ask, s
  <2> QED BY <1>1, <1>3, Answered
<1>5. /\ reply' = [reply EXCEPT ![r] = Answer(s, r)]
      /\ pc' = [pc EXCEPT ![r] = "answer"]
  BY <1>4 DEF ReturnAsk
<1> HIDE DEF ask, s
<1>6. ControlTypes' BY <1>1, <1>2, <1>3, <1>5 DEF ControlTypes, data, Stage, Ring
<1>7. ScanInv' BY <1>1, <1>2, LayoutFixed DEF ScanInv
<1>8. DataTypes(r)' BY <1>1, <1>2 DEF DataTypes, data
<1>9. RankInv(r)'
  <2>1. pc'[r] = "answer" /\ reply'[r] = Answer(s, r) BY <1>2, <1>5 DEF ControlTypes
  <2>2. ControlInv(r)' BY <2>1 DEF ControlInv, Ring
  <2>3. OldNumbersInv(r)'
    BY <1>1, <1>2, <2>1, LayoutFixed DEF RankInv, OldNumbersInv, data, Renumbering
  <2>4. OwnershipInv(r)'
    BY <1>1, <1>2, <2>1, LayoutFixed DEF RankInv, OwnershipInv, data, Finalized, Renumbering
  <2>5. NewNumbersInv(r)'
    <3>1. \A i : Settled(r, i)' => Settled(r, i) BY <1>1, <2>1 DEF Settled
    <3>2. (reply[r] = Answer(Src(r, round[r]), r))'
      BY <1>1, <2>1 DEF s, Answer, GhostsFor, Ghosts, Canon
    <3>3. \A d \in Rank : sendbuf'[r][d] = Question(r, d)'
      BY <1>1, <1>2, LayoutFixed DEF RankInv, NewNumbersInv, Renumbering
    <3>4. \A g \in DOMAIN fresh'[r] : fresh'[r][g] \in Local(layout', r)
      BY <1>1, <1>2 DEF RankInv, NewNumbersInv, data
    <3>5. \A i \in Local(layout', r) : Settled(r, i)' => numbering'[r][i] = Canon(r, i)'
      BY <1>1, <1>2, <3>1, LayoutFixed DEF RankInv, NewNumbersInv, data, Renumbering
    <3> QED BY <3>2, <3>3, <3>4, <3>5 DEF NewNumbersInv
  <2> QED BY <2>2, <2>3, <2>4, <2>5 DEF RankInv
<1> QED BY <1>1, <1>2, <1>3, <1>5, <1>6, <1>7, <1>8, <1>9, Assembled DEF ControlTypes, data

(* The answer of a round, under the entities it was asked for, settles     *)
(* exactly those.                                                          *)
LEMMA Settling ==
  ASSUME NumberingInv, NEW r \in Rank, pc[r] = "answer",
         NEW d \in Rank, d = Dst(r, round[r]), NEW i \in Local(layout, r),
         \/ layout.owners[r][i] = r
         \/ round[r] = P - 1
         \/ RoundFor(r, layout.owners[r][i]) < round[r] + 1
  PROVE  i \in GhostsFor(r, d) \/ Settled(r, i)
<1> DEFINE o == layout.owners[r][i]
<1>1. ControlTypes BY DEF NumberingInv, TypeOK
<1>2. o \in Rank /\ round[r] \in 1 .. (P - 1) BY <1>1 DEF ControlTypes, WellFormed
<1>3. CASE o = r BY <1>3 DEF Settled
<1>4. CASE o # r
  <2>1. /\ RoundFor(r, o) \in 1 .. (P - 1)
        /\ d = o <=> round[r] = RoundFor(r, o)
    BY <1>2, <1>4, RoundOfPartner
  <2>2. RoundFor(r, o) = round[r] \/ RoundFor(r, o) < round[r]
    BY <1>2, <1>4, <2>1, PAssumption
  <2>3. CASE RoundFor(r, o) = round[r]
    <3>1. o = d BY <2>1, <2>3
    <3> QED BY <1>4, <3>1 DEF GhostsFor, Ghosts
  <2>4. CASE RoundFor(r, o) < round[r] BY <2>4 DEF Settled
  <2> QED BY <2>2, <2>3, <2>4
<1> QED BY <1>3, <1>4

(* Global-to-local still knows the numbers that were asked for.            *)
LEMMA AskedLookup ==
  ASSUME NumberingInv, NEW r \in Rank, pc[r] = "answer", NEW d \in Rank,
         NEW k \in GhostsFor(r, d)
  PROVE  local[r][Question(r, d)[k]] = k
<1>1. WellFormed(layout) /\ RankInv(r) BY DEF NumberingInv, TypeOK, ControlTypes
<1>2. local[r] = Inverted(layout.ids[r]) BY <1>1 DEF RankInv, OldNumbersInv
<1>3. k \in Local(layout, r) /\ Question(r, d)[k] = layout.ids[r][k]
  BY DEF GhostsFor, Ghosts, Question
<1> QED BY <1>1, <1>2, <1>3, OldLookup

LEMMA ReturnAnswerData ==
  ASSUME NumberingInv, NEW r \in Rank, ReturnAnswer(r), NEW d, d = Dst(r, round[r])
  PROVE  /\ d \in Rank /\ ChannelsInv' /\ DOMAIN net' = Rank \X Rank \X Tag
         /\ posted' \in [Rank -> BOOLEAN]
         /\ numbering' = [numbering EXCEPT ![r] = Merged(@, Answer(r, d))]
         /\ fresh' = [fresh EXCEPT ![r] = Merged(@, Inverted(Answer(r, d)))]
<1> DEFINE asked == sendbuf[r][From(r)]
           back == Message(r)
           new == [i \in {local[r][asked[k]] : k \in DOMAIN asked} |->
                     back[CHOOSE k \in DOMAIN asked : local[r][asked[k]] = i]]
<1>1. /\ pc[r] = "answer" /\ Receive(r) /\ layout' = layout
      /\ numbering' = [numbering EXCEPT ![r] = Merged(@, new)]
      /\ fresh' = [fresh EXCEPT ![r] = Merged(@, Inverted(new))]
  BY DEF ReturnAnswer
<1>2. From(r) = d /\ TagOf(r) = 2 BY <1>1 DEF From, TagOf
<1>3. /\ d \in Rank /\ back \in Buffers(d, r, 2) /\ ChannelsInv'
      /\ DOMAIN net' = Rank \X Rank \X Tag /\ posted' \in [Rank -> BOOLEAN]
  BY <1>1, <1>2, Returned DEF Ring
<1>4. back = Answer(r, d) BY <1>3 DEF Buffers
<1>5. asked = Question(r, d)
  BY <1>1, <1>2, <1>3 DEF NumberingInv, RankInv, NewNumbersInv, Renumbering
<1>6. new = Answer(r, d)
  <2>1. DOMAIN asked = GhostsFor(r, d) BY <1>5 DEF Question
  <2>2. \A k \in GhostsFor(r, d) : local[r][asked[k]] = k
    BY <1>1, <1>3, <1>5, AskedLookup
  <2> HIDE DEF asked, back
  <2>3. {local[r][asked[k]] : k \in DOMAIN asked} = GhostsFor(r, d) BY <2>1, <2>2
  <2>4. \A i \in GhostsFor(r, d) : new[i] = back[i] BY <2>1, <2>2, <2>3
  <2>5. back = [i \in GhostsFor(r, d) |-> back[i]] BY <1>4 DEF Answer
  <2>6. new = [i \in GhostsFor(r, d) |-> back[i]] BY <2>1, <2>2, <2>3
  <2> QED BY <1>4, <2>5, <2>6
<1> HIDE DEF new
<1> QED BY <1>1, <1>3, <1>6

LEMMA ReturnAnswerInv ==
  ASSUME NumberingInv, NEW r \in Rank, ReturnAnswer(r)
  PROVE  NumberingInv'
<1> DEFINE d == Dst(r, round[r])
           A == Answer(r, d)
<1>1. /\ pc[r] = "answer" /\ NextRound(r, "ask", "done")
      /\ local' = IF LastRound(r) THEN [local EXCEPT ![r] = fresh'[r]] ELSE local
      /\ UNCHANGED <<layout, coll, shared, ownership, offset, total, buffers>>
  BY DEF ReturnAnswer
<1>2. ControlTypes /\ DataTypes(r) /\ RankInv(r) /\ ScanInv /\ ChannelsInv
  BY DEF NumberingInv, TypeOK
<1>3. /\ d \in Rank /\ ChannelsInv' /\ DOMAIN net' = Rank \X Rank \X Tag
      /\ posted' \in [Rank -> BOOLEAN]
      /\ numbering' = [numbering EXCEPT ![r] = Merged(@, A)]
      /\ fresh' = [fresh EXCEPT ![r] = Merged(@, Inverted(A))]
  BY ReturnAnswerData
<1>4. /\ DOMAIN A = GhostsFor(r, d) /\ GhostsFor(r, d) \subseteq Local(layout, r)
      /\ \A i \in GhostsFor(r, d) : A[i] = Canon(r, i)
  BY DEF Answer, GhostsFor, Ghosts
<1> HIDE DEF A
<1>5. /\ numbering'[r] \in [Local(layout, r) -> Nat]
      /\ \A i \in Local(layout, r) :
           numbering'[r][i] = IF i \in GhostsFor(r, d) THEN Canon(r, i) ELSE numbering[r][i]
  <2>1. numbering[r] \in [Local(layout, r) -> Nat] BY <1>2 DEF DataTypes
  <2>2. \A i \in Local(layout, r) : Canon(r, i) \in Nat
    BY <1>2, CanonType DEF ControlTypes
  <2>3. numbering'[r] = Merged(numbering[r], A) BY <1>2, <1>3 DEF ControlTypes
  <2>4. Merged(numbering[r], A) = [i \in Local(layout, r) |->
          IF i \in GhostsFor(r, d) THEN Canon(r, i) ELSE numbering[r][i]]
    <3>1. DOMAIN numbering[r] \cup DOMAIN A = Local(layout, r) BY <1>4, <2>1
    <3> QED BY <1>4, <3>1 DEF Merged
  <2> QED BY <2>1, <2>2, <2>3, <2>4
<1>6. \A g \in DOMAIN fresh'[r] : fresh'[r][g] \in Local(layout, r)
  <2>1. fresh'[r] = Merged(fresh[r], Inverted(A)) BY <1>2, <1>3 DEF ControlTypes
  <2>2. \A g \in DOMAIN fresh[r] : fresh[r][g] \in Local(layout, r)
    BY <1>2 DEF RankInv, NewNumbersInv
  <2>3. \A g \in DOMAIN Inverted(A) : Inverted(A)[g] \in Local(layout, r)
    BY <1>4, InvertedRange
  <2> QED BY <2>1, <2>2, <2>3 DEF Merged
<1>7. /\ pc' \in [Rank -> Stage] /\ round' \in [Rank -> 1 .. (P - 1)]
      /\ \A q \in Rank \ {r} : pc'[q] = pc[q] /\ round'[q] = round[q]
      /\ \/ LastRound(r) /\ pc'[r] = "done" /\ round'[r] = 1
         \/ ~LastRound(r) /\ pc'[r] = "ask" /\ round'[r] = round[r] + 1
  BY <1>1, <1>2, Advanced DEF Stage, Ring
<1>8. /\ DOMAIN local' = Rank /\ \A q \in Rank \ {r} : local'[q] = local[q]
      /\ local'[r] = IF LastRound(r) THEN fresh'[r] ELSE local[r]
  BY <1>1, <1>2 DEF ControlTypes
<1>9. /\ DOMAIN numbering' = Rank /\ DOMAIN fresh' = Rank
      /\ \A q \in Rank \ {r} : numbering'[q] = numbering[q] /\ fresh'[q] = fresh[q]
  BY <1>2, <1>3 DEF ControlTypes
<1>10. ControlTypes' BY <1>1, <1>2, <1>3, <1>7, <1>8, <1>9 DEF ControlTypes, buffers
<1>11. ScanInv' BY <1>1, <1>2, LayoutFixed DEF ScanInv
<1>12. DataTypes(r)' BY <1>1, <1>2, <1>5, <1>6, <1>8 DEF DataTypes
<1>13. RankInv(r)'
  <2>1. ControlInv(r)' BY <1>7 DEF ControlInv, Ring
  <2>2. OldNumbersInv(r)'
    BY <1>1, <1>2, <1>7, <1>8, LayoutFixed DEF RankInv, OldNumbersInv, Renumbering
  <2>3. OwnershipInv(r)'
    BY <1>1, <1>2, <1>7, LayoutFixed DEF RankInv, OwnershipInv, Finalized, Renumbering
  <2>4. NewNumbersInv(r)'
    <3>1. \A e \in Rank : sendbuf'[r][e] = Question(r, e)'
      BY <1>1, <1>2, LayoutFixed DEF RankInv, NewNumbersInv, Renumbering, buffers
    <3>2. ASSUME NEW i \in Local(layout, r), Settled(r, i)'
          PROVE  numbering'[r][i] = Canon(r, i)
      <4>1. i \in GhostsFor(r, d) \/ Settled(r, i)
        BY <1>1, <1>3, <1>7, <3>2, Settling DEF Settled, LastRound
      <4> QED BY <1>1, <1>2, <1>5, <4>1 DEF RankInv, NewNumbersInv, Renumbering
    <3> QED BY <1>1, <1>6, <1>7, <3>1, <3>2, LayoutFixed DEF NewNumbersInv, Renumbering
  <2> QED BY <2>1, <2>2, <2>3, <2>4 DEF RankInv
<1> QED BY <1>1, <1>3, <1>7, <1>8, <1>9, <1>10, <1>11, <1>12, <1>13, Assembled
        DEF buffers

------------------------------------------------------------------------------
(* The specification *)

LEMMA NextInv == NumberingInv /\ [Next]_vars => NumberingInv'
<1> SUFFICES ASSUME NumberingInv, [Next]_vars PROVE NumberingInv' OBVIOUS
<1>1. CASE UNCHANGED vars
  <2>1. /\ layout' = layout /\ net' = net /\ coll' = coll /\ ControlTypes'
        /\ ChannelsInv /\ ScanInv
    BY <1>1 DEF vars, mpi, data, buffers, NumberingInv, TypeOK, ControlTypes
  <2>2. ChannelsInv' /\ ScanInv' BY <2>1, ChannelsFixed, LayoutFixed DEF ScanInv
  <2>3. ASSUME NEW q \in Rank PROVE DataTypes(q)' /\ RankInv(q)'
    BY <1>1, Frame DEF vars, mpi, data, buffers, NumberingInv, TypeOK
  <2> QED BY <2>1, <2>2, <2>3 DEF NumberingInv, TypeOK
<1>2. ASSUME NEW r \in Rank, Step(r) PROVE NumberingInv'
  BY <1>2, StartRemapInv, EndRemapMaxInv, ReturnAdjInv, StartFinalizeInv, EndScanInv,
     EndFinalizeInv, StartRenumberInv, EndRenumberMaxInv, PostInv, ReturnAskInv,
     ReturnAnswerInv
     DEF Step
<1> QED BY <1>1, <1>2 DEF Next, Rest

(* NumberingInv is an invariant of the three calls, for any number of      *)
(* ranks, any well-formed layouts, and either way of sending.              *)
THEOREM NumberingInvariant == Spec => []NumberingInv
<1>1. Init => NumberingInv BY InitInv
<1>2. NumberingInv /\ [Next]_vars => NumberingInv' BY NextInv
<1> QED BY <1>1, <1>2, PTL DEF Spec

(* Every variable of a rank keeps its type through the three calls.        *)
THEOREM TypeCorrect == Spec => []TypeOK
<1>1. NumberingInv => TypeOK BY DEF NumberingInv
<1> QED BY <1>1, NumberingInvariant, PTL

(* renumber_global() meets no question it cannot answer.                   *)
THEOREM NoErrors == Spec => []NoError
<1>1. NumberingInv => NoError BY DEF NumberingInv, RankInv, ControlInv, NoError
<1> QED BY <1>1, NumberingInvariant, PTL

(* A rank that is done holds the canonical numbering.                      *)
LEMMA DoneIsCanonical ==
  ASSUME NumberingInv, NEW r \in Rank, pc[r] = "done", NEW i \in Local(layout, r)
  PROVE  numbering[r][i] = Canon(r, i)
BY DEF NumberingInv, RankInv, NewNumbersInv, Settled

(* Whatever the order of the ranks and of their messages, two ranks that   *)
(* have returned from renumber_global() number the entities they both hold *)
(* alike, and all others differently.                                      *)
THEOREM Agreement == Spec => []HoldersAgree
<1>1. NumberingInv => HoldersAgree
  <2> SUFFICES ASSUME NumberingInv, NEW r \in Rank, NEW q \in Rank,
                      pc[r] = "done", pc[q] = "done",
                      NEW i \in Local(layout, r), NEW k \in Local(layout, q)
               PROVE  layout.ids[r][i] = layout.ids[q][k]
                        <=> numbering[r][i] = numbering[q][k]
    BY DEF HoldersAgree
  <2>1. layout.ids[r][i] = layout.ids[q][k] <=> Canon(r, i) = Canon(q, k)
    BY CanonAgree DEF NumberingInv, TypeOK, ControlTypes
  <2> QED BY <2>1, DoneIsCanonical
<1> QED BY <1>1, NumberingInvariant, PTL

------------------------------------------------------------------------------
(* The refinement of GlobalNumbering *)

(* The definitions of the abstract specification's copy of MeshLayout are  *)
(* those used here.                                                        *)
LEMMA SameLayout ==
  /\ Published!Rank = Rank
  /\ \A L, r : Published!Local(L, r) = Local(L, r)
  /\ \A L, r, i : Published!Canonical(L, r, i) = Canonical(L, r, i)
<1>1. \A S : Published!Cardinality(S) = Cardinality(S)
  BY DEF Published!Cardinality, Cardinality
<1>2. \A f, n : Published!SumOf(f, n) = SumOf(f, n) BY DEF Published!SumOf, SumOf
<1>3. \A L, r : Published!Local(L, r) = Local(L, r) BY DEF Published!Local, Local
<1>4. \A L, r : Published!Owned(L, r) = Owned(L, r)
  BY <1>3 DEF Published!Owned, Owned
<1>5. \A L, r : Published!Below(L, r) = Below(L, r)
  BY <1>1, <1>2, <1>4 DEF Published!Below, Below
<1>6. \A L, r, i : Published!Canonical(L, r, i) = Canonical(L, r, i)
  BY <1>1, <1>3, <1>4, <1>5 DEF Published!Canonical, Canonical
<1>7. Published!Rank = Rank BY DEF Published!Rank, Rank
<1> QED BY <1>3, <1>6, <1>7

(* The refinement mapping. *)
published == [r \in Rank |-> pc[r] = "done"]
numbers == [r \in Rank |-> IF pc[r] = "done" THEN numbering[r] ELSE layout.ids[r]]

LEMMA InitRefines == Init => Published!Init
<1> SUFFICES ASSUME Init PROVE Published!Init OBVIOUS
<1>1. layout \in Layouts /\ WellFormed(layout) BY LayoutsAssumption DEF Init
<1>2. \A r \in Rank : pc[r] = "exported" BY DEF Init
<1>3. published = [r \in Rank |-> FALSE] BY <1>2 DEF published
<1>4. numbers = layout.ids
  <2>1. numbers = [r \in Rank |-> layout.ids[r]] BY <1>2 DEF numbers
  <2>2. layout.ids = [r \in Rank |-> layout.ids[r]] BY <1>1 DEF WellFormed
  <2> QED BY <2>1, <2>2
<1> QED BY <1>1, <1>3, <1>4, SameLayout DEF Published!Init, published, numbers

(* A step leaves the numbers of the other ranks alone, and a rank that is  *)
(* done makes none.                                                        *)
LEMMA StepIsLocal ==
  ASSUME NumberingInv, NEW r \in Rank, Step(r)
  PROVE  /\ layout' = layout /\ pc[r] # "done"
         /\ \A q \in Rank \ {r} : pc'[q] = pc[q] /\ numbering'[q] = numbering[q]
<1> DEFINE Goal == /\ layout' = layout /\ pc[r] # "done"
                   /\ \A q \in Rank \ {r} : pc'[q] = pc[q] /\ numbering'[q] = numbering[q]
<1>1. ControlTypes BY DEF NumberingInv, TypeOK
<1>2. ASSUME StartRemap(r) PROVE Goal BY <1>1, <1>2 DEF StartRemap, ControlTypes, data
<1>3. ASSUME EndRemapMax(r) PROVE Goal BY <1>1, <1>3 DEF EndRemapMax, ControlTypes, data
<1>4. ASSUME ReturnAdj(r) PROVE Goal
  <2>1. /\ pc[r] = "adj" /\ NextRound(r, "adj", "linked")
        /\ layout' = layout /\ numbering' = numbering
    BY <1>4 DEF ReturnAdj
  <2> QED BY <1>1, <2>1, Advanced DEF Stage, Ring
<1>5. ASSUME StartFinalize(r) PROVE Goal BY <1>1, <1>5 DEF StartFinalize, ControlTypes, data
<1>6. ASSUME EndScan(r) PROVE Goal BY <1>1, <1>6 DEF EndScan, ControlTypes
<1>7. ASSUME EndFinalize(r) PROVE Goal BY <1>1, <1>7 DEF EndFinalize, ControlTypes
<1>8. ASSUME StartRenumber(r) PROVE Goal
  <2>1. pc[r] = "final" /\ pc' = [pc EXCEPT ![r] = "max"] /\ layout' = layout
    BY <1>8 DEF StartRenumber
  <2> QED BY <1>1, <1>8, <2>1, StartRenumberData DEF ControlTypes
<1>9. ASSUME EndRenumberMax(r) PROVE Goal
  BY <1>1, <1>9 DEF EndRenumberMax, ControlTypes, data
<1>10. ASSUME Post(r) PROVE Goal BY <1>10 DEF Post, Ring, data
<1>11. ASSUME ReturnAsk(r) PROVE Goal
  <2>1. /\ pc[r] = "ask" /\ layout' = layout /\ numbering' = numbering
        /\ \E s : pc' = [pc EXCEPT ![r] = s]
    BY <1>11 DEF ReturnAsk, data
  <2> QED BY <1>1, <2>1 DEF ControlTypes
<1>12. ASSUME ReturnAnswer(r) PROVE Goal
  <2>1. pc[r] = "answer" /\ NextRound(r, "ask", "done") /\ layout' = layout
    BY <1>12 DEF ReturnAnswer
  <2> QED BY <1>1, <1>12, <2>1, Advanced, ReturnAnswerData DEF Stage, Ring, ControlTypes
<1> HIDE DEF Goal
<1>13. Goal
  BY <1>2, <1>3, <1>4, <1>5, <1>6, <1>7, <1>8, <1>9, <1>10, <1>11, <1>12 DEF Step
<1> QED BY <1>13 DEF Goal

LEMMA NextRefines ==
  NumberingInv /\ NumberingInv' /\ [Next]_vars => [Published!Next]_Published!vars
<1> SUFFICES ASSUME NumberingInv, NumberingInv', [Next]_vars
             PROVE  [Published!Next]_Published!vars
  OBVIOUS
<1>1. CASE UNCHANGED vars
  <2>1. layout' = layout /\ published' = published /\ numbers' = numbers
    BY <1>1 DEF vars, mpi, data, published, numbers
  <2> QED BY <2>1 DEF Published!vars, published, numbers
<1>2. ASSUME NEW r \in Rank, Step(r) PROVE [Published!Next]_Published!vars
  <2>1. /\ layout' = layout /\ pc[r] # "done"
        /\ \A q \in Rank \ {r} : pc'[q] = pc[q] /\ numbering'[q] = numbering[q]
    BY <1>2, StepIsLocal
  <2>2. CASE pc'[r] # "done"
    <3>1. published' = published BY <2>1, <2>2 DEF published
    <3>2. numbers' = numbers BY <2>1, <2>2 DEF numbers
    <3> QED BY <2>1, <3>1, <3>2 DEF Published!vars, published, numbers
  <2>3. CASE pc'[r] = "done"
    <3>1. ~published[r] /\ published' = [published EXCEPT ![r] = TRUE]
      BY <2>1, <2>3 DEF published
    <3>2. numbering'[r] = [i \in Local(layout, r) |-> Canonical(layout, r, i)]
      <4>1. numbering'[r] \in [Local(layout, r) -> Nat]
        BY <2>1 DEF NumberingInv, TypeOK, DataTypes
      <4>2. \A i \in Local(layout, r) : numbering'[r][i] = Canonical(layout, r, i)
        BY <2>1, <2>3 DEF NumberingInv, RankInv, NewNumbersInv, Settled, Canon
      <4> QED BY <4>1, <4>2
    <3>3. numbers' = [numbers EXCEPT ![r] =
                        [i \in Local(layout, r) |-> Canonical(layout, r, i)]]
      BY <2>1, <2>3, <3>2 DEF numbers
    <3>4. Published!Publish(r)
      BY <2>1, <3>1, <3>3, SameLayout DEF Published!Publish, published, numbers
    <3> QED BY <3>4, SameLayout DEF Published!Next
  <2> QED BY <2>2, <2>3
<1> QED BY <1>1, <1>2 DEF Next, Rest

(* The protocol implements GlobalNumbering: each rank goes from the        *)
(* exported numbering to the canonical one, and to nothing else.           *)
THEOREM Implements == Spec => Refinement
<1>1. Init => Published!Init BY InitRefines
<1>2. NumberingInv /\ NumberingInv' /\ [Next]_vars => [Published!Next]_Published!vars
  BY NextRefines
<1> QED BY <1>1, <1>2, NumberingInvariant, PTL DEF Spec, Published!Spec, Refinement

------------------------------------------------------------------------------
(* Linking.  LinkInv is laid on top of NumberingInv, which knows what the  *)
(* ranks ask and answer.                                                   *)

(* What a rank tells all others in the first ring: its ghosts.             *)
GhostIds(r) == [i \in Ghosts(r) |-> layout.ids[r][i]]

(* The rank that has the entity i of r as a ghost.                         *)
HasGhost(q, r, i) == \E k \in Ghosts(q) : layout.ids[q][k] = layout.ids[r][i]

(* The ranks r knows of from the export, and those it has heard from: the  *)
(* message of q reaches r in round RoundFor(q, r).                         *)
Known(r, i) == IF i \in Ghosts(r) THEN {layout.owners[r][i]} ELSE {}
Heard(r, i) == {q \in Rank \ {r} : RoundFor(q, r) < round[r] /\ HasGhost(q, r, i)}

Linking == {"exported", "adjmax", "adj"}

LinkChannels ==
  \A s, d \in Rank : net[<<s, d, 0>>] \in Seq({GhostIds(s)})

(* What a rank contributes to the maxima is the size of its messages.      *)
LinkMaxima ==
  \A q \in Rank :
    /\ coll["adjmax"][q] \in {NotEntered, Cardinality(Ghosts(q))}
    /\ coll["max"][q] # NotEntered =>
         \A d \in Rank : Cardinality(GhostsFor(q, d)) <= coll["max"][q]

SharedInv(r) ==
  \A i \in Local(layout, r) :
    shared[r][i] = IF pc[r] \in Linking THEN Known(r, i) \cup Heard(r, i)
                   ELSE Holders(r, i) \ {r}

RoomInv(r) ==
  /\ pc[r] \in {"adjmax", "adj"} => \A d \in Rank : sendbuf[r][d] = GhostIds(r)
  /\ pc[r] = "adj" => \A q \in Rank : Cardinality(Ghosts(q)) <= recvmax[r]
  /\ pc[r] \in {"ask", "answer"} =>
       \A q, d \in Rank : Cardinality(GhostsFor(q, d)) <= recvmax[r]

LinkInv == LinkChannels /\ LinkMaxima /\ \A r \in Rank : SharedInv(r) /\ RoomInv(r)

------------------------------------------------------------------------------
(* The layout and the ring *)

LEMMA LinkLayoutFixed ==
  ASSUME layout' = layout
  PROVE  /\ \A r : GhostIds(r)' = GhostIds(r)
         /\ \A q, r, i : HasGhost(q, r, i)' <=> HasGhost(q, r, i)
         /\ \A r, i : Known(r, i)' = Known(r, i) /\ Holders(r, i)' = Holders(r, i)
<1>1. \A r : Ghosts(r)' = Ghosts(r) BY LayoutFixed
<1>2. \A r : GhostIds(r)' = GhostIds(r) BY <1>1 DEF GhostIds
<1>3. \A q, r, i : HasGhost(q, r, i)' <=> HasGhost(q, r, i) BY <1>1 DEF HasGhost
<1>4. \A r, i : Known(r, i)' = Known(r, i) BY <1>1 DEF Known
<1>5. \A r, i : Holders(r, i)' = Holders(r, i) BY DEF Holders
<1> QED BY <1>2, <1>3, <1>4, <1>5

(* Each other rank is heard in exactly one round.                          *)
LEMMA RoundOfSource ==
  ASSUME NEW r \in Rank, NEW q \in Rank, r # q
  PROVE  /\ RoundFor(q, r) \in 1 .. (P - 1)
         /\ \A j \in 1 .. (P - 1) : Src(r, j) = q <=> j = RoundFor(q, r)
<1>1. /\ RoundFor(q, r) \in 1 .. (P - 1)
      /\ \A j \in 1 .. (P - 1) : Dst(q, j) = r <=> j = RoundFor(q, r)
  BY RoundOfPartner
<1>2. ASSUME NEW j \in 1 .. (P - 1) PROVE Src(r, j) = q <=> Dst(q, j) = r
  BY Partners
<1> QED BY <1>1, <1>2

(* The owner, and the ranks that have an entity as a ghost, are its holders.*)
LEMMA HoldersAreKnown ==
  ASSUME WellFormed(layout), NEW r \in Rank, NEW i \in Local(layout, r)
  PROVE  Known(r, i) \cup {q \in Rank \ {r} : HasGhost(q, r, i)} = Holders(r, i) \ {r}
<1>1. layout.owners[r][i] \in Rank BY DEF WellFormed
<1>2. ASSUME NEW q \in Known(r, i) PROVE q \in Holders(r, i) \ {r}
  <2>1. q = layout.owners[r][i] /\ q # r BY DEF Known, Ghosts
  <2> QED BY <1>1, <2>1, OwnerHolds DEF Holders
<1>3. ASSUME NEW q \in Rank, HasGhost(q, r, i) PROVE q \in Holders(r, i)
  BY <1>3 DEF HasGhost, Holders, Ghosts
<1>4. ASSUME NEW q \in Holders(r, i) \ {r}, ~HasGhost(q, r, i)
      PROVE  q \in Known(r, i)
  <2>1. PICK k \in Local(layout, q) : layout.ids[q][k] = layout.ids[r][i]
    BY DEF Holders
  <2>2. q \in Rank BY DEF Holders
  <2>3. layout.owners[q][k] = q BY <1>4, <2>1 DEF HasGhost, Ghosts
  <2>4. layout.owners[r][i] = q BY <2>1, <2>2, <2>3 DEF WellFormed
  <2> QED BY <2>4 DEF Known, Ghosts
<1>5. \A q \in Holders(r, i) : q \in Rank BY DEF Holders
<1> QED BY <1>2, <1>3, <1>4, <1>5

(* Before the first round a rank has heard of nobody.                      *)
LEMMA NothingHeard ==
  ASSUME NEW r \in Rank, round[r] = 1, NEW i
  PROVE  Heard(r, i) = {}
<1>1. ASSUME NEW q \in Rank \ {r} PROVE ~(RoundFor(q, r) < round[r])
  BY RoundOfSource
<1> QED BY <1>1 DEF Heard

------------------------------------------------------------------------------
(* What a step leaves alone *)

LEMMA LinkFrame ==
  ASSUME NEW q \in Rank, SharedInv(q), RoomInv(q), layout' = layout,
         pc'[q] = pc[q], round'[q] = round[q], shared'[q] = shared[q],
         sendbuf'[q] = sendbuf[q], recvmax'[q] = recvmax[q]
  PROVE  SharedInv(q)' /\ RoomInv(q)'
<1>1. \A i : Heard(q, i)' = Heard(q, i) BY LinkLayoutFixed DEF Heard
<1>2. SharedInv(q)' BY <1>1, LinkLayoutFixed DEF SharedInv
<1>3. RoomInv(q)' BY LinkLayoutFixed, LayoutFixed DEF RoomInv
<1> QED BY <1>2, <1>3

LEMMA LinkChannelsFixed ==
  ASSUME LinkChannels, layout' = layout, net' = net
  PROVE  LinkChannels'
BY LinkLayoutFixed DEF LinkChannels

LEMMA LinkMaximaFixed ==
  ASSUME LinkMaxima, layout' = layout, coll'["adjmax"] = coll["adjmax"],
         coll'["max"] = coll["max"]
  PROVE  LinkMaxima'
BY LinkLayoutFixed, LayoutFixed DEF LinkMaxima

LEMMA LinkAssembled ==
  ASSUME LinkInv, NEW r \in Rank, layout' = layout, LinkChannels', LinkMaxima',
         SharedInv(r)', RoomInv(r)',
         \A q \in Rank \ {r} :
           /\ pc'[q] = pc[q] /\ round'[q] = round[q] /\ shared'[q] = shared[q]
           /\ sendbuf'[q] = sendbuf[q] /\ recvmax'[q] = recvmax[q]
  PROVE  LinkInv'
<1>1. \A q \in Rank \ {r} : SharedInv(q)' /\ RoomInv(q)'
  BY LinkFrame DEF LinkInv
<1> QED BY <1>1 DEF LinkInv

LEMMA LinkInit == Init => LinkInv
<1> SUFFICES ASSUME Init PROVE LinkInv OBVIOUS
<1>1. WellFormed(layout) BY LayoutsAssumption DEF Init
<1>2. LinkChannels
  <2>1. \A s, d \in Rank : net[<<s, d, 0>>] = <<>> BY DEF Init, Tag
  <2>2. \A S : <<>> \in Seq(S) OBVIOUS
  <2> QED BY <2>1, <2>2 DEF LinkChannels
<1>3. LinkMaxima BY DEF Init, LinkMaxima, Collective
<1>4. ASSUME NEW r \in Rank PROVE SharedInv(r) /\ RoomInv(r)
  <2>1. round[r] = 1 /\ pc[r] = "exported" BY DEF Init
  <2>2. \A i \in Local(layout, r) : shared[r][i] = Known(r, i) BY DEF Init, Known
  <2>3. SharedInv(r) BY <2>1, <2>2, NothingHeard DEF SharedInv, Linking
  <2>4. RoomInv(r) BY <2>1 DEF RoomInv
  <2> QED BY <2>3, <2>4
<1> QED BY <1>2, <1>3, <1>4 DEF LinkInv

------------------------------------------------------------------------------
(* The reductions that size the buffers *)

(* An entry of the table other than the one contributed to stays.          *)
LEMMA ContributedTo ==
  ASSUME ControlTypes, NEW c \in Collective, NEW r \in Rank, NEW v, Contribute(c, r, v)
  PROVE  /\ coll'[c][r] = v
         /\ \A a \in Collective, q \in Rank :
              ~(a = c /\ q = r) => coll'[a][q] = coll[a][q]
<1>1. coll \in [Collective -> [Rank -> Nat \cup {NotEntered}]] BY DEF ControlTypes
<1>2. coll' = [coll EXCEPT ![c][r] = v] BY DEF Contribute
<1> QED BY <1>1, <1>2

(* No contribution exceeds the maximum.                                    *)
LEMMA MaximumBounds ==
  ASSUME ControlTypes, NEW c \in Collective, Reduced(c), NEW q \in Rank
  PROVE  coll[c][q] \in Nat /\ coll[c][q] <= MaxOf({coll[c][k] : k \in Rank})
<1>1. P - 1 \in Nat BY PAssumption
<1>2. coll[c] \in [0 .. (P - 1) -> Nat]
  <2>1. coll[c] \in [Rank -> Nat \cup {NotEntered}] BY DEF ControlTypes
  <2>2. \A k \in Rank : coll[c][k] \in Nat BY <2>1 DEF Reduced
  <2> QED BY <2>1, <2>2 DEF Rank
<1>3. \A k \in 0 .. (P - 1) : coll[c][k] <= MaxOf({coll[c][x] : x \in 0 .. (P - 1)})
  BY <1>1, <1>2, MaxOfFamily
<1> QED BY <1>2, <1>3 DEF Rank

------------------------------------------------------------------------------
(* remap_shared_adj() *)

LEMMA StartRemapLinks ==
  ASSUME NumberingInv, LinkInv, NEW r \in Rank, StartRemap(r)
  PROVE  LinkInv'
<1> DEFINE D == {k \in Local(layout, r) : shared[r][k] # {}}
           buffer == [i \in D |-> numbering[r][i]]
<1>1. /\ pc[r] = "exported" /\ pc' = [pc EXCEPT ![r] = "adjmax"]
      /\ Contribute("adjmax", r, Cardinality(DOMAIN buffer))
      /\ sendbuf' = [sendbuf EXCEPT ![r] = [d \in Rank |-> buffer]]
      /\ layout' = layout /\ net' = net /\ round' = round /\ shared' = shared
      /\ recvmax' = recvmax
  BY DEF StartRemap, data
<1>2. ControlTypes /\ RankInv(r) BY DEF NumberingInv, TypeOK
<1>3. LinkChannels /\ LinkMaxima /\ SharedInv(r) BY DEF LinkInv
<1>4. round[r] = 1 /\ numbering[r] = layout.ids[r]
  BY <1>1, <1>2 DEF RankInv, ControlInv, OldNumbersInv, Ring, Renumbering
<1>5. D = Ghosts(r)
  <2>1. \A i \in Local(layout, r) : shared[r][i] = Known(r, i)
    BY <1>1, <1>3, <1>4, NothingHeard DEF SharedInv, Linking
  <2> QED BY <2>1 DEF Known, Ghosts
<1>6. buffer = GhostIds(r) BY <1>4, <1>5 DEF GhostIds
<1>7. DOMAIN buffer = Ghosts(r) BY <1>5
<1> HIDE DEF D, buffer
<1>8. /\ coll'["adjmax"][r] = Cardinality(Ghosts(r))
      /\ \A q \in Rank \ {r} : coll'["adjmax"][q] = coll["adjmax"][q]
      /\ \A q \in Rank : coll'["max"][q] = coll["max"][q]
  BY <1>1, <1>2, <1>7, ContributedTo DEF Collective
<1>9. LinkMaxima' BY <1>1, <1>3, <1>8, LayoutFixed DEF LinkMaxima
<1>10. LinkChannels' BY <1>1, <1>3, LinkChannelsFixed
<1>11. pc'[r] = "adjmax" /\ \A d \in Rank : sendbuf'[r][d] = GhostIds(r)
  BY <1>1, <1>2, <1>6 DEF ControlTypes
<1>12. SharedInv(r)'
  <2>1. \A i : Heard(r, i)' = Heard(r, i) BY <1>1, LinkLayoutFixed DEF Heard
  <2> QED BY <1>1, <1>3, <1>11, <2>1, LinkLayoutFixed DEF SharedInv, Linking
<1>13. RoomInv(r)' BY <1>1, <1>11, LinkLayoutFixed DEF RoomInv
<1> QED BY <1>1, <1>2, <1>9, <1>10, <1>12, <1>13, LinkAssembled DEF ControlTypes

LEMMA EndRemapMaxLinks ==
  ASSUME NumberingInv, LinkInv, NEW r \in Rank, EndRemapMax(r)
  PROVE  LinkInv'
<1>1. /\ pc[r] = "adjmax" /\ Reduced("adjmax") /\ pc' = [pc EXCEPT ![r] = "adj"]
      /\ recvmax' = [recvmax EXCEPT ![r] = MaxOf({coll["adjmax"][q] : q \in Rank})]
      /\ layout' = layout /\ net' = net /\ round' = round /\ shared' = shared
      /\ sendbuf' = sendbuf /\ coll' = coll
  BY DEF EndRemapMax, mpi, data
<1>2. ControlTypes BY DEF NumberingInv, TypeOK
<1>3. LinkChannels /\ LinkMaxima /\ SharedInv(r) /\ RoomInv(r) BY DEF LinkInv
<1>4. LinkChannels' /\ LinkMaxima'
  BY <1>1, <1>3, LinkChannelsFixed, LinkMaximaFixed
<1>5. pc'[r] = "adj" BY <1>1, <1>2 DEF ControlTypes
<1>6. SharedInv(r)'
  <2>1. \A i : Heard(r, i)' = Heard(r, i) BY <1>1, LinkLayoutFixed DEF Heard
  <2> QED BY <1>1, <1>3, <1>5, <2>1, LinkLayoutFixed DEF SharedInv, Linking
<1>7. ASSUME NEW q \in Rank PROVE Cardinality(Ghosts(q)) <= recvmax'[r]
  <2>1. coll["adjmax"][q] = Cardinality(Ghosts(q))
    BY <1>1, <1>3 DEF LinkMaxima, Reduced
  <2>2. coll["adjmax"][q] <= MaxOf({coll["adjmax"][k] : k \in Rank})
    BY <1>1, <1>2, MaximumBounds DEF Collective
  <2> QED BY <1>1, <1>2, <2>1, <2>2 DEF ControlTypes
<1>8. RoomInv(r)' BY <1>1, <1>3, <1>5, <1>7, LinkLayoutFixed, LayoutFixed DEF RoomInv
<1> QED BY <1>1, <1>2, <1>4, <1>6, <1>8, LinkAssembled DEF ControlTypes

(* A message taken from a channel of the first ring is that of its source. *)
LEMMA LinkReceived ==
  ASSUME NumberingInv, LinkInv, layout' = layout, NEW r \in Rank, pc[r] \in Ring, Receive(r)
  PROVE  /\ LinkChannels'
         /\ pc[r] = "adj" => Message(r) = GhostIds(From(r))
<1>1. ControlTypes /\ LinkChannels BY DEF NumberingInv, TypeOK, LinkInv
<1>2. From(r) \in Rank BY Returned
<1>3. TagOf(r) \in Tag BY DEF TagOf, Tag
<1>4. /\ net[<<From(r), r, TagOf(r)>>] # <<>>
      /\ net' = [net EXCEPT ![<<From(r), r, TagOf(r)>>] = Tail(@)]
  BY DEF Receive, In
<1>5. ASSUME NEW s \in Rank, NEW d \in Rank
      PROVE  net'[<<s, d, 0>>] \in Seq({GhostIds(s)})
  <2>1. net[<<s, d, 0>>] \in Seq({GhostIds(s)}) BY <1>1 DEF LinkChannels
  <2>2. CASE <<s, d, 0>> = <<From(r), r, TagOf(r)>>
    <3>1. net'[<<s, d, 0>>] = Tail(net[<<s, d, 0>>])
      BY <1>1, <1>2, <1>3, <1>4, <2>2 DEF ControlTypes
    <3> QED BY <1>4, <2>1, <2>2, <3>1
  <2>3. CASE <<s, d, 0>> # <<From(r), r, TagOf(r)>>
    <3>1. net'[<<s, d, 0>>] = net[<<s, d, 0>>]
      BY <1>1, <1>4, <2>3 DEF ControlTypes, Tag
    <3> QED BY <2>1, <3>1
  <2> QED BY <2>2, <2>3
<1>6. LinkChannels' BY <1>5, LinkLayoutFixed DEF LinkChannels
<1>7. ASSUME pc[r] = "adj" PROVE Message(r) = GhostIds(From(r))
  <2>1. TagOf(r) = 0 BY <1>7 DEF TagOf
  <2>2. net[<<From(r), r, 0>>] \in Seq({GhostIds(From(r))})
    BY <1>1, <1>2 DEF LinkChannels
  <2>3. Message(r) = Head(net[<<From(r), r, 0>>]) BY <2>1 DEF Message, In
  <2>4. Head(net[<<From(r), r, 0>>]) \in {GhostIds(From(r))} BY <1>4, <2>1, <2>2
  <2> QED BY <2>3, <2>4
<1> QED BY <1>6, <1>7

(* The entities of r that are among the ghosts of s.                       *)
LEMMA KnownAmongGhosts ==
  ASSUME WellFormed(layout), NEW r \in Rank, NEW s \in Rank,
         NEW m, m = GhostIds(s), NEW inv, inv = Inverted(layout.ids[r]),
         NEW i \in Local(layout, r)
  PROVE  i \in {inv[g] : g \in {m[k] : k \in DOMAIN m} \cap DOMAIN inv}
           <=> HasGhost(s, r, i)
<1> DEFINE got == {m[k] : k \in DOMAIN m}
<1>1. DOMAIN m = Ghosts(s) /\ \A k \in Ghosts(s) : m[k] = layout.ids[s][k]
  BY DEF GhostIds
<1>2. \A g : g \in got <=> \E k \in Ghosts(s) : g = layout.ids[s][k] BY <1>1
<1>3. layout.ids[r][i] \in DOMAIN inv /\ inv[layout.ids[r][i]] = i BY OldLookup
<1>4. \A g \in DOMAIN inv : layout.ids[r][inv[g]] = g BY InvertedRange
<1> HIDE DEF got
<1>5. i \in {inv[g] : g \in got \cap DOMAIN inv} <=> layout.ids[r][i] \in got
  BY <1>3, <1>4
<1> QED BY <1>2, <1>5 DEF HasGhost, got

LEMMA ReturnAdjLinks ==
  ASSUME NumberingInv, LinkInv, NEW r \in Rank, ReturnAdj(r)
  PROVE  LinkInv'
<1> DEFINE got == {Message(r)[k] : k \in DOMAIN Message(r)}
           known == {local[r][g] : g \in got \cap DOMAIN local[r]}
           s == Src(r, round[r])
<1>1. /\ pc[r] = "adj" /\ Receive(r) /\ NextRound(r, "adj", "linked")
      /\ shared' = [shared EXCEPT ![r] = [i \in DOMAIN @ |->
                      IF i \in known THEN @[i] \cup {From(r)} ELSE @[i]]]
      /\ layout' = layout /\ coll' = coll /\ sendbuf' = sendbuf /\ recvmax' = recvmax
  BY DEF ReturnAdj, buffers
<1>2. ControlTypes /\ DataTypes(r) /\ RankInv(r) /\ WellFormed(layout)
  BY DEF NumberingInv, TypeOK, ControlTypes
<1>3. LinkMaxima /\ SharedInv(r) /\ RoomInv(r) BY DEF LinkInv
<1>4. round[r] \in 1 .. (P - 1) BY <1>2 DEF ControlTypes
<1>5. From(r) = s /\ s \in Rank /\ s # r
  BY <1>1, <1>4, Partners DEF From
<1>6. LinkChannels' /\ Message(r) = GhostIds(s)
  BY <1>1, <1>5, LinkReceived DEF Ring
<1>7. LinkMaxima' BY <1>1, <1>3, LinkMaximaFixed
<1>8. ASSUME NEW i \in Local(layout, r) PROVE i \in known <=> HasGhost(s, r, i)
  <2>1. local[r] = Inverted(layout.ids[r]) BY <1>1, <1>2 DEF RankInv, OldNumbersInv
  <2> QED BY <1>2, <1>5, <1>6, <2>1, KnownAmongGhosts
<1> HIDE DEF known, s
<1>9. ASSUME NEW i \in Local(layout, r)
      PROVE  shared'[r][i] = Known(r, i) \cup {q \in Rank \ {r} :
                               RoundFor(q, r) < round[r] + 1 /\ HasGhost(q, r, i)}
  <2>1. shared[r][i] = Known(r, i) \cup Heard(r, i)
    BY <1>1, <1>3 DEF SharedInv, Linking
  <2>2. shared'[r][i] = IF i \in known THEN shared[r][i] \cup {s} ELSE shared[r][i]
    BY <1>1, <1>2, <1>5 DEF ControlTypes, DataTypes
  <2>3. ASSUME NEW q \in Rank \ {r}
        PROVE  RoundFor(q, r) < round[r] + 1 <=> RoundFor(q, r) < round[r] \/ q = s
    BY <1>4, RoundOfSource DEF s
  <2> QED BY <1>5, <1>8, <2>1, <2>2, <2>3 DEF Heard
<1>10. /\ \A q \in Rank \ {r} : pc'[q] = pc[q] /\ round'[q] = round[q]
       /\ \/ LastRound(r) /\ pc'[r] = "linked"
          \/ pc'[r] = "adj" /\ round'[r] = round[r] + 1
  BY <1>1, <1>2, Advanced DEF Stage, Ring
<1>11. SharedInv(r)'
  <2>1. CASE LastRound(r) /\ pc'[r] = "linked"
    <3>1. ASSUME NEW q \in Rank \ {r} PROVE RoundFor(q, r) < round[r] + 1
      BY <2>1, RoundOfSource, PAssumption DEF LastRound
    <3>2. ASSUME NEW i \in Local(layout, r)
          PROVE  shared'[r][i] = Holders(r, i) \ {r}
      BY <1>2, <1>9, <3>1, HoldersAreKnown
    <3> QED BY <1>1, <2>1, <3>2, LinkLayoutFixed DEF SharedInv, Linking
  <2>2. CASE pc'[r] = "adj" /\ round'[r] = round[r] + 1
    <3>1. \A i : Heard(r, i)' = {q \in Rank \ {r} :
                                   RoundFor(q, r) < round[r] + 1 /\ HasGhost(q, r, i)}
      BY <1>1, <2>2, LinkLayoutFixed DEF Heard
    <3> QED BY <1>1, <1>9, <2>2, <3>1, LinkLayoutFixed DEF SharedInv, Linking
  <2> QED BY <1>10, <2>1, <2>2
<1>12. RoomInv(r)' BY <1>1, <1>3, <1>10, LinkLayoutFixed, LayoutFixed DEF RoomInv
<1> QED BY <1>1, <1>2, <1>6, <1>7, <1>10, <1>11, <1>12, LinkAssembled DEF ControlTypes

------------------------------------------------------------------------------
(* finalize() *)

(* A rank beyond remap_shared_adj() that stays there, and is not about to  *)
(* take part in a ring, keeps what it knows.                               *)
LEMMA LinkedStays ==
  ASSUME NEW r \in Rank, SharedInv(r), layout' = layout, pc[r] \notin Linking,
         shared'[r] = shared[r], pc'[r] \notin Linking
  PROVE  SharedInv(r)'
BY LinkLayoutFixed DEF SharedInv

LEMMA FinalizeLinks ==
  ASSUME NumberingInv, LinkInv, NEW r \in Rank,
         StartFinalize(r) \/ EndScan(r) \/ EndFinalize(r)
  PROVE  LinkInv'
<1>1. ControlTypes BY DEF NumberingInv, TypeOK
<1>2. LinkChannels /\ LinkMaxima /\ SharedInv(r) BY DEF LinkInv
<1>3. /\ layout' = layout /\ round' = round /\ net' = net /\ shared' = shared
      /\ sendbuf' = sendbuf /\ recvmax' = recvmax
      /\ pc[r] \in {"linked", "scan", "sum"}
      /\ \E s \in {"scan", "sum", "final"} : pc' = [pc EXCEPT ![r] = s]
      /\ coll' = coll \/ \E c \in {"scan", "sum"} : \E v : Contribute(c, r, v)
  BY DEF StartFinalize, EndScan, EndFinalize, data, buffers, mpi
<1>4. coll'["adjmax"] = coll["adjmax"] /\ coll'["max"] = coll["max"]
  BY <1>1, <1>3 DEF Contribute, ControlTypes, Collective
<1>5. LinkChannels' /\ LinkMaxima'
  BY <1>2, <1>3, <1>4, LinkChannelsFixed, LinkMaximaFixed
<1>6. /\ pc'[r] \in {"scan", "sum", "final"}
      /\ \A q \in Rank \ {r} : pc'[q] = pc[q]
  BY <1>1, <1>3 DEF ControlTypes
<1>7. SharedInv(r)' BY <1>2, <1>3, <1>6, LinkedStays DEF Linking
<1>8. RoomInv(r)' BY <1>6 DEF RoomInv
<1> QED BY <1>3, <1>5, <1>6, <1>7, <1>8, LinkAssembled

------------------------------------------------------------------------------
(* renumber_global() *)

LEMMA StartRenumberLinks ==
  ASSUME NumberingInv, LinkInv, NEW r \in Rank, StartRenumber(r)
  PROVE  LinkInv'
<1> DEFINE owned == {i \in Local(layout, r) : IsOwned(r, i)}
           queue(d) == [i \in {k \in Local(layout, r) \ owned : ownership[r][k] = d}
                          |-> numbering[r][i]]
           size(d) == Cardinality(DOMAIN queue(d))
<1>1. /\ pc[r] = "final" /\ pc' = [pc EXCEPT ![r] = "max"]
      /\ Contribute("max", r, MaxOf({size(d) : d \in Rank}))
      /\ layout' = layout /\ round' = round /\ net' = net /\ shared' = shared
      /\ recvmax' = recvmax
  BY DEF StartRenumber
<1>2. ControlTypes /\ WellFormed(layout) BY DEF NumberingInv, TypeOK, ControlTypes
<1>3. LinkChannels /\ LinkMaxima /\ SharedInv(r) BY DEF LinkInv
<1>4. /\ owned = Owned(layout, r)
      /\ \A i \in Ghosts(r) : ownership[r][i] = layout.owners[r][i]
  BY <1>1, OwnedKnown DEF Finalized
<1>5. ASSUME NEW d \in Rank PROVE DOMAIN queue(d) = GhostsFor(r, d)
  <2>1. Local(layout, r) \ owned = Ghosts(r)
    BY <1>2, <1>4 DEF Owned, Ghosts, Local
  <2> QED BY <1>4, <2>1 DEF GhostsFor
<1>6. ASSUME NEW d \in Rank PROVE size(d) = Cardinality(GhostsFor(r, d)) BY <1>5
<1> HIDE DEF size
<1>7. ASSUME NEW d \in Rank PROVE size(d) \in Nat /\ size(d) <= MaxOf({size(x) : x \in Rank})
  <2> DEFINE f == [x \in 0 .. (P - 1) |-> size(x)]
  <2>1. \A x \in Rank : size(x) \in Nat
    <3>1. \A x \in Rank : GhostsFor(r, x) \in SUBSET Local(layout, r)
      BY DEF GhostsFor, Ghosts
    <3> QED BY <1>2, <1>6, <3>1, LocalFinite
  <2>2. P - 1 \in Nat /\ f \in [0 .. (P - 1) -> Nat] BY <2>1, PAssumption DEF Rank
  <2>3. {f[x] : x \in 0 .. (P - 1)} = {size(x) : x \in Rank} BY DEF Rank
  <2>4. f[d] = size(d) BY DEF Rank
  <2> HIDE DEF f
  <2>5. \A x \in 0 .. (P - 1) : f[x] <= MaxOf({f[y] : y \in 0 .. (P - 1)})
    BY <2>2, MaxOfFamily
  <2> QED BY <2>1, <2>3, <2>4, <2>5 DEF Rank
<1>8. /\ coll'["max"][r] = MaxOf({size(d) : d \in Rank})
      /\ \A q \in Rank \ {r} : coll'["max"][q] = coll["max"][q]
      /\ \A q \in Rank : coll'["adjmax"][q] = coll["adjmax"][q]
  BY <1>1, <1>2, ContributedTo DEF Collective
<1>9. LinkMaxima'
  <2>1. \A d \in Rank : Cardinality(GhostsFor(r, d)) <= coll'["max"][r]
    BY <1>6, <1>7, <1>8
  <2> QED BY <1>1, <1>3, <1>8, <2>1, LayoutFixed DEF LinkMaxima
<1>10. LinkChannels' BY <1>1, <1>3, LinkChannelsFixed
<1>11. pc'[r] = "max" BY <1>1, <1>2 DEF ControlTypes
<1>12. SharedInv(r)' BY <1>1, <1>3, <1>11, LinkedStays DEF Linking
<1>13. RoomInv(r)' BY <1>11 DEF RoomInv
<1>14. \A q \in Rank \ {r} : sendbuf'[q] = sendbuf[q] BY StartRenumberData
<1> QED BY <1>1, <1>2, <1>9, <1>10, <1>12, <1>13, <1>14, LinkAssembled DEF ControlTypes

LEMMA EndRenumberMaxLinks ==
  ASSUME NumberingInv, LinkInv, NEW r \in Rank, EndRenumberMax(r)
  PROVE  LinkInv'
<1>1. /\ pc[r] = "max" /\ Reduced("max") /\ pc' = [pc EXCEPT ![r] = "ask"]
      /\ recvmax' = [recvmax EXCEPT ![r] = MaxOf({coll["max"][q] : q \in Rank})]
      /\ layout' = layout /\ net' = net /\ round' = round /\ shared' = shared
      /\ sendbuf' = sendbuf /\ coll' = coll
  BY DEF EndRenumberMax, mpi, data
<1>2. ControlTypes /\ WellFormed(layout) BY DEF NumberingInv, TypeOK, ControlTypes
<1>3. LinkChannels /\ LinkMaxima /\ SharedInv(r) BY DEF LinkInv
<1>4. LinkChannels' /\ LinkMaxima'
  BY <1>1, <1>3, LinkChannelsFixed, LinkMaximaFixed
<1>5. pc'[r] = "ask" BY <1>1, <1>2 DEF ControlTypes
<1>6. SharedInv(r)' BY <1>1, <1>3, <1>5, LinkedStays DEF Linking
<1>7. ASSUME NEW q \in Rank, NEW d \in Rank
      PROVE  Cardinality(GhostsFor(q, d)) <= recvmax'[r]
  <2>1. coll["max"][q] \in Nat /\ coll["max"][q] <= recvmax'[r] /\ recvmax'[r] \in Nat
    <3>1. recvmax'[r] = MaxOf({coll["max"][k] : k \in Rank})
      BY <1>1, <1>2 DEF ControlTypes
    <3>2. coll["max"][q] \in Nat /\ coll["max"][q] <= MaxOf({coll["max"][k] : k \in Rank})
      BY <1>1, <1>2, MaximumBounds DEF Collective
    <3>3. MaxOf({coll["max"][k] : k \in Rank}) \in Nat
      BY <1>1, <1>2, LargestContribution DEF ControlTypes, Collective
    <3> QED BY <3>1, <3>2, <3>3
  <2>2. Cardinality(GhostsFor(q, d)) <= coll["max"][q]
    BY <1>1, <1>3 DEF LinkMaxima, Reduced
  <2>3. Cardinality(GhostsFor(q, d)) \in Nat
    <3>1. GhostsFor(q, d) \in SUBSET Local(layout, q) BY DEF GhostsFor, Ghosts
    <3> QED BY <1>2, <3>1, LocalFinite
  <2> QED BY <2>1, <2>2, <2>3
<1>8. RoomInv(r)' BY <1>1, <1>5, <1>7, LayoutFixed DEF RoomInv
<1> QED BY <1>1, <1>2, <1>4, <1>6, <1>8, LinkAssembled DEF ControlTypes

LEMMA ReturnAskLinks ==
  ASSUME NumberingInv, NumberingInv', LinkInv, NEW r \in Rank, ReturnAsk(r)
  PROVE  LinkInv'
<1>1. /\ pc[r] = "ask" /\ Receive(r) /\ \E s \in {"answer", "error"} : pc' = [pc EXCEPT ![r] = s]
      /\ layout' = layout /\ round' = round /\ shared' = shared /\ coll' = coll
      /\ sendbuf' = sendbuf /\ recvmax' = recvmax
  BY DEF ReturnAsk, data
<1>2. ControlTypes BY DEF NumberingInv, TypeOK
<1>3. LinkMaxima /\ SharedInv(r) /\ RoomInv(r) BY DEF LinkInv
<1>4. LinkChannels' BY <1>1, LinkReceived DEF Ring
<1>5. LinkMaxima' BY <1>1, <1>3, LinkMaximaFixed
<1>6. pc'[r] \in {"answer", "error"} /\ \A q \in Rank \ {r} : pc'[q] = pc[q]
  BY <1>1, <1>2 DEF ControlTypes
<1>7. SharedInv(r)' BY <1>1, <1>3, <1>6, LinkedStays DEF Linking
<1>8. RoomInv(r)' BY <1>1, <1>3, <1>6, LayoutFixed DEF RoomInv
<1> QED BY <1>1, <1>4, <1>5, <1>6, <1>7, <1>8, LinkAssembled

LEMMA ReturnAnswerLinks ==
  ASSUME NumberingInv, LinkInv, NEW r \in Rank, ReturnAnswer(r)
  PROVE  LinkInv'
<1>1. /\ pc[r] = "answer" /\ Receive(r) /\ NextRound(r, "ask", "done")
      /\ layout' = layout /\ shared' = shared /\ coll' = coll
      /\ sendbuf' = sendbuf /\ recvmax' = recvmax
  BY DEF ReturnAnswer, buffers
<1>2. ControlTypes BY DEF NumberingInv, TypeOK
<1>3. LinkMaxima /\ SharedInv(r) /\ RoomInv(r) BY DEF LinkInv
<1>4. LinkChannels' BY <1>1, LinkReceived DEF Ring
<1>5. LinkMaxima' BY <1>1, <1>3, LinkMaximaFixed
<1>6. /\ pc'[r] \in {"ask", "done"}
      /\ \A q \in Rank \ {r} : pc'[q] = pc[q] /\ round'[q] = round[q]
  BY <1>1, <1>2, Advanced DEF Stage, Ring
<1>7. SharedInv(r)' BY <1>1, <1>3, <1>6, LinkedStays DEF Linking
<1>8. RoomInv(r)' BY <1>1, <1>3, <1>6, LayoutFixed DEF RoomInv
<1> QED BY <1>1, <1>4, <1>5, <1>6, <1>7, <1>8, LinkAssembled

------------------------------------------------------------------------------
(* The sends of all rings *)

LEMMA PostLinks ==
  ASSUME NumberingInv, LinkInv, NEW r \in Rank, Post(r)
  PROVE  LinkInv'
<1>1. /\ pc[r] \in Ring /\ net' = [net EXCEPT ![Out(r)] = Append(@, Payload(r))]
      /\ layout' = layout /\ pc' = pc /\ round' = round /\ shared' = shared
      /\ coll' = coll /\ sendbuf' = sendbuf /\ recvmax' = recvmax
  BY DEF Post, data, buffers
<1>2. ControlTypes BY DEF NumberingInv, TypeOK
<1>3. LinkChannels /\ LinkMaxima /\ SharedInv(r) /\ RoomInv(r) BY DEF LinkInv
<1>4. round[r] \in 1 .. (P - 1) BY <1>2 DEF ControlTypes
<1>5. To(r) \in Rank /\ TagOf(r) \in Tag BY <1>4, Partners DEF To, TagOf, Tag
<1>6. ASSUME TagOf(r) = 0 PROVE Payload(r) = GhostIds(r)
  <2>1. pc[r] = "adj" BY <1>1, <1>6 DEF TagOf
  <2> QED BY <1>3, <1>5, <2>1 DEF Payload, RoomInv
<1>7. ASSUME NEW s \in Rank, NEW d \in Rank
      PROVE  net'[<<s, d, 0>>] \in Seq({GhostIds(s)})
  <2>1. net[<<s, d, 0>>] \in Seq({GhostIds(s)}) BY <1>3 DEF LinkChannels
  <2>2. CASE <<s, d, 0>> = Out(r)
    <3>1. s = r /\ d = To(r) /\ TagOf(r) = 0 BY <2>2 DEF Out
    <3>2. net'[<<s, d, 0>>] = Append(net[<<s, d, 0>>], GhostIds(s))
      BY <1>1, <1>2, <1>5, <1>6, <2>2, <3>1 DEF ControlTypes, Out, Tag
    <3> QED BY <2>1, <3>2
  <2>3. CASE <<s, d, 0>> # Out(r)
    <3>1. net'[<<s, d, 0>>] = net[<<s, d, 0>>]
      BY <1>1, <1>2, <2>3 DEF ControlTypes, Tag
    <3> QED BY <2>1, <3>1
  <2> QED BY <2>2, <2>3
<1>8. LinkChannels' BY <1>1, <1>7, LinkLayoutFixed DEF LinkChannels
<1>9. LinkMaxima' BY <1>1, <1>3, LinkMaximaFixed
<1>10. SharedInv(r)' /\ RoomInv(r)' BY <1>1, <1>3, LinkFrame
<1> QED BY <1>1, <1>8, <1>9, <1>10, LinkAssembled

------------------------------------------------------------------------------
(* The theorems *)

LEMMA LinkNext == NumberingInv /\ NumberingInv' /\ LinkInv /\ [Next]_vars => LinkInv'
<1> SUFFICES ASSUME NumberingInv, NumberingInv', LinkInv, [Next]_vars PROVE LinkInv'
  OBVIOUS
<1>1. CASE UNCHANGED vars
  <2>1. /\ layout' = layout /\ net' = net /\ coll' = coll /\ pc' = pc /\ round' = round
        /\ shared' = shared /\ sendbuf' = sendbuf /\ recvmax' = recvmax
    BY <1>1 DEF vars, mpi, data, buffers
  <2>2. LinkChannels' /\ LinkMaxima'
    BY <2>1, LinkChannelsFixed, LinkMaximaFixed DEF LinkInv
  <2>3. ASSUME NEW q \in Rank PROVE SharedInv(q)' /\ RoomInv(q)'
    BY <2>1, LinkFrame DEF LinkInv
  <2> QED BY <2>2, <2>3 DEF LinkInv
<1>2. ASSUME NEW r \in Rank, Step(r) PROVE LinkInv'
  BY <1>2, StartRemapLinks, EndRemapMaxLinks, ReturnAdjLinks, FinalizeLinks,
     StartRenumberLinks, EndRenumberMaxLinks, PostLinks, ReturnAskLinks, ReturnAnswerLinks
     DEF Step
<1> QED BY <1>1, <1>2 DEF Next, Rest

(* LinkInv is an invariant of the three calls, for any number of ranks,    *)
(* any well-formed layouts, and either way of sending.                     *)
THEOREM LinkInvariant == Spec => []LinkInv
<1>1. Init => LinkInv BY LinkInit
<1>2. NumberingInv /\ NumberingInv' /\ LinkInv /\ [Next]_vars => LinkInv' BY LinkNext
<1> QED BY <1>1, <1>2, NumberingInvariant, PTL DEF Spec

(* remap_shared_adj() leaves every rank with exactly the other holders of  *)
(* each of its entities, whatever the order of the messages.               *)
THEOREM Adjacency == Spec => []AdjacencyExact
<1>1. LinkInv => AdjacencyExact BY DEF LinkInv, SharedInv, Linking, AdjacencyExact
<1> QED BY <1>1, LinkInvariant, PTL

(* The buffer a rank has made room in takes the whole message that         *)
(* arrives, in each of the three rings.                                    *)
THEOREM Room == Spec => []NoTruncation
<1>1. NumberingInv /\ LinkInv => NoTruncation
  <2> SUFFICES ASSUME NumberingInv, LinkInv, NEW r \in Rank, pc[r] \in Ring,
                      net[In(r)] # <<>>
               PROVE  IF pc[r] = "answer"
                      THEN DOMAIN Message(r) = DOMAIN sendbuf[r][From(r)]
                      ELSE Cardinality(DOMAIN Message(r)) <= recvmax[r]
    BY DEF NoTruncation
  <2>1. round[r] \in 1 .. (P - 1) BY DEF NumberingInv, TypeOK, ControlTypes
  <2>2. From(r) \in Rank BY <2>1, Partners DEF From
  <2>3. TagOf(r) \in Tag /\ In(r) = <<From(r), r, TagOf(r)>> BY DEF TagOf, Tag, In
  <2>4. Message(r) \in Buffers(From(r), r, TagOf(r))
    <3>1. net[In(r)] \in Seq(Buffers(From(r), r, TagOf(r)))
      BY <2>2, <2>3 DEF NumberingInv, ChannelsInv
    <3> QED BY <3>1 DEF Message
  <2>5. CASE pc[r] = "adj"
    <3>1. TagOf(r) = 0 BY <2>5 DEF TagOf
    <3>2. net[In(r)] \in Seq({GhostIds(From(r))})
      BY <2>2, <2>3, <3>1 DEF LinkInv, LinkChannels
    <3>3. Message(r) = GhostIds(From(r)) BY <3>2 DEF Message
    <3>4. DOMAIN Message(r) = Ghosts(From(r)) BY <3>3 DEF GhostIds
    <3> QED BY <2>2, <2>5, <3>4 DEF LinkInv, RoomInv
  <2>6. CASE pc[r] = "ask"
    <3>1. DOMAIN Message(r) = GhostsFor(From(r), r)
      BY <2>4, <2>6 DEF TagOf, Buffers, Question
    <3> QED BY <2>2, <2>6, <3>1 DEF LinkInv, RoomInv
  <2>7. CASE pc[r] = "answer"
    <3>1. DOMAIN Message(r) = GhostsFor(r, From(r))
      BY <2>4, <2>7 DEF TagOf, Buffers, Answer
    <3>2. sendbuf[r][From(r)] = Question(r, From(r))
      BY <2>2, <2>7 DEF NumberingInv, RankInv, NewNumbersInv, Renumbering
    <3> QED BY <2>7, <3>1, <3>2 DEF Question
  <2> QED BY <2>5, <2>6, <2>7 DEF Ring
<1> QED BY <1>1, NumberingInvariant, LinkInvariant, PTL
==============================================================================
