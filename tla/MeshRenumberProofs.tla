-------------------------- MODULE MeshRenumberProofs --------------------------
(***************************************************************************)
(* For any number of ranks, any mesh and any votes: the ranks elect one    *)
(* owner for each entity and know with whom they share it, no rank is      *)
(* asked for what it does not own or for more than it has room for, and    *)
(* renumber() implements GlobalNumbering on the layout of the election.    *)
(*                                                                         *)
(* The two rings use one tag, and a rank may send its questions while its  *)
(* neighbour still waits for the votes of a third one.  RenumberInv        *)
(* therefore says what a channel holds by what its ends have done: nothing *)
(* before the votes are sent, the votes first until they are received, and *)
(* only questions after that.                                              *)
(***************************************************************************)
EXTENDS MeshRenumber, SumsProofs, SequenceTheorems

(* What the client has distributed, and what std::rand() will give.        *)
GivenInv ==
  /\ mesh \in Meshes /\ rand \in Draws[mesh]
  /\ canon = ElectedLayout(mesh, rand)

(* The round in which r sends to d.                                        *)
RoundFor(r, d) == IF d > r THEN d - r ELSE d - r + P

(* What r tells d of the election, what it asks d, and what it answers d.  *)
BallotFor(r, d) ==
  [i \in {k \in Candidates(mesh, r) : d \in CommonAdj(mesh, r, k)} |->
     [vote |-> rand[r][i], key |-> mesh.ids[r][i]]]

GivenTo(r, d) == {i \in Local(mesh, r) : canon.owners[r][i] = d}
Question(r, d) == [i \in GivenTo(r, d) |-> PlaceIn(mesh, d, mesh.ids[r][i])]
Answer(r, d) == [i \in GivenTo(d, r) |-> Canonical(canon, d, i)]

(* The ranks whose votes r has counted, and those of them that have the    *)
(* entity.                                                                 *)
Heard(r) ==
  IF Voted(r) THEN Rank \ {r} ELSE {q \in Rank \ {r} : RoundFor(q, r) < round[r]}
Rivals(r, i) == Heard(r) \cap Holders(r, i)

VotesSent(r, d) ==
  \/ Voted(r)
  \/ RoundFor(r, d) < round[r]
  \/ RoundFor(r, d) = round[r] /\ posted[r]

(* The order in which the votes for an entity elect its owner.             *)
Precedes(m, d, o, q, key) ==
  \/ VoteOf(m, d, o, key) < VoteOf(m, d, q, key)
  \/ VoteOf(m, d, o, key) = VoteOf(m, d, q, key) /\ o <= q
Wins(m, d, o, S, key) == o \in S /\ \A q \in S : Precedes(m, d, o, q, key)

------------------------------------------------------------------------------
ControlTypes ==
  /\ pc \in [Rank -> Stage \ {"error"}]
  /\ round \in [Rank -> 1 .. (P - 1)]
  /\ posted \in [Rank -> BOOLEAN]
  /\ DOMAIN net = Rank \X Rank \X Tag
  /\ DOMAIN coll = Collective /\ \A c \in Collective : DOMAIN coll[c] = Rank
  /\ DOMAIN vote = Rank /\ DOMAIN owner = Rank /\ DOMAIN shared = Rank
  /\ DOMAIN remote = Rank /\ DOMAIN number = Rank /\ DOMAIN offset = Rank
  /\ DOMAIN sendbuf = Rank /\ DOMAIN reply = Rank

FirstChannel(s, d) ==
  LET c == net[<<s, d, 1>>]
  IN  /\ c \in Seq({BallotFor(s, d), Question(s, d)})
      /\ ~VotesSent(s, d) => c = <<>> /\ s \notin Heard(d)
      /\ VotesSent(s, d) /\ s \notin Heard(d) =>
           c # <<>> /\ Head(c) = BallotFor(s, d) /\ Tail(c) \in Seq({Question(s, d)})
      /\ s \in Heard(d) => c \in Seq({Question(s, d)})

ChannelsInv ==
  \A s, d \in Rank : s # d =>
    FirstChannel(s, d) /\ net[<<s, d, 2>>] \in Seq({Answer(s, d)})

ScanInv ==
  \A q \in Rank : coll["scan"][q] \in {NotEntered, Cardinality(Owned(canon, q))}

ControlInv(r) == pc[r] \notin Ring => round[r] = 1 /\ ~posted[r]

(* The owner of an entity is the winner among the ranks heard so far.      *)
ElectionInv(r) ==
  /\ DOMAIN owner[r] = Local(mesh, r) /\ DOMAIN shared[r] = Local(mesh, r)
  /\ DOMAIN remote[r] = Local(mesh, r)
  /\ \A i \in Local(mesh, r) :
       /\ shared[r][i] = Rivals(r, i)
       /\ owner[r][i] = P <=> Rivals(r, i) = {}
       /\ Wins(mesh, rand, CurrentOwner(r, i), Rivals(r, i) \cup {r}, mesh.ids[r][i])
       /\ CurrentOwner(r, i) # r =>
            remote[r][i] = PlaceIn(mesh, CurrentOwner(r, i), mesh.ids[r][i])
  /\ pc[r] \in {"max", "votes"} =>
       /\ DOMAIN vote[r] = Candidates(mesh, r)
       /\ \A i \in Candidates(mesh, r) :
            vote[r][i] = VoteOf(mesh, rand, CurrentOwner(r, i), mesh.ids[r][i])

Settled(r, i) ==
  LET o == canon.owners[r][i] IN o = r \/ pc[r] = "done" \/ RoundFor(r, o) < round[r]

NumbersInv(r) ==
  /\ number[r] = [i \in Local(mesh, r) |-> number[r][i]]
  /\ pc[r] \in {"sum", "ask", "answer", "done"} => offset[r] = Below(canon, r)
  /\ pc[r] \in {"ask", "answer", "done"} =>
       \A i \in Local(mesh, r) : Settled(r, i) => number[r][i] = Canonical(canon, r, i)

BuffersInv(r) ==
  /\ pc[r] \in {"max", "votes"} => \A d \in Rank : sendbuf[r][d] = BallotFor(r, d)
  /\ pc[r] \in {"ask", "answer"} =>
       \A d \in Rank \ {r} : sendbuf[r][d] = Question(r, d)
  /\ pc[r] = "answer" => reply[r] = Answer(r, Src(r, round[r]))

RankInv(r) == ControlInv(r) /\ ElectionInv(r) /\ NumbersInv(r) /\ BuffersInv(r)

RenumberInv ==
  GivenInv /\ ControlTypes /\ ChannelsInv /\ ScanInv /\ \A r \in Rank : RankInv(r)
------------------------------------------------------------------------------
(* The mesh and the votes *)

LEMMA GivenMesh ==
  ASSUME GivenInv
  PROVE  WellFormedMesh(mesh)
BY MeshesAssumption DEF GivenInv

LEMMA DistinctKeys ==
  ASSUME GivenInv, NEW r \in Rank, NEW i \in Local(mesh, r), NEW k \in Local(mesh, r),
         mesh.ids[r][i] = mesh.ids[r][k]
  PROVE  i = k
BY GivenMesh DEF WellFormedMesh

(* Two ranks that hold an entity have all its vertices in common: each is  *)
(* told the vote of the other.                                             *)
LEMMA HolderIsAdjacent ==
  ASSUME GivenInv, NEW r \in Rank, NEW q \in Rank, r # q, NEW i \in Local(mesh, r),
         q \in Holders(r, i)
  PROVE  i \in Candidates(mesh, r) /\ q \in CommonAdj(mesh, r, i)
<1>1. PICK k \in Local(mesh, q) : mesh.ids[r][i] = mesh.ids[q][k]
  BY DEF Holders, Same
<1>2. mesh.ids[q][k] \subseteq DOMAIN mesh.adj[q] BY GivenMesh DEF WellFormedMesh
<1>3. mesh.ids[r][i] \subseteq DOMAIN mesh.adj[r] BY GivenMesh DEF WellFormedMesh
<1>4. ASSUME NEW v \in mesh.ids[r][i] PROVE q \in mesh.adj[r][v]
  <2>1. v \in DOMAIN mesh.adj[r] /\ v \in DOMAIN mesh.adj[q]
    BY <1>1, <1>2, <1>3
  <2>2. mesh.adj[r][v] = {p \in Rank \ {r} : v \in DOMAIN mesh.adj[p]}
    BY <2>1, GivenMesh DEF WellFormedMesh
  <2> QED BY <2>1, <2>2
<1>5. q \in CommonAdj(mesh, r, i) BY <1>4 DEF CommonAdj
<1> QED BY <1>5 DEF Candidates

(* A holder of an entity has it at one place.                              *)
LEMMA PlaceOfHolder ==
  ASSUME GivenInv, NEW r \in Rank, NEW i \in Local(mesh, r), NEW q \in Holders(r, i)
  PROVE  /\ q \in Rank /\ PlaceIn(mesh, q, mesh.ids[r][i]) \in Local(mesh, q)
         /\ mesh.ids[q][PlaceIn(mesh, q, mesh.ids[r][i])] = mesh.ids[r][i]
<1>1. q \in Rank /\ \E k \in Local(mesh, q) : mesh.ids[q][k] = mesh.ids[r][i]
  BY DEF Holders, Same
<1> QED BY <1>1 DEF PlaceIn

LEMMA SelfHolds ==
  ASSUME NEW r \in Rank, NEW i \in Local(mesh, r)
  PROVE  r \in Holders(r, i)
BY DEF Holders, Same

(* The holders of an entity are the same seen from each of them.           *)
LEMMA HoldersShared ==
  ASSUME NEW r, NEW i, NEW q, NEW k, mesh.ids[r][i] = mesh.ids[q][k]
  PROVE  Holders(r, i) = Holders(q, k)
BY DEF Holders, Same

(* In what q tells r there is the entity, if q has it.                     *)
LEMMA BallotFinds ==
  ASSUME GivenInv, NEW r \in Rank, NEW q \in Rank, r # q, NEW i \in Local(mesh, r)
  PROVE  {k \in DOMAIN BallotFor(q, r) : BallotFor(q, r)[k].key = mesh.ids[r][i]}
           = IF q \in Holders(r, i) THEN {PlaceIn(mesh, q, mesh.ids[r][i])} ELSE {}
<1> DEFINE B == BallotFor(q, r)
           key == mesh.ids[r][i]
<1>1. /\ DOMAIN B = {k \in Candidates(mesh, q) : r \in CommonAdj(mesh, q, k)}
      /\ \A k \in DOMAIN B : B[k].key = mesh.ids[q][k]
      /\ DOMAIN B \subseteq Local(mesh, q)
  BY DEF BallotFor, Candidates
<1>2. CASE q \notin Holders(r, i)
  <2>1. ASSUME NEW k \in DOMAIN B PROVE mesh.ids[q][k] # key
    BY <1>1, <1>2 DEF Holders, Same
  <2> QED BY <1>1, <1>2, <2>1
<1>3. CASE q \in Holders(r, i)
  <2> DEFINE p == PlaceIn(mesh, q, key)
  <2>1. p \in Local(mesh, q) /\ mesh.ids[q][p] = key BY <1>3, PlaceOfHolder
  <2> HIDE DEF p
  <2>2. r \in Holders(q, p) BY <2>1 DEF Holders, Same
  <2>3. p \in DOMAIN B BY <1>1, <2>1, <2>2, HolderIsAdjacent
  <2>4. \A k \in DOMAIN B : mesh.ids[q][k] = key => k = p
    BY <1>1, <2>1, DistinctKeys
  <2>5. {k \in DOMAIN B : B[k].key = key} = {p}
    <3> HIDE DEF B, key
    <3> QED BY <1>1, <2>1, <2>3, <2>4
  <2> QED BY <1>3, <2>5 DEF p
<1> QED BY <1>2, <1>3

LEMMA BallotVote ==
  ASSUME GivenInv, NEW r \in Rank, NEW q \in Rank, r # q, NEW i \in Local(mesh, r),
         q \in Holders(r, i)
  PROVE  BallotFor(q, r)[PlaceIn(mesh, q, mesh.ids[r][i])].vote
         = VoteOf(mesh, rand, q, mesh.ids[r][i])
<1> DEFINE p == PlaceIn(mesh, q, mesh.ids[r][i])
<1>1. {k \in DOMAIN BallotFor(q, r) : BallotFor(q, r)[k].key = mesh.ids[r][i]} = {p}
  BY BallotFinds
<1>2. p \in DOMAIN BallotFor(q, r) BY <1>1
<1>3. BallotFor(q, r)[p].vote = rand[q][p] BY <1>2 DEF BallotFor
<1> QED BY <1>3 DEF VoteOf, PlaceIn

LEMMA VoteIsNat ==
  ASSUME GivenInv, NEW r \in Rank, NEW i \in Local(mesh, r), NEW q \in Holders(r, i)
  PROVE  VoteOf(mesh, rand, q, mesh.ids[r][i]) \in Nat
BY PlaceOfHolder, DrawsAssumption DEF GivenInv, VoteOf, PlaceIn

------------------------------------------------------------------------------
(* The election *)

LEMMA WinnerExists ==
  ASSUME GivenInv, NEW r \in Rank, NEW i \in Local(mesh, r)
  PROVE  \E o : Wins(mesh, rand, o, Holders(r, i), mesh.ids[r][i])
<1> DEFINE key == mesh.ids[r][i]
           H == Holders(r, i)
           V == {VoteOf(mesh, rand, q, key) : q \in H}
<1>1. V \in SUBSET Nat /\ V # {} BY VoteIsNat, SelfHolds
<1>2. PICK v \in V : \A w \in V : v <= w
  <2> HIDE DEF V
  <2> QED BY <1>1, LeastExists
<1> DEFINE B == {q \in H : VoteOf(mesh, rand, q, key) = v}
<1>3. B \in SUBSET Nat /\ B # {}
  <2>1. H \subseteq Nat BY PAssumption DEF Holders, Rank
  <2> QED BY <1>2, <2>1
<1>4. PICK o \in B : \A q \in B : o <= q
  <2> HIDE DEF B
  <2> QED BY <1>3, LeastExists
<1>5. ASSUME NEW q \in H PROVE Precedes(mesh, rand, o, q, key)
  <2>1. VoteOf(mesh, rand, o, key) = v /\ VoteOf(mesh, rand, q, key) \in V
        /\ v \in Nat /\ VoteOf(mesh, rand, q, key) \in Nat
    BY <1>1, <1>2, <1>4
  <2>2. v <= VoteOf(mesh, rand, q, key) BY <1>2, <2>1
  <2>3. VoteOf(mesh, rand, q, key) = v => o <= q BY <1>4
  <2> HIDE DEF H, V, B, key
  <2> QED BY <2>1, <2>2, <2>3 DEF Precedes
<1>6. o \in H BY <1>4
<1> QED BY <1>5, <1>6 DEF Wins

LEMMA WinnerUnique ==
  ASSUME GivenInv, NEW r \in Rank, NEW i \in Local(mesh, r),
         NEW S \in SUBSET Holders(r, i), NEW o, NEW p,
         Wins(mesh, rand, o, S, mesh.ids[r][i]), Wins(mesh, rand, p, S, mesh.ids[r][i])
  PROVE  o = p
<1> DEFINE key == mesh.ids[r][i]
<1>1. o \in Holders(r, i) /\ p \in Holders(r, i) BY DEF Wins
<1>2. VoteOf(mesh, rand, o, key) \in Nat
      /\ VoteOf(mesh, rand, p, key) \in Nat BY <1>1, VoteIsNat
<1>3. o \in Nat /\ p \in Nat BY <1>1, PAssumption DEF Holders, Rank
<1>4. Precedes(mesh, rand, o, p, key) /\ Precedes(mesh, rand, p, o, key) BY DEF Wins
<1> HIDE DEF key
<1> QED BY <1>2, <1>3, <1>4 DEF Precedes

(* The owner that canon names is the winner.                               *)
LEMMA CanonWins ==
  ASSUME GivenInv, NEW r \in Rank, NEW i \in Local(mesh, r)
  PROVE  Wins(mesh, rand, canon.owners[r][i], Holders(r, i), mesh.ids[r][i])
<1> DEFINE key == mesh.ids[r][i]
           H == Holders(r, i)
<1>1. canon.owners[r][i] = Elected(mesh, rand, key) BY DEF GivenInv, ElectedLayout
<1>2. {q \in Rank : \E k \in Local(mesh, q) : mesh.ids[q][k] = key} = H
  BY DEF Holders, Same
<1> HIDE DEF key, H
<1>4. Elected(mesh, rand, key)
        = CHOOSE o \in H : \A q \in H :
            \/ VoteOf(mesh, rand, o, key) < VoteOf(mesh, rand, q, key)
            \/ VoteOf(mesh, rand, o, key) = VoteOf(mesh, rand, q, key) /\ o <= q
  BY <1>2 DEF Elected
<1>5. \E o \in H : \A q \in H :
            \/ VoteOf(mesh, rand, o, key) < VoteOf(mesh, rand, q, key)
            \/ VoteOf(mesh, rand, o, key) = VoteOf(mesh, rand, q, key) /\ o <= q
  <2>1. PICK o : Wins(mesh, rand, o, H, key) BY WinnerExists DEF H, key
  <2> QED BY <2>1 DEF Wins, Precedes
<1>6. /\ canon.owners[r][i] \in H
      /\ \A q \in H : Precedes(mesh, rand, canon.owners[r][i], q, key)
  <2> DEFINE Best(o) == \A q \in H :
            \/ VoteOf(mesh, rand, o, key) < VoteOf(mesh, rand, q, key)
            \/ VoteOf(mesh, rand, o, key) = VoteOf(mesh, rand, q, key) /\ o <= q
  <2>1. canon.owners[r][i] = CHOOSE o \in H : Best(o) BY <1>1, <1>4
  <2>2. \E o \in H : Best(o) BY <1>5
  <2>3. \A o : Best(o) => \A q \in H : Precedes(mesh, rand, o, q, key) BY DEF Precedes
  <2> HIDE DEF Best
  <2> QED BY <2>1, <2>2, <2>3
<1> QED BY <1>6 DEF Wins, H, key

(* The layout of the election is well formed but for its ids.              *)
LEMMA CanonConsistent ==
  ASSUME GivenInv
  PROVE  /\ Consistent(canon, Rank)
         /\ canon.ids = mesh.ids
         /\ \A r : Local(canon, r) = Local(mesh, r)
<1>1. canon.size = mesh.size /\ canon.ids = mesh.ids BY DEF GivenInv, ElectedLayout
<1>2. \A r : Local(canon, r) = Local(mesh, r) BY <1>1 DEF Local
<1>3. ASSUME NEW r \in Rank
      PROVE  /\ canon.size[r] \in Nat
             /\ \A i \in Local(canon, r) : canon.owners[r][i] \in Rank
             /\ \A i, k \in Local(canon, r) : canon.ids[r][i] = canon.ids[r][k] => i = k
  <2>1. canon.size[r] \in Nat BY <1>1, GivenMesh DEF WellFormedMesh
  <2>2. ASSUME NEW i \in Local(mesh, r) PROVE canon.owners[r][i] \in Rank
    BY CanonWins DEF Wins, Holders
  <2> QED BY <1>1, <1>2, <2>1, <2>2, DistinctKeys
<1>4. ASSUME NEW r \in Rank, NEW q \in Rank, NEW i \in Local(mesh, r),
             NEW k \in Local(mesh, q), mesh.ids[r][i] = mesh.ids[q][k]
      PROVE  canon.owners[r][i] = canon.owners[q][k]
  BY <1>4 DEF GivenInv, ElectedLayout
<1>5. ASSUME NEW r \in Rank, NEW i \in Local(mesh, r)
      PROVE  \E k \in Local(mesh, canon.owners[r][i]) :
               mesh.ids[canon.owners[r][i]][k] = mesh.ids[r][i]
  <2>1. canon.owners[r][i] \in Holders(r, i) BY CanonWins DEF Wins
  <2> QED BY <2>1, PlaceOfHolder
<1>6. Consistent(canon, Rank)
  <2>1. \E n \in Nat : Rank = 0 .. (n - 1) BY PAssumption DEF Rank
  <2> QED BY <1>1, <1>2, <1>3, <1>4, <1>5, <2>1 DEF Consistent
<1> QED BY <1>1, <1>2, <1>6

------------------------------------------------------------------------------
(* The ring *)

(* The partners of a round are ranks, other than the caller.               *)
LEMMA Partners ==
  ASSUME NEW r \in Rank, NEW j \in 1 .. (P - 1)
  PROVE  /\ Dst(r, j) \in Rank /\ Dst(r, j) # r
         /\ Src(r, j) \in Rank /\ Src(r, j) # r
         /\ Dst(Src(r, j), j) = r /\ Src(Dst(r, j), j) = r
BY PAssumption DEF Rank, Dst, Src

(* A rank sends to each other one in one round, in which that one receives.*)
LEMMA RoundOfPartner ==
  ASSUME NEW r \in Rank, NEW d \in Rank, r # d
  PROVE  /\ RoundFor(r, d) \in 1 .. (P - 1)
         /\ \A j \in 1 .. (P - 1) : Dst(r, j) = d <=> j = RoundFor(r, d)
<1>1. CASE d > r
  <2>1. RoundFor(r, d) = d - r BY <1>1, PAssumption DEF Rank, RoundFor
  <2>2. ASSUME NEW j \in 1 .. (P - 1) PROVE Dst(r, j) = d <=> j = d - r
    BY <1>1, PAssumption DEF Rank, Dst
  <2> QED BY <1>1, <2>1, <2>2, PAssumption DEF Rank
<1>2. CASE d < r
  <2>1. RoundFor(r, d) = d - r + P BY <1>2, PAssumption DEF Rank, RoundFor
  <2>2. ASSUME NEW j \in 1 .. (P - 1) PROVE Dst(r, j) = d <=> j = d - r + P
    BY <1>2, PAssumption DEF Rank, Dst
  <2> QED BY <1>2, <2>1, <2>2, PAssumption DEF Rank
<1> QED BY <1>1, <1>2 DEF Rank

LEMMA RoundOfSource ==
  ASSUME NEW r \in Rank, NEW q \in Rank, r # q
  PROVE  /\ RoundFor(q, r) \in 1 .. (P - 1)
         /\ \A j \in 1 .. (P - 1) : Src(r, j) = q <=> j = RoundFor(q, r)
<1>1. ASSUME NEW j \in 1 .. (P - 1) PROVE Src(r, j) = q <=> Dst(q, j) = r
  BY Partners
<1> QED BY <1>1, RoundOfPartner

------------------------------------------------------------------------------
(* What a step leaves alone *)

Given == <<mesh, rand, canon>>

LEMMA GivenFixed ==
  ASSUME Given' = Given
  PROVE  /\ mesh' = mesh /\ rand' = rand /\ canon' = canon
         /\ GivenInv => GivenInv'
         /\ \A r, d : BallotFor(r, d)' = BallotFor(r, d)
         /\ \A r, d : GivenTo(r, d)' = GivenTo(r, d)
         /\ \A r, d : Question(r, d)' = Question(r, d) /\ Answer(r, d)' = Answer(r, d)
         /\ \A r, i : Holders(r, i)' = Holders(r, i)
<1>1. mesh' = mesh /\ rand' = rand /\ canon' = canon BY DEF Given
<1>2. GivenInv => GivenInv' BY <1>1 DEF GivenInv
<1>3. \A r, d : BallotFor(r, d)' = BallotFor(r, d) BY <1>1 DEF BallotFor
<1>4. \A r, d : GivenTo(r, d)' = GivenTo(r, d) BY <1>1 DEF GivenTo
<1>5. \A r, d : Question(r, d)' = Question(r, d) BY <1>1, <1>4 DEF Question
<1>6. \A r, d : Answer(r, d)' = Answer(r, d) BY <1>1, <1>4 DEF Answer
<1>7. \A r, i : Holders(r, i)' = Holders(r, i) BY <1>1 DEF Holders, Same
<1> QED BY <1>1, <1>2, <1>3, <1>4, <1>5, <1>6, <1>7

(* A rank that stays in its round, on the same side of the election, has   *)
(* heard and told as much as before.                                       *)
LEMMA HeardSame ==
  ASSUME NEW q \in Rank, round'[q] = round[q], Voted(q)' <=> Voted(q)
  PROVE  Heard(q)' = Heard(q)
BY DEF Heard

LEMMA SentSame ==
  ASSUME NEW q \in Rank, round'[q] = round[q], posted'[q] = posted[q],
         Voted(q)' <=> Voted(q)
  PROVE  \A d : VotesSent(q, d)' <=> VotesSent(q, d)
BY DEF VotesSent

LEMMA ElectionFrame ==
  ASSUME NEW q \in Rank, ElectionInv(q), Given' = Given, Heard(q)' = Heard(q),
         pc'[q] \in {"max", "votes"} => pc[q] \in {"max", "votes"} /\ vote'[q] = vote[q],
         owner'[q] = owner[q], shared'[q] = shared[q], remote'[q] = remote[q]
  PROVE  ElectionInv(q)'
<1>1. mesh' = mesh /\ rand' = rand /\ \A i : Holders(q, i)' = Holders(q, i)
  BY GivenFixed
<1>2. \A i : Rivals(q, i)' = Rivals(q, i) BY <1>1 DEF Rivals
<1>3. \A i : CurrentOwner(q, i)' = CurrentOwner(q, i) BY DEF CurrentOwner
<1> QED BY <1>1, <1>2, <1>3 DEF ElectionInv

LEMMA RankFrame ==
  ASSUME NEW q \in Rank, RankInv(q), Given' = Given,
         pc'[q] = pc[q], round'[q] = round[q], posted'[q] = posted[q],
         vote'[q] = vote[q], owner'[q] = owner[q], shared'[q] = shared[q],
         remote'[q] = remote[q], number'[q] = number[q], offset'[q] = offset[q],
         sendbuf'[q] = sendbuf[q], reply'[q] = reply[q]
  PROVE  RankInv(q)'
<1>1. ControlInv(q)' BY DEF RankInv, ControlInv
<1>2. ElectionInv(q)'
  <2>1. Heard(q)' = Heard(q) BY HeardSame DEF Voted
  <2> QED BY <2>1, ElectionFrame DEF RankInv
<1>3. NumbersInv(q)'
  <2>1. mesh' = mesh /\ canon' = canon BY GivenFixed
  <2>2. \A i : Settled(q, i)' <=> Settled(q, i) BY <2>1 DEF Settled
  <2> QED BY <2>1, <2>2 DEF RankInv, NumbersInv
<1>4. BuffersInv(q)' BY GivenFixed DEF RankInv, BuffersInv
<1> QED BY <1>1, <1>2, <1>3, <1>4 DEF RankInv

LEMMA ChannelsFixed ==
  ASSUME ChannelsInv, Given' = Given, net' = net,
         \A q \in Rank : Heard(q)' = Heard(q),
         \A q \in Rank : \A d : VotesSent(q, d)' <=> VotesSent(q, d)
  PROVE  ChannelsInv'
<1>1. ASSUME NEW s \in Rank, NEW d \in Rank, s # d
      PROVE  FirstChannel(s, d)' /\ net'[<<s, d, 2>>] \in Seq({Answer(s, d)'})
  <2>1. FirstChannel(s, d) /\ net[<<s, d, 2>>] \in Seq({Answer(s, d)})
    BY <1>1 DEF ChannelsInv
  <2>2. FirstChannel(s, d)' BY <2>1, GivenFixed DEF FirstChannel
  <2> QED BY <2>1, <2>2, GivenFixed
<1> QED BY <1>1 DEF ChannelsInv

(* The invariant of the whole from that of its parts, when r steps.        *)
LEMMA Assembled ==
  ASSUME RenumberInv, NEW r \in Rank, Given' = Given, ControlTypes', ChannelsInv',
         ScanInv', RankInv(r)',
         \A q \in Rank \ {r} :
           /\ pc'[q] = pc[q] /\ round'[q] = round[q] /\ posted'[q] = posted[q]
           /\ vote'[q] = vote[q] /\ owner'[q] = owner[q] /\ shared'[q] = shared[q]
           /\ remote'[q] = remote[q] /\ number'[q] = number[q]
           /\ offset'[q] = offset[q] /\ sendbuf'[q] = sendbuf[q] /\ reply'[q] = reply[q]
  PROVE  RenumberInv'
<1>1. \A q \in Rank \ {r} : RankInv(q)' BY RankFrame DEF RenumberInv
<1>2. \A q \in Rank : RankInv(q)' BY <1>1
<1> QED BY <1>2, GivenFixed DEF RenumberInv

(* A contribution, and what it leaves of the table.                        *)
LEMMA Contributed ==
  ASSUME DOMAIN coll = Collective, \A c \in Collective : DOMAIN coll[c] = Rank,
         NEW c \in Collective, NEW r \in Rank, NEW v, Contribute(c, r, v)
  PROVE  /\ DOMAIN coll' = Collective /\ \A a \in Collective : DOMAIN coll'[a] = Rank
         /\ coll'[c][r] = v
         /\ \A a \in Collective, q \in Rank :
              ~(a = c /\ q = r) => coll'[a][q] = coll[a][q]
<1>1. coll' = [coll EXCEPT ![c] = [coll[c] EXCEPT ![r] = v]] BY DEF Contribute
<1>2. coll'[c] = [coll[c] EXCEPT ![r] = v] BY <1>1
<1>3. \A a \in Collective : a # c => coll'[a] = coll[a] BY <1>1
<1>4. DOMAIN coll' = Collective BY <1>1
<1> QED BY <1>2, <1>3, <1>4

LEMMA ScanFixed ==
  ASSUME ScanInv, Given' = Given, \A q \in Rank : coll'["scan"][q] = coll["scan"][q]
  PROVE  ScanInv'
BY GivenFixed DEF ScanInv

------------------------------------------------------------------------------
(* The initial state *)

LEMMA NothingHeard ==
  ASSUME NEW r \in Rank, ~Voted(r), round[r] = 1
  PROVE  Heard(r) = {}
<1>1. \A q \in Rank \ {r} : ~(RoundFor(q, r) < round[r]) BY RoundOfSource
<1> QED BY <1>1 DEF Heard

LEMMA NothingSent ==
  ASSUME NEW r \in Rank, ~Voted(r), round[r] = 1, ~posted[r],
         NEW d \in Rank, d # r
  PROVE  ~VotesSent(r, d)
BY RoundOfPartner DEF VotesSent

LEMMA OwnPlace ==
  ASSUME GivenInv, NEW r \in Rank, NEW i \in Local(mesh, r)
  PROVE  PlaceIn(mesh, r, mesh.ids[r][i]) = i
<1>1. \A k \in Local(mesh, r) : mesh.ids[r][k] = mesh.ids[r][i] => k = i
  BY DistinctKeys
<1>2. (CHOOSE k \in Local(mesh, r) : mesh.ids[r][k] = mesh.ids[r][i]) = i BY <1>1
<1> QED BY <1>2 DEF PlaceIn

(* Alone, a rank wins.                                                     *)
LEMMA WinsAlone ==
  ASSUME GivenInv, NEW r \in Rank, NEW i \in Local(mesh, r)
  PROVE  Wins(mesh, rand, r, {r}, mesh.ids[r][i])
<1>1. VoteOf(mesh, rand, r, mesh.ids[r][i]) \in Nat BY SelfHolds, VoteIsNat
<1>2. r <= r BY PAssumption DEF Rank
<1> QED BY <1>1, <1>2 DEF Wins, Precedes

LEMMA InitInv == Init => RenumberInv
<1> SUFFICES ASSUME Init PROVE RenumberInv OBVIOUS
<1>1. GivenInv BY DEF Init, GivenInv
<1>2. ControlTypes
  <2>1. 1 \in 1 .. (P - 1) BY PAssumption
  <2> QED BY <2>1 DEF Init, ControlTypes, Stage, Collective
<1>3. \A r \in Rank : ~Voted(r) /\ round[r] = 1 /\ ~posted[r] /\ pc[r] = "start"
  BY DEF Init, Voted, Voting
<1>4. ChannelsInv
  <2>1. ASSUME NEW s \in Rank, NEW d \in Rank, s # d
        PROVE  FirstChannel(s, d) /\ net[<<s, d, 2>>] \in Seq({Answer(s, d)})
    <3>1. net[<<s, d, 1>>] = <<>> /\ net[<<s, d, 2>>] = <<>> BY DEF Init, Tag
    <3>2. ~VotesSent(s, d) /\ s \notin Heard(d)
      BY <1>3, <2>1, NothingSent, NothingHeard
    <3>3. \A S : <<>> \in Seq(S) OBVIOUS
    <3> QED BY <3>1, <3>2, <3>3 DEF FirstChannel
  <2> QED BY <2>1 DEF ChannelsInv
<1>5. ScanInv BY DEF Init, ScanInv, Collective
<1>6. ASSUME NEW r \in Rank PROVE RankInv(r)
  <2>1. ControlInv(r) BY <1>3 DEF ControlInv
  <2>2. ElectionInv(r)
    <3>1. \A i : Rivals(r, i) = {} BY <1>3, NothingHeard DEF Rivals
    <3>2. /\ owner[r] = [i \in Local(mesh, r) |-> P]
          /\ shared[r] = [i \in Local(mesh, r) |-> {}]
          /\ remote[r] = [i \in Local(mesh, r) |-> Undef]
      BY DEF Init
    <3>3. \A i \in Local(mesh, r) : CurrentOwner(r, i) = r BY <3>2 DEF CurrentOwner
    <3>4. \A i \in Local(mesh, r) : Wins(mesh, rand, r, {r}, mesh.ids[r][i])
      BY <1>1, WinsAlone
    <3> QED BY <1>3, <3>1, <3>2, <3>3, <3>4 DEF ElectionInv
  <2>3. NumbersInv(r) BY <1>3 DEF Init, NumbersInv
  <2>4. BuffersInv(r) BY <1>3 DEF BuffersInv
  <2> QED BY <2>1, <2>2, <2>3, <2>4 DEF RankInv
<1> QED BY <1>1, <1>2, <1>4, <1>5, <1>6 DEF RenumberInv

------------------------------------------------------------------------------
(* The election, step by step *)

LEMMA StartVotesInv ==
  ASSUME RenumberInv, NEW r \in Rank, StartVotes(r)
  PROVE  RenumberInv'
<1> DEFINE ballot(d) == [i \in {k \in Candidates(mesh, r) : d \in CommonAdj(mesh, r, k)} |->
                           [vote |-> rand[r][i], key |-> mesh.ids[r][i]]]
           v == MaxOf({Cardinality(DOMAIN ballot(d)) : d \in Rank})
<1>1. /\ pc[r] = "start" /\ pc' = [pc EXCEPT ![r] = "max"]
      /\ vote' = [vote EXCEPT ![r] = [i \in Candidates(mesh, r) |-> rand[r][i]]]
      /\ sendbuf' = [sendbuf EXCEPT ![r] = [d \in Rank |-> ballot(d)]]
      /\ Contribute("max", r, v)
      /\ Given' = Given
      /\ UNCHANGED <<round, posted, net, owner, shared, remote, number, offset, reply>>
  BY DEF StartVotes, numbered, Given
<1>2. GivenInv /\ ControlTypes /\ ChannelsInv /\ ScanInv /\ RankInv(r)
  BY DEF RenumberInv
<1>3. \A d : ballot(d) = BallotFor(r, d) BY DEF BallotFor
<1> HIDE DEF ballot, v
<1>4. /\ DOMAIN coll' = Collective /\ \A a \in Collective : DOMAIN coll'[a] = Rank
      /\ \A q \in Rank : coll'["scan"][q] = coll["scan"][q]
  BY <1>1, <1>2, Contributed DEF ControlTypes, Collective
<1>5. /\ pc'[r] = "max" /\ vote'[r] = [i \in Candidates(mesh, r) |-> rand[r][i]]
      /\ \A d \in Rank : sendbuf'[r][d] = BallotFor(r, d)
      /\ \A q \in Rank \ {r} : pc'[q] = pc[q]
                               /\ vote'[q] = vote[q] /\ sendbuf'[q] = sendbuf[q]
  BY <1>1, <1>2, <1>3 DEF ControlTypes
<1>6. \A q \in Rank : Voted(q)' <=> Voted(q) BY <1>1, <1>5 DEF Voted, Voting
<1>7. /\ \A q \in Rank : Heard(q)' = Heard(q)
      /\ \A q \in Rank : \A d : VotesSent(q, d)' <=> VotesSent(q, d)
  BY <1>1, <1>6, HeardSame, SentSame
<1>8. ChannelsInv' BY <1>1, <1>2, <1>7, ChannelsFixed
<1>9. ScanInv' BY <1>1, <1>2, <1>4, ScanFixed
<1>10. ControlTypes' BY <1>1, <1>2, <1>4 DEF ControlTypes, Stage, Collective
<1>11. RankInv(r)'
  <2>1. ControlInv(r)' BY <1>1, <1>2, <1>5 DEF RankInv, ControlInv, Ring
  <2>2. ElectionInv(r)'
    <3>1. mesh' = mesh /\ rand' = rand /\ \A i : Holders(r, i)' = Holders(r, i)
      BY <1>1, GivenFixed
    <3>2. \A i : Rivals(r, i)' = Rivals(r, i) BY <1>7, <3>1 DEF Rivals
    <3>3. \A i : CurrentOwner(r, i)' = CurrentOwner(r, i) BY <1>1 DEF CurrentOwner
    <3>4. \A i : Rivals(r, i) = {}
      <4>1. ~Voted(r) /\ round[r] = 1
        BY <1>1, <1>2 DEF Voted, Voting, RankInv, ControlInv, Ring
      <4> QED BY <4>1, NothingHeard DEF Rivals
    <3>5. ASSUME NEW i \in Candidates(mesh, r)
          PROVE  vote'[r][i] = VoteOf(mesh, rand, CurrentOwner(r, i), mesh.ids[r][i])
      <4>1. i \in Local(mesh, r) BY DEF Candidates
      <4>2. CurrentOwner(r, i) = r
        BY <1>2, <3>4, <4>1 DEF RankInv, ElectionInv, CurrentOwner
      <4>3. VoteOf(mesh, rand, r, mesh.ids[r][i]) = rand[r][i]
        BY <1>2, <4>1, OwnPlace DEF VoteOf, PlaceIn
      <4> QED BY <1>5, <4>2, <4>3
    <3>6. DOMAIN vote'[r] = Candidates(mesh, r) BY <1>5
    <3> QED BY <1>1, <1>2, <3>1, <3>2, <3>3, <3>5, <3>6 DEF RankInv, ElectionInv
  <2>3. NumbersInv(r)' BY <1>1, <1>2, <1>5, GivenFixed DEF RankInv, NumbersInv
  <2>4. BuffersInv(r)' BY <1>1, <1>5, GivenFixed DEF BuffersInv
  <2> QED BY <2>1, <2>2, <2>3, <2>4 DEF RankInv
<1> QED BY <1>1, <1>5, <1>8, <1>9, <1>10, <1>11, Assembled

LEMMA EndVotesMaxInv ==
  ASSUME RenumberInv, NEW r \in Rank, EndVotesMax(r)
  PROVE  RenumberInv'
<1>1. /\ pc[r] = "max" /\ pc' = [pc EXCEPT ![r] = "votes"] /\ Given' = Given
      /\ UNCHANGED <<round, posted, net, coll, vote, owner, shared, remote, number,
                     offset, sendbuf, reply>>
  BY DEF EndVotesMax, Given, mpi, elected, numbered, buffers
<1>2. ControlTypes /\ ChannelsInv /\ ScanInv /\ RankInv(r) BY DEF RenumberInv
<1>3. pc'[r] = "votes" /\ \A q \in Rank \ {r} : pc'[q] = pc[q]
  BY <1>1, <1>2 DEF ControlTypes
<1>4. \A q \in Rank : Voted(q)' <=> Voted(q) BY <1>1, <1>3 DEF Voted, Voting
<1>5. /\ \A q \in Rank : Heard(q)' = Heard(q)
      /\ \A q \in Rank : \A d : VotesSent(q, d)' <=> VotesSent(q, d)
  BY <1>1, <1>4, HeardSame, SentSame
<1>6. ChannelsInv' BY <1>1, <1>2, <1>5, ChannelsFixed
<1>7. ScanInv' BY <1>1, <1>2, ScanFixed
<1>8. ControlTypes' BY <1>1, <1>2 DEF ControlTypes, Stage, Ring
<1>9. RankInv(r)'
  <2>1. ControlInv(r)' BY <1>3 DEF ControlInv, Ring
  <2>2. ElectionInv(r)' BY <1>1, <1>2, <1>5, ElectionFrame DEF RankInv
  <2>3. NumbersInv(r)' BY <1>1, <1>2, <1>3, GivenFixed DEF RankInv, NumbersInv
  <2>4. BuffersInv(r)' BY <1>1, <1>2, <1>3, GivenFixed DEF RankInv, BuffersInv
  <2> QED BY <2>1, <2>2, <2>3, <2>4 DEF RankInv
<1> QED BY <1>1, <1>3, <1>6, <1>7, <1>8, <1>9, Assembled

(* One rank more is heard: it wins if it precedes the winner so far.       *)
LEMMA WinsAgainst ==
  ASSUME GivenInv, NEW r \in Rank, NEW i \in Local(mesh, r),
         NEW S \in SUBSET Holders(r, i), NEW o,
         Wins(mesh, rand, o, S, mesh.ids[r][i]), NEW q \in Holders(r, i)
  PROVE  Wins(mesh, rand,
              IF \/ VoteOf(mesh, rand, q, mesh.ids[r][i])
                    < VoteOf(mesh, rand, o, mesh.ids[r][i])
                 \/ /\ VoteOf(mesh, rand, q, mesh.ids[r][i])
                       = VoteOf(mesh, rand, o, mesh.ids[r][i])
                    /\ q < o
              THEN q ELSE o, S \cup {q}, mesh.ids[r][i])
<1> DEFINE V(x) == VoteOf(mesh, rand, x, mesh.ids[r][i])
           Before2(x, y) == V(x) < V(y) \/ (V(x) = V(y) /\ x < y)
           key == mesh.ids[r][i]
<1>1. o \in S /\ \A p \in S : V(o) < V(p) \/ (V(o) = V(p) /\ o <= p)
  BY DEF Wins, Precedes
<1>2. \A p \in Holders(r, i) : V(p) \in Nat /\ p \in Nat
  BY VoteIsNat, PAssumption DEF Holders, Rank
<1>3. /\ V(q) \in Nat /\ q \in Nat /\ V(o) \in Nat /\ o \in Nat
      /\ \A p \in S : V(p) \in Nat /\ p \in Nat
  BY <1>1, <1>2
<1> HIDE DEF V
<1>4. CASE Before2(q, o)
  <2>1. \A p \in S \cup {q} : V(q) < V(p) \/ (V(q) = V(p) /\ q <= p)
    BY <1>1, <1>3, <1>4
  <2> QED BY <1>4, <2>1 DEF Wins, Precedes, V
<1>5. CASE ~Before2(q, o)
  <2>1. \A p \in S \cup {q} : V(o) < V(p) \/ (V(o) = V(p) /\ o <= p)
    BY <1>1, <1>3, <1>5
  <2> QED BY <1>1, <1>5, <2>1 DEF Wins, Precedes, V
<1> QED BY <1>4, <1>5

(* What NextRound leaves: the ring goes on, or it is over.                 *)
LEMMA Advanced ==
  ASSUME pc \in [Rank -> Stage \ {"error"}], round \in [Rank -> 1 .. (P - 1)],
         NEW r \in Rank, NEW again \in Stage \ {"error"}, NEW after \in Stage \ {"error"},
         NextRound(r, again, after)
  PROVE  /\ pc' \in [Rank -> Stage \ {"error"}] /\ round' \in [Rank -> 1 .. (P - 1)]
         /\ \A q \in Rank \ {r} : pc'[q] = pc[q] /\ round'[q] = round[q]
         /\ \/ LastRound(r) /\ pc'[r] = after /\ round'[r] = 1
            \/ ~LastRound(r) /\ pc'[r] = again /\ round'[r] = round[r] + 1
<1>1. 1 \in 1 .. (P - 1) BY PAssumption
<1>2. ~LastRound(r) => round[r] + 1 \in 1 .. (P - 1) BY PAssumption DEF LastRound
<1> QED BY <1>1, <1>2 DEF NextRound

(* The ring of votes moves on by one rank.                                 *)
LEMMA HeardNext ==
  ASSUME ControlTypes, NEW r \in Rank, pc[r] = "votes", posted[r], ~posted'[r],
         NextRound(r, "votes", "voted")
  PROVE  /\ Src(r, round[r]) \in Rank \ {r} /\ Src(r, round[r]) \notin Heard(r)
         /\ Heard(r)' = Heard(r) \cup {Src(r, round[r])}
         /\ \A d \in Rank \ {r} : VotesSent(r, d)' <=> VotesSent(r, d)
<1> DEFINE s == Src(r, round[r])
<1>1. round[r] \in 1 .. (P - 1) /\ ~Voted(r) BY DEF ControlTypes, Voted, Voting
<1>2. s \in Rank \ {r} BY <1>1, Partners
<1>3. \A q \in Rank \ {r} : RoundFor(q, r) \in 1 .. (P - 1)
                            /\ (q = s <=> round[r] = RoundFor(q, r))
  BY <1>1, RoundOfSource
<1>4. \A d \in Rank \ {r} : RoundFor(r, d) \in 1 .. (P - 1) BY RoundOfPartner
<1>5. Heard(r) = {q \in Rank \ {r} : RoundFor(q, r) < round[r]} BY <1>1 DEF Heard
<1>6. \A d : VotesSent(r, d) <=> RoundFor(r, d) < round[r] \/ RoundFor(r, d) = round[r]
  BY <1>1 DEF VotesSent
<1>7. \/ LastRound(r) /\ pc'[r] = "voted" /\ round'[r] = 1
      \/ ~LastRound(r) /\ pc'[r] = "votes" /\ round'[r] = round[r] + 1
  BY Advanced DEF ControlTypes, Stage, Ring
<1> HIDE DEF s
<1>8. CASE LastRound(r) /\ pc'[r] = "voted"
  <2>1. Voted(r)' /\ round[r] = P - 1 BY <1>8 DEF Voted, Voting, LastRound
  <2>2. Heard(r)' = Rank \ {r} BY <2>1 DEF Heard
  <2>3. \A q \in Rank \ {r} : q = s \/ RoundFor(q, r) < round[r]
    BY <1>3, <2>1, PAssumption
  <2>4. \A d \in Rank \ {r} : VotesSent(r, d)' /\ VotesSent(r, d)
    BY <1>4, <1>6, <2>1, PAssumption DEF VotesSent
  <2> QED BY <1>1, <1>2, <1>3, <1>5, <2>2, <2>3, <2>4 DEF s
<1>9. CASE pc'[r] = "votes" /\ round'[r] = round[r] + 1
  <2>1. ~Voted(r)' BY <1>9 DEF Voted, Voting
  <2>2. Heard(r)' = {q \in Rank \ {r} : RoundFor(q, r) < round[r] + 1}
    BY <1>9, <2>1 DEF Heard
  <2>3. \A q \in Rank \ {r} : RoundFor(q, r) < round[r] + 1
                              <=> RoundFor(q, r) < round[r] \/ q = s
    BY <1>1, <1>3
  <2>4. \A d \in Rank \ {r} : VotesSent(r, d)' <=> RoundFor(r, d) < round[r] + 1
    BY <1>4, <1>9, <2>1 DEF VotesSent
  <2> QED BY <1>1, <1>2, <1>3, <1>4, <1>5, <1>6, <2>2, <2>3, <2>4 DEF s
<1> QED BY <1>7, <1>8, <1>9

(* The voter this rank waits for has sent its votes before anything else.  *)
LEMMA VotesArrive ==
  ASSUME RenumberInv, NEW r \in Rank, pc[r] = "votes", net[In(r)] # <<>>,
         NEW s, s = Src(r, round[r])
  PROVE  /\ From(r) = s /\ In(r) = <<s, r, 1>>
         /\ Message(r) = BallotFor(s, r)
         /\ Tail(net[<<s, r, 1>>]) \in Seq({Question(s, r)})
         /\ VotesSent(s, r)
<1>1. From(r) = s /\ In(r) = <<s, r, 1>> BY DEF From, In, TagOf
<1>2. round[r] \in 1 .. (P - 1) /\ ~Voted(r)
  BY DEF RenumberInv, ControlTypes, Voted, Voting
<1>3. s \in Rank \ {r} BY <1>2, Partners
<1>4. s \notin Heard(r) BY <1>2, <1>3, RoundOfSource DEF Heard
<1>5. FirstChannel(s, r) BY <1>3 DEF RenumberInv, ChannelsInv
<1>6. VotesSent(s, r) BY <1>1, <1>5 DEF FirstChannel
<1>7. /\ Head(net[<<s, r, 1>>]) = BallotFor(s, r)
      /\ Tail(net[<<s, r, 1>>]) \in Seq({Question(s, r)})
  BY <1>4, <1>5, <1>6 DEF FirstChannel
<1> QED BY <1>1, <1>6, <1>7 DEF Message

(* What a rank makes of the votes of s: nothing for the entities s does    *)
(* not have, for the others it is shared with s and goes to the better.    *)
Better(s, r, i) ==
  LET v(q) == VoteOf(mesh, rand, q, mesh.ids[r][i])
      o == CurrentOwner(r, i)
  IN  v(s) < v(o) \/ (v(s) = v(o) /\ s < o)

LEMMA Counted ==
  ASSUME RenumberInv, NEW r \in Rank, ReturnVotes(r), NEW s, s = Src(r, round[r]),
         NEW C, C = Candidates(mesh, r), NEW L, L = Local(mesh, r)
  PROVE  /\ vote' = [vote EXCEPT ![r] = [i \in C |->
                       IF s \in Holders(r, i) /\ Better(s, r, i)
                       THEN VoteOf(mesh, rand, s, mesh.ids[r][i]) ELSE vote[r][i]]]
         /\ remote' = [remote EXCEPT ![r] = [i \in L |->
                       IF s \in Holders(r, i) /\ Better(s, r, i)
                       THEN PlaceIn(mesh, s, mesh.ids[r][i]) ELSE remote[r][i]]]
         /\ owner' = [owner EXCEPT ![r] = [i \in L |->
                       IF s \in Holders(r, i) /\ Better(s, r, i) THEN s
                       ELSE IF s \in Holders(r, i) THEN CurrentOwner(r, i)
                       ELSE owner[r][i]]]
         /\ shared' = [shared EXCEPT ![r] = [i \in L |->
                       IF s \in Holders(r, i) THEN shared[r][i] \cup {s}
                       ELSE shared[r][i]]]
<1> DEFINE B == BallotFor(s, r)
           at == Ballot(r, B)
           held == {i \in DOMAIN vote[r] : at[i] # {}}
           theirs(i) == CHOOSE k \in at[i] : TRUE
           lost == {i \in held : Beats(B[theirs(i)].vote, s, r, i)}
           place(i) == PlaceIn(mesh, s, mesh.ids[r][i])
           ballot(i) == VoteOf(mesh, rand, s, mesh.ids[r][i])
<1>1. pc[r] = "votes" /\ net[In(r)] # <<>> BY DEF ReturnVotes, Receive
<1>2. From(r) = s /\ Message(r) = B BY <1>1, VotesArrive
<1>3. /\ vote' = [vote EXCEPT ![r] = [i \in DOMAIN vote[r] |->
                    IF i \in lost THEN B[theirs(i)].vote ELSE vote[r][i]]]
      /\ remote' = [remote EXCEPT ![r] = [i \in DOMAIN remote[r] |->
                    IF i \in lost THEN theirs(i) ELSE remote[r][i]]]
      /\ owner' = [owner EXCEPT ![r] = [i \in DOMAIN owner[r] |->
                    IF i \in lost THEN s
                    ELSE IF i \in held THEN CurrentOwner(r, i) ELSE owner[r][i]]]
      /\ shared' = [shared EXCEPT ![r] = [i \in DOMAIN shared[r] |->
                    IF i \in held THEN shared[r][i] \cup {s} ELSE shared[r][i]]]
  BY <1>2 DEF ReturnVotes
<1>4. /\ GivenInv /\ s \in Rank /\ s # r
      /\ DOMAIN vote[r] = C /\ DOMAIN owner[r] = L
      /\ DOMAIN remote[r] = L /\ DOMAIN shared[r] = L
      /\ \A i \in C : vote[r][i] = VoteOf(mesh, rand, CurrentOwner(r, i), mesh.ids[r][i])
  BY <1>1, Partners DEF RenumberInv, ControlTypes, RankInv, ElectionInv
<1>5. C \subseteq L /\ \A i \in L : s \in Holders(r, i) => i \in C
  BY <1>4, HolderIsAdjacent DEF Candidates
<1>6. \A i \in C : at[i] = IF s \in Holders(r, i) THEN {place(i)} ELSE {}
  <2>1. \A i \in C : at[i] = {k \in DOMAIN B : B[k].key = mesh.ids[r][i]}
    BY <1>4 DEF Ballot
  <2>2. ASSUME NEW i \in L
        PROVE  {k \in DOMAIN B : B[k].key = mesh.ids[r][i]}
                 = IF s \in Holders(r, i) THEN {place(i)} ELSE {}
    BY <1>4, BallotFinds
  <2> HIDE DEF at, B, place
  <2> QED BY <2>1, <2>2, <1>5
<1> HIDE DEF at
<1>7. \A i \in L : i \in held <=> s \in Holders(r, i) BY <1>4, <1>5, <1>6
<1>8. \A i \in held : theirs(i) = place(i) /\ B[theirs(i)].vote = ballot(i)
  <2> SUFFICES ASSUME NEW i \in held
               PROVE  theirs(i) = place(i) /\ B[theirs(i)].vote = ballot(i)
    OBVIOUS
  <2>1. i \in C /\ i \in L /\ s \in Holders(r, i) BY <1>4, <1>5, <1>7
  <2>2. at[i] = {place(i)} BY <2>1, <1>6
  <2>3. theirs(i) = place(i) BY <2>2
  <2>4. B[place(i)].vote = ballot(i) BY <1>4, <2>1, BallotVote
  <2> QED BY <2>3, <2>4
<1> HIDE DEF B, theirs
<1>9. \A i \in L : i \in lost <=> s \in Holders(r, i) /\ Better(s, r, i)
  <2>1. \A i \in held : Beats(ballot(i), s, r, i) <=> Better(s, r, i)
    BY <1>4 DEF Beats, Better
  <2> QED BY <1>7, <1>8, <2>1
<1>10. lost \subseteq held OBVIOUS
<1> HIDE DEF held, lost, place, ballot
<1>11. vote' = [vote EXCEPT ![r] = [i \in C |->
                  IF s \in Holders(r, i) /\ Better(s, r, i) THEN ballot(i)
                  ELSE vote[r][i]]]
  BY <1>3, <1>4, <1>5, <1>8, <1>9, <1>10
<1>12. remote' = [remote EXCEPT ![r] = [i \in L |->
                  IF s \in Holders(r, i) /\ Better(s, r, i) THEN place(i)
                  ELSE remote[r][i]]]
  BY <1>3, <1>4, <1>8, <1>9, <1>10
<1>13. owner' = [owner EXCEPT ![r] = [i \in L |->
                  IF s \in Holders(r, i) /\ Better(s, r, i) THEN s
                  ELSE IF s \in Holders(r, i) THEN CurrentOwner(r, i) ELSE owner[r][i]]]
  BY <1>3, <1>4, <1>7, <1>9
<1>14. shared' = [shared EXCEPT ![r] = [i \in L |->
                  IF s \in Holders(r, i) THEN shared[r][i] \cup {s} ELSE shared[r][i]]]
  BY <1>3, <1>4, <1>7
<1> QED BY <1>11, <1>12, <1>13, <1>14 DEF place, ballot

LEMMA ReturnVotesElection ==
  ASSUME RenumberInv, NEW r \in Rank, ReturnVotes(r)
  PROVE  ElectionInv(r)'
<1> DEFINE s == Src(r, round[r])
           better(i) == s \in Holders(r, i) /\ Better(s, r, i)
           key(i) == mesh.ids[r][i]
<1>1. /\ pc[r] = "votes" /\ net[In(r)] # <<>> /\ posted[r]
      /\ NextRound(r, "votes", "voted") /\ Given' = Given
      /\ posted' = [posted EXCEPT ![r] = FALSE]
  BY DEF ReturnVotes, Receive, Given
<1>2. GivenInv /\ ControlTypes /\ ElectionInv(r) BY DEF RenumberInv, RankInv
<1>3. ~posted'[r] BY <1>1, <1>2 DEF ControlTypes
<1>4. s \in Rank \ {r} /\ Heard(r)' = Heard(r) \cup {s}
  BY <1>1, <1>2, <1>3, HeardNext
<1>5. mesh' = mesh /\ rand' = rand /\ \A i : Holders(r, i)' = Holders(r, i)
  BY <1>1, GivenFixed
<1>6. /\ vote'[r] = [i \in Candidates(mesh, r) |->
                       IF better(i) THEN VoteOf(mesh, rand, s, key(i)) ELSE vote[r][i]]
      /\ remote'[r] = [i \in Local(mesh, r) |->
                       IF better(i) THEN PlaceIn(mesh, s, key(i)) ELSE remote[r][i]]
      /\ owner'[r] = [i \in Local(mesh, r) |->
                       IF better(i) THEN s
                       ELSE IF s \in Holders(r, i) THEN CurrentOwner(r, i)
                            ELSE owner[r][i]]
      /\ shared'[r] = [i \in Local(mesh, r) |->
                       IF s \in Holders(r, i) THEN shared[r][i] \cup {s}
                       ELSE shared[r][i]]
  <2>1. /\ vote' = [vote EXCEPT ![r] = [i \in Candidates(mesh, r) |->
                       IF better(i) THEN VoteOf(mesh, rand, s, key(i)) ELSE vote[r][i]]]
        /\ remote' = [remote EXCEPT ![r] = [i \in Local(mesh, r) |->
                       IF better(i) THEN PlaceIn(mesh, s, key(i)) ELSE remote[r][i]]]
        /\ owner' = [owner EXCEPT ![r] = [i \in Local(mesh, r) |->
                       IF better(i) THEN s
                       ELSE IF s \in Holders(r, i) THEN CurrentOwner(r, i)
                       ELSE owner[r][i]]]
        /\ shared' = [shared EXCEPT ![r] = [i \in Local(mesh, r) |->
                       IF s \in Holders(r, i) THEN shared[r][i] \cup {s}
                       ELSE shared[r][i]]]
    BY Counted
  <2>2. DOMAIN vote = Rank /\ DOMAIN remote = Rank
        /\ DOMAIN owner = Rank /\ DOMAIN shared = Rank
    BY <1>2 DEF ControlTypes
  <2> HIDE DEF s, better, key
  <2> QED BY <2>1, <2>2
<1> HIDE DEF s
<1>7. \A i : Rivals(r, i)' = IF s \in Holders(r, i) THEN Rivals(r, i) \cup {s}
                             ELSE Rivals(r, i)
  BY <1>4, <1>5 DEF Rivals
<1>8. ASSUME NEW i \in Local(mesh, r)
      PROVE  /\ CurrentOwner(r, i)' = IF better(i) THEN s ELSE CurrentOwner(r, i)
             /\ owner'[r][i] = P <=> Rivals(r, i)' = {}
  <2>1. /\ CurrentOwner(r, i) \in Rank
        /\ owner[r][i] = P <=> Rivals(r, i) = {}
    BY <1>2 DEF ElectionInv, Wins, Rivals, Holders
  <2>2. \A q \in Rank : q # P BY PAssumption DEF Rank
  <2>3. owner'[r][i] = IF better(i) THEN s
                       ELSE IF s \in Holders(r, i) THEN CurrentOwner(r, i)
                            ELSE owner[r][i]
    BY <1>6
  <2>4. CurrentOwner(r, i)' = IF owner'[r][i] = P THEN r ELSE owner'[r][i]
    BY DEF CurrentOwner
  <2>5. CurrentOwner(r, i) = IF owner[r][i] = P THEN r ELSE owner[r][i]
    BY DEF CurrentOwner
  <2> QED BY <1>4, <1>7, <2>1, <2>2, <2>3, <2>4, <2>5
<1>9. ASSUME NEW i \in Local(mesh, r)
      PROVE  Wins(mesh, rand, CurrentOwner(r, i)', Rivals(r, i)' \cup {r}, key(i))
  <2>1. Wins(mesh, rand, CurrentOwner(r, i), Rivals(r, i) \cup {r}, key(i))
    BY <1>2 DEF ElectionInv
  <2>2. Rivals(r, i) \cup {r} \in SUBSET Holders(r, i) BY SelfHolds DEF Rivals
  <2>3. CASE s \in Holders(r, i)
    <3>1. Wins(mesh, rand, IF Better(s, r, i) THEN s ELSE CurrentOwner(r, i),
               (Rivals(r, i) \cup {r}) \cup {s}, key(i))
      BY <1>2, <2>1, <2>2, <2>3, WinsAgainst DEF Better
    <3>2. Rivals(r, i)' \cup {r} = (Rivals(r, i) \cup {r}) \cup {s} BY <1>7, <2>3
    <3> QED BY <1>8, <2>3, <3>1, <3>2
  <2>4. CASE s \notin Holders(r, i) BY <1>7, <1>8, <2>1, <2>4
  <2> QED BY <2>3, <2>4
<1>10. ASSUME NEW i \in Local(mesh, r), CurrentOwner(r, i)' # r
       PROVE  remote'[r][i] = PlaceIn(mesh, CurrentOwner(r, i)', key(i))
  <2>1. CurrentOwner(r, i) # r => remote[r][i] = PlaceIn(mesh, CurrentOwner(r, i), key(i))
    BY <1>2 DEF ElectionInv
  <2> QED BY <1>6, <1>8, <1>10, <2>1
<1>11. ASSUME NEW i \in Candidates(mesh, r)
       PROVE  vote'[r][i] = VoteOf(mesh, rand, CurrentOwner(r, i)', key(i))
  <2>1. vote[r][i] = VoteOf(mesh, rand, CurrentOwner(r, i), key(i))
    BY <1>1, <1>2 DEF ElectionInv
  <2> QED BY <1>6, <1>8, <2>1 DEF Candidates
<1>12. ASSUME NEW i \in Local(mesh, r) PROVE shared'[r][i] = Rivals(r, i)'
  <2>1. shared[r][i] = Rivals(r, i) BY <1>2 DEF ElectionInv
  <2>2. shared'[r][i] = IF s \in Holders(r, i) THEN shared[r][i] \cup {s}
                        ELSE shared[r][i]
    BY <1>6
  <2> QED BY <1>7, <2>1, <2>2
<1>13. /\ DOMAIN owner'[r] = Local(mesh, r) /\ DOMAIN shared'[r] = Local(mesh, r)
       /\ DOMAIN remote'[r] = Local(mesh, r) /\ DOMAIN vote'[r] = Candidates(mesh, r)
  BY <1>6
<1> HIDE DEF better
<1> QED BY <1>5, <1>8, <1>9, <1>10, <1>11, <1>12, <1>13 DEF ElectionInv

(* A message leaves a channel, and the others are as they were.            *)
Took(s, r, tag) ==
  /\ DOMAIN net' = Rank \X Rank \X Tag
  /\ posted' \in [Rank -> BOOLEAN] /\ ~posted'[r]
  /\ \A q \in Rank \ {r} : posted'[q] = posted[q]
  /\ net'[<<s, r, tag>>] = Tail(net[<<s, r, tag>>])
  /\ \A a, b \in Rank, t \in Tag :
       <<a, b, t>> # <<s, r, tag>> => net'[<<a, b, t>>] = net[<<a, b, t>>]

LEMMA Received ==
  ASSUME ControlTypes, NEW r \in Rank, Receive(r), NEW s \in Rank, NEW tag \in Tag,
         In(r) = <<s, r, tag>>
  PROVE  Took(s, r, tag)
BY DEF Receive, ControlTypes, Took

LEMMA FirstChannelSame ==
  ASSUME NEW a \in Rank, NEW b \in Rank, FirstChannel(a, b), Given' = Given,
         net'[<<a, b, 1>>] = net[<<a, b, 1>>],
         VotesSent(a, b)' <=> VotesSent(a, b),
         (a \in Heard(b))' <=> a \in Heard(b)
  PROVE  FirstChannel(a, b)'
BY GivenFixed DEF FirstChannel

(* The ranks that do not step have heard and told as much as before.       *)
LEMMA OthersSame ==
  ASSUME NEW r \in Rank, NEW q \in Rank \ {r},
         pc'[q] = pc[q], round'[q] = round[q], posted'[q] = posted[q]
  PROVE  /\ Heard(q)' = Heard(q)
         /\ \A d : VotesSent(q, d)' <=> VotesSent(q, d)
<1>1. Voted(q)' <=> Voted(q) BY DEF Voted
<1> QED BY <1>1, HeardSame, SentSame

LEMMA ReturnVotesInv ==
  ASSUME RenumberInv, NEW r \in Rank, ReturnVotes(r)
  PROVE  RenumberInv'
<1> DEFINE s == Src(r, round[r])
<1>1. /\ pc[r] = "votes" /\ net[In(r)] # <<>> /\ posted[r] /\ Receive(r)
      /\ NextRound(r, "votes", "voted") /\ Given' = Given
      /\ UNCHANGED <<coll, number, offset, sendbuf, reply>>
      /\ \E f : vote' = [vote EXCEPT ![r] = f]
      /\ \E f : remote' = [remote EXCEPT ![r] = f]
      /\ \E f : owner' = [owner EXCEPT ![r] = f]
      /\ \E f : shared' = [shared EXCEPT ![r] = f]
  BY DEF ReturnVotes, Receive, Given, numbered, buffers
<1>2. GivenInv /\ ControlTypes /\ ChannelsInv /\ ScanInv /\ RankInv(r)
  BY DEF RenumberInv
<1>3. /\ In(r) = <<s, r, 1>> /\ VotesSent(s, r)
      /\ Tail(net[<<s, r, 1>>]) \in Seq({Question(s, r)})
  BY <1>1, VotesArrive
<1>4. s \in Rank \ {r} BY <1>1, <1>2, Partners DEF ControlTypes
<1>5. /\ DOMAIN net' = Rank \X Rank \X Tag
      /\ posted' \in [Rank -> BOOLEAN] /\ ~posted'[r]
      /\ \A q \in Rank \ {r} : posted'[q] = posted[q]
      /\ net'[<<s, r, 1>>] = Tail(net[<<s, r, 1>>])
      /\ \A a, b \in Rank, t \in Tag :
           <<a, b, t>> # <<s, r, 1>> => net'[<<a, b, t>>] = net[<<a, b, t>>]
  <2>1. 1 \in Tag BY DEF Tag
  <2> HIDE DEF s
  <2>2. Took(s, r, 1) BY <1>1, <1>2, <1>3, <1>4, <2>1, Received
  <2> QED BY <2>2 DEF Took
<1>6. /\ s \notin Heard(r) /\ Heard(r)' = Heard(r) \cup {s}
      /\ \A d \in Rank \ {r} : VotesSent(r, d)' <=> VotesSent(r, d)
  BY <1>1, <1>2, <1>5, HeardNext
<1> HIDE DEF s
<1>7. /\ pc' \in [Rank -> Stage \ {"error"}] /\ round' \in [Rank -> 1 .. (P - 1)]
      /\ \A q \in Rank \ {r} : pc'[q] = pc[q] /\ round'[q] = round[q]
      /\ \/ pc'[r] = "voted" /\ round'[r] = 1
         \/ pc'[r] = "votes"
  <2>1. "votes" \in Stage \ {"error"} /\ "voted" \in Stage \ {"error"} BY DEF Stage, Ring
  <2> QED BY <1>1, <1>2, <2>1, Advanced DEF ControlTypes
<1>8. \A q \in Rank \ {r} : /\ Heard(q)' = Heard(q)
                            /\ \A d : VotesSent(q, d)' <=> VotesSent(q, d)
  BY <1>5, <1>7, OthersSame
<1>9. ASSUME NEW a \in Rank, NEW b \in Rank, a # b
      PROVE  FirstChannel(a, b)' /\ net'[<<a, b, 2>>] \in Seq({Answer(a, b)'})
  <2>1. FirstChannel(a, b) /\ net[<<a, b, 2>>] \in Seq({Answer(a, b)})
    BY <1>2, <1>9 DEF ChannelsInv
  <2>2. net'[<<a, b, 2>>] = net[<<a, b, 2>>]
    <3>1. 2 \in Tag /\ <<a, b, 2>> # <<s, r, 1>> BY DEF Tag
    <3> QED BY <1>5, <3>1
  <2>3. CASE a = s /\ b = r
    <3>1. net'[<<a, b, 1>>] \in Seq({Question(a, b)}) BY <1>3, <1>5, <2>3
    <3>2. VotesSent(a, b)' /\ a \in Heard(b)' BY <1>3, <1>4, <1>6, <1>8, <2>3
    <3>3. Seq({Question(a, b)}) \subseteq Seq({BallotFor(a, b), Question(a, b)})
      BY SeqMonotonic
    <3>4. FirstChannel(a, b)' BY <1>1, <3>1, <3>2, <3>3, GivenFixed DEF FirstChannel
    <3> QED BY <1>1, <2>1, <2>2, <3>4, GivenFixed
  <2>4. CASE ~(a = s /\ b = r)
    <3>1. net'[<<a, b, 1>>] = net[<<a, b, 1>>] BY <1>5, <2>4 DEF Tag
    <3>2. (a \in Heard(b))' <=> a \in Heard(b) BY <1>6, <1>8, <2>4
    <3>3. VotesSent(a, b)' <=> VotesSent(a, b) BY <1>6, <1>8, <1>9
    <3>4. FirstChannel(a, b)' BY <1>1, <2>1, <3>1, <3>2, <3>3, FirstChannelSame
    <3> QED BY <1>1, <2>1, <2>2, <3>4, GivenFixed
  <2> QED BY <2>3, <2>4
<1>10. ChannelsInv' BY <1>9 DEF ChannelsInv
<1>11. ScanInv' BY <1>1, <1>2, ScanFixed
<1>12. ControlTypes' BY <1>1, <1>2, <1>5, <1>7 DEF ControlTypes
<1>13. RankInv(r)'
  <2>1. ControlInv(r)' BY <1>5, <1>7 DEF ControlInv, Ring
  <2>2. ElectionInv(r)' BY ReturnVotesElection
  <2>3. NumbersInv(r)' BY <1>1, <1>2, <1>7, GivenFixed DEF RankInv, NumbersInv
  <2>4. BuffersInv(r)' BY <1>1, <1>2, <1>7, GivenFixed DEF RankInv, BuffersInv
  <2> QED BY <2>1, <2>2, <2>3, <2>4 DEF RankInv
<1> QED BY <1>1, <1>2, <1>5, <1>7, <1>10, <1>11, <1>12, <1>13, Assembled DEF ControlTypes

------------------------------------------------------------------------------
(* The numbering *)

(* After the election every holder of an entity has the same owner for it, *)
(* the one canon names.                                                    *)
LEMMA ElectionResult ==
  ASSUME RenumberInv, NEW r \in Rank, Voted(r), NEW i \in Local(mesh, r)
  PROVE  /\ CurrentOwner(r, i) = canon.owners[r][i]
         /\ shared[r][i] = Holders(r, i) \ {r}
         /\ canon.owners[r][i] \in Holders(r, i)
         /\ canon.owners[r][i] = r => owner[r][i] \in {r, P}
         /\ canon.owners[r][i] # r =>
              /\ owner[r][i] = canon.owners[r][i] /\ owner[r][i] \notin {r, P}
              /\ remote[r][i] = PlaceIn(mesh, canon.owners[r][i], mesh.ids[r][i])
         /\ owner[r][i] = P <=> shared[r][i] = {}
<1>1. GivenInv /\ ElectionInv(r) BY DEF RenumberInv, RankInv
<1>2. Rivals(r, i) = Holders(r, i) \ {r} BY DEF Rivals, Heard, Holders
<1>3. Rivals(r, i) \cup {r} = Holders(r, i) BY <1>2, SelfHolds
<1>4. Wins(mesh, rand, CurrentOwner(r, i), Holders(r, i), mesh.ids[r][i])
  BY <1>1, <1>3 DEF ElectionInv
<1>5. Wins(mesh, rand, canon.owners[r][i], Holders(r, i), mesh.ids[r][i])
  BY <1>1, CanonWins
<1>6. CurrentOwner(r, i) = canon.owners[r][i]
  BY <1>1, <1>4, <1>5, WinnerUnique
<1>7. shared[r][i] = Rivals(r, i) /\ (owner[r][i] = P <=> Rivals(r, i) = {})
  BY <1>1 DEF ElectionInv
<1>8. canon.owners[r][i] \in Holders(r, i) BY <1>5 DEF Wins
<1>9. CurrentOwner(r, i) = IF owner[r][i] = P THEN r ELSE owner[r][i] BY DEF CurrentOwner
<1>10. CurrentOwner(r, i) # r =>
         remote[r][i] = PlaceIn(mesh, CurrentOwner(r, i), mesh.ids[r][i])
  BY <1>1 DEF ElectionInv
<1>11. r # P /\ \A q \in Rank : q # P BY PAssumption DEF Rank
<1> QED BY <1>2, <1>6, <1>7, <1>8, <1>9, <1>10, <1>11 DEF Holders

LEMMA GhostsElected ==
  ASSUME RenumberInv, NEW r \in Rank, Voted(r)
  PROVE  /\ Local(mesh, r) \ Ghosts(r) = Owned(canon, r)
         /\ NumOwned(r) = Cardinality(Owned(canon, r))
         /\ \A d \in Rank \ {r} :
              {k \in Ghosts(r) : owner[r][k] = d} = GivenTo(r, d)
<1>1. GivenInv BY DEF RenumberInv
<1>2. \A i \in Local(mesh, r) :
        /\ canon.owners[r][i] = r => owner[r][i] \in {r, P}
        /\ canon.owners[r][i] # r =>
             owner[r][i] = canon.owners[r][i] /\ owner[r][i] \notin {r, P}
  BY ElectionResult
<1>3. Owned(canon, r) = {i \in Local(mesh, r) : canon.owners[r][i] = r}
  BY <1>1, CanonConsistent DEF Owned
<1>4. Ghosts(r) = {i \in Local(mesh, r) : canon.owners[r][i] # r}
  BY <1>2 DEF Ghosts
<1>5. Local(mesh, r) \ Ghosts(r) = Owned(canon, r) BY <1>3, <1>4
<1>6. NumOwned(r) = Cardinality(Owned(canon, r))
  <2>1. mesh.size[r] \in Nat BY <1>1, GivenMesh DEF WellFormedMesh
  <2>2. IsFiniteSet(Local(mesh, r)) /\ Cardinality(Local(mesh, r)) = mesh.size[r]
    <3>1. 0 \in Int /\ mesh.size[r] - 1 \in Int BY <2>1
    <3>2. Cardinality(0 .. (mesh.size[r] - 1)) = mesh.size[r] BY <2>1, <3>1, FS_Interval
    <3> QED BY <3>1, <3>2, FS_Interval DEF Local
  <2>3. Ghosts(r) \subseteq Local(mesh, r) BY DEF Ghosts
  <2>4. IsFiniteSet(Ghosts(r)) /\ Cardinality(Ghosts(r)) \in Nat
    BY <2>2, <2>3, FS_Subset, FS_CardinalityType
  <2>5. Cardinality(Local(mesh, r) \ Ghosts(r))
          = Cardinality(Local(mesh, r)) - Cardinality(Local(mesh, r) \cap Ghosts(r))
    BY <2>2, FS_Difference
  <2>6. Local(mesh, r) \cap Ghosts(r) = Ghosts(r) BY <2>3
  <2> QED BY <1>5, <2>2, <2>5, <2>6 DEF NumOwned
<1>7. \A d \in Rank \ {r} : {k \in Ghosts(r) : owner[r][k] = d} = GivenTo(r, d)
  BY <1>2, <1>4 DEF GivenTo
<1> QED BY <1>5, <1>6, <1>7

LEMMA StartRangeInv ==
  ASSUME RenumberInv, NEW r \in Rank, StartRange(r)
  PROVE  RenumberInv'
<1>1. /\ pc[r] = "voted" /\ pc' = [pc EXCEPT ![r] = "scan"] /\ Given' = Given
      /\ Contribute("scan", r, NumOwned(r))
      /\ UNCHANGED <<round, posted, net, vote, owner, shared, remote, number,
                     offset, sendbuf, reply>>
  BY DEF StartRange, Given, elected, numbered, buffers
<1>2. ControlTypes /\ ChannelsInv /\ ScanInv /\ RankInv(r) BY DEF RenumberInv
<1>3. pc'[r] = "scan" /\ \A q \in Rank \ {r} : pc'[q] = pc[q]
  BY <1>1, <1>2 DEF ControlTypes
<1>4. \A q \in Rank : Voted(q)' <=> Voted(q) BY <1>1, <1>3 DEF Voted, Voting
<1>5. /\ \A q \in Rank : Heard(q)' = Heard(q)
      /\ \A q \in Rank : \A d : VotesSent(q, d)' <=> VotesSent(q, d)
  BY <1>1, <1>4, HeardSame, SentSame
<1>6. ChannelsInv' BY <1>1, <1>2, <1>5, ChannelsFixed
<1>7. /\ DOMAIN coll' = Collective /\ \A a \in Collective : DOMAIN coll'[a] = Rank
      /\ coll'["scan"][r] = NumOwned(r)
      /\ \A q \in Rank \ {r} : coll'["scan"][q] = coll["scan"][q]
  BY <1>1, <1>2, Contributed DEF ControlTypes, Collective
<1>8. ScanInv'
  <2>1. NumOwned(r) = Cardinality(Owned(canon, r))
    BY <1>1, GhostsElected DEF Voted, Voting
  <2>2. canon' = canon BY <1>1, GivenFixed
  <2> QED BY <1>2, <1>7, <2>1, <2>2 DEF ScanInv
<1>9. ControlTypes' BY <1>1, <1>2, <1>7 DEF ControlTypes, Stage, Collective
<1>10. RankInv(r)'
  <2>1. ControlInv(r)' BY <1>1, <1>2, <1>3 DEF RankInv, ControlInv, Ring
  <2>2. ElectionInv(r)' BY <1>1, <1>2, <1>3, <1>5, ElectionFrame DEF RankInv
  <2>3. NumbersInv(r)' BY <1>1, <1>2, <1>3, GivenFixed DEF RankInv, NumbersInv
  <2>4. BuffersInv(r)' BY <1>3 DEF BuffersInv
  <2> QED BY <2>1, <2>2, <2>3, <2>4 DEF RankInv
<1> QED BY <1>1, <1>3, <1>6, <1>8, <1>9, <1>10, Assembled

(* The scan gives a rank the number of entities that those below it own.   *)
LEMMA EndScanInv ==
  ASSUME RenumberInv, NEW r \in Rank, EndScan(r)
  PROVE  RenumberInv'
<1> DEFINE n == SumOf([q \in 0 .. (r - 1) |-> coll["scan"][q]], r)
<1>1. /\ pc[r] = "scan" /\ pc' = [pc EXCEPT ![r] = "sum"] /\ Given' = Given
      /\ Scanned("scan", r) /\ offset' = [offset EXCEPT ![r] = n]
      /\ Contribute("sum", r, NumOwned(r))
      /\ UNCHANGED <<round, posted, net, vote, owner, shared, remote, number,
                     sendbuf, reply>>
  BY DEF EndScan, Given, elected, buffers
<1>2. ControlTypes /\ ChannelsInv /\ ScanInv /\ RankInv(r) BY DEF RenumberInv
<1>3. n = Below(canon, r)
  <2>1. \A q \in 0 .. (r - 1) : q \in Rank /\ coll["scan"][q] # NotEntered
    BY <1>1, PAssumption DEF Scanned, Rank
  <2>2. \A q \in 0 .. (r - 1) : coll["scan"][q] = Cardinality(Owned(canon, q))
    BY <1>2, <2>1 DEF ScanInv
  <2>3. [q \in 0 .. (r - 1) |-> coll["scan"][q]]
          = [q \in 0 .. (r - 1) |-> Cardinality(Owned(canon, q))]
    BY <2>2
  <2> QED BY <2>3 DEF Below
<1> HIDE DEF n
<1>4. /\ pc'[r] = "sum" /\ offset'[r] = n
      /\ \A q \in Rank \ {r} : pc'[q] = pc[q] /\ offset'[q] = offset[q]
  BY <1>1, <1>2 DEF ControlTypes
<1>5. \A q \in Rank : Voted(q)' <=> Voted(q) BY <1>1, <1>4 DEF Voted, Voting
<1>6. /\ \A q \in Rank : Heard(q)' = Heard(q)
      /\ \A q \in Rank : \A d : VotesSent(q, d)' <=> VotesSent(q, d)
  BY <1>1, <1>5, HeardSame, SentSame
<1>7. ChannelsInv' BY <1>1, <1>2, <1>6, ChannelsFixed
<1>8. /\ DOMAIN coll' = Collective /\ \A a \in Collective : DOMAIN coll'[a] = Rank
      /\ \A q \in Rank : coll'["scan"][q] = coll["scan"][q]
  BY <1>1, <1>2, Contributed DEF ControlTypes, Collective
<1>9. ScanInv' BY <1>1, <1>2, <1>8, ScanFixed
<1>10. ControlTypes' BY <1>1, <1>2, <1>8 DEF ControlTypes, Stage, Collective
<1>11. RankInv(r)'
  <2>1. ControlInv(r)' BY <1>1, <1>2, <1>4 DEF RankInv, ControlInv, Ring
  <2>2. ElectionInv(r)' BY <1>1, <1>2, <1>4, <1>6, ElectionFrame DEF RankInv
  <2>3. NumbersInv(r)' BY <1>1, <1>2, <1>3, <1>4, GivenFixed DEF RankInv, NumbersInv
  <2>4. BuffersInv(r)' BY <1>4 DEF BuffersInv
  <2> QED BY <2>1, <2>2, <2>3, <2>4 DEF RankInv
<1> QED BY <1>1, <1>4, <1>7, <1>9, <1>10, <1>11, Assembled

(* A rank numbers what it owns canonically.                                *)
LEMMA StartAskInv ==
  ASSUME RenumberInv, NEW r \in Rank, StartAsk(r)
  PROVE  RenumberInv'
<1> DEFINE owned == Local(mesh, r) \ Ghosts(r)
           queue(d) == [i \in {k \in Ghosts(r) : owner[r][k] = d} |-> remote[r][i]]
<1>1. /\ pc[r] = "sum" /\ pc' = [pc EXCEPT ![r] = "ask"] /\ Given' = Given
      /\ number' = [number EXCEPT ![r] = [i \in DOMAIN number[r] |->
                      IF i \in owned THEN offset[r] + Cardinality({k \in owned : k < i})
                      ELSE number[r][i]]]
      /\ sendbuf' = [sendbuf EXCEPT ![r] = [d \in Rank |-> queue(d)]]
      /\ UNCHANGED <<round, posted, net, coll, vote, owner, shared, remote,
                     offset, reply>>
  BY DEF StartAsk, Given, mpi, elected
<1>2. GivenInv /\ ControlTypes /\ ChannelsInv /\ ScanInv /\ RankInv(r) BY DEF RenumberInv
<1>3. Voted(r) BY <1>1 DEF Voted, Voting
<1>4. owned = Owned(canon, r) BY <1>3, GhostsElected
<1>5. \A d \in Rank \ {r} : queue(d) = Question(r, d)
  <2> SUFFICES ASSUME NEW d \in Rank \ {r} PROVE queue(d) = Question(r, d) OBVIOUS
  <2>1. {k \in Ghosts(r) : owner[r][k] = d} = GivenTo(r, d) BY <1>3, GhostsElected
  <2>2. \A i \in GivenTo(r, d) : remote[r][i] = PlaceIn(mesh, d, mesh.ids[r][i])
    BY <1>3, ElectionResult DEF GivenTo
  <2> QED BY <2>1, <2>2 DEF Question
<1> HIDE DEF owned, queue
<1>6. /\ pc'[r] = "ask"
      /\ \A d \in Rank \ {r} : sendbuf'[r][d] = Question(r, d)
      /\ \A q \in Rank \ {r} : /\ pc'[q] = pc[q] /\ number'[q] = number[q]
                               /\ sendbuf'[q] = sendbuf[q]
  BY <1>1, <1>2, <1>5 DEF ControlTypes
<1>7. \A q \in Rank : Voted(q)' <=> Voted(q) BY <1>1, <1>6 DEF Voted, Voting
<1>8. /\ \A q \in Rank : Heard(q)' = Heard(q)
      /\ \A q \in Rank : \A d : VotesSent(q, d)' <=> VotesSent(q, d)
  BY <1>1, <1>7, HeardSame, SentSame
<1>9. ChannelsInv' BY <1>1, <1>2, <1>8, ChannelsFixed
<1>10. ScanInv' BY <1>1, <1>2, ScanFixed
<1>11. ControlTypes' BY <1>1, <1>2 DEF ControlTypes, Stage, Ring
<1>12. NumbersInv(r)'
  <2>1. mesh' = mesh /\ canon' = canon BY <1>1, GivenFixed
  <2>2. DOMAIN number[r] = Local(mesh, r) /\ offset[r] = Below(canon, r)
    BY <1>1, <1>2 DEF RankInv, NumbersInv
  <2>3. number'[r] = [i \in Local(mesh, r) |->
                        IF i \in owned THEN offset[r] + Cardinality({k \in owned : k < i})
                        ELSE number[r][i]]
    BY <1>1, <1>2, <2>2 DEF ControlTypes
  <2>4. number'[r] = [i \in Local(mesh, r) |-> number'[r][i]] BY <2>3
  <2>5. round[r] = 1 BY <1>1, <1>2 DEF RankInv, ControlInv, Ring
  <2>6. ASSUME NEW i \in Local(mesh, r), Settled(r, i)'
        PROVE  number'[r][i] = Canonical(canon, r, i)
    <3>1. canon.owners[r][i] \in Rank
      BY <1>2, CanonWins DEF Wins, Holders
    <3>2. canon.owners[r][i] = r
      <4> SUFFICES ASSUME canon.owners[r][i] # r PROVE FALSE OBVIOUS
      <4>1. RoundFor(r, canon.owners[r][i]) \in 1 .. (P - 1) BY <3>1, RoundOfPartner
      <4>2. RoundFor(r, canon.owners[r][i]) < 1
        BY <1>1, <1>6, <2>1, <2>5, <2>6 DEF Settled
      <4> QED BY <4>1, <4>2, PAssumption
    <3>3. /\ Consistent(canon, Rank) /\ i \in Local(canon, r) BY <1>2, CanonConsistent
    <3>4. i \in owned BY <1>4, <3>2, <3>3 DEF Owned
    <3>5. i = PlaceIn(canon, r, canon.ids[r][i]) BY <3>3, PlaceInIs
    <3>6. Canonical(canon, r, i) = Below(canon, r) + OwnedBefore(canon, r, i)
      BY <3>2, <3>3, <3>5, CanonicalInterval
    <3> QED BY <1>4, <2>2, <2>3, <3>4, <3>6 DEF OwnedBefore
  <2> QED BY <1>1, <2>1, <2>2, <2>4, <2>6 DEF NumbersInv
<1>13. RankInv(r)'
  <2>1. ControlInv(r)' BY <1>6 DEF ControlInv, Ring
  <2>2. ElectionInv(r)' BY <1>1, <1>2, <1>6, <1>8, ElectionFrame DEF RankInv
  <2>3. BuffersInv(r)' BY <1>1, <1>6, GivenFixed DEF BuffersInv
  <2> QED BY <1>12, <2>1, <2>2, <2>3 DEF RankInv
<1> QED BY <1>1, <1>6, <1>9, <1>10, <1>11, <1>13, Assembled

------------------------------------------------------------------------------
(* The messages, step by step *)

(* A message enters a channel, and the others are as they were.            *)
Put(r, d, tag, body) ==
  /\ DOMAIN net' = Rank \X Rank \X Tag
  /\ posted' \in [Rank -> BOOLEAN] /\ posted'[r]
  /\ \A q \in Rank \ {r} : posted'[q] = posted[q]
  /\ net'[<<r, d, tag>>] = Append(net[<<r, d, tag>>], body)
  /\ \A a, b \in Rank, t \in Tag :
       <<a, b, t>> # <<r, d, tag>> => net'[<<a, b, t>>] = net[<<a, b, t>>]

LEMMA Sent ==
  ASSUME ControlTypes, NEW r \in Rank, NEW d \in Rank, NEW tag \in Tag, NEW body,
         net' = [net EXCEPT ![<<r, d, tag>>] = Append(net[<<r, d, tag>>], body)],
         posted' = [posted EXCEPT ![r] = TRUE]
  PROVE  Put(r, d, tag, body)
BY DEF ControlTypes, Put

(* Appending to a sequence that is not empty leaves its head.              *)
LEMMA AppendLast ==
  ASSUME NEW S, NEW s \in Seq(S), NEW x \in S, NEW T, s # <<>>, Tail(s) \in Seq(T),
         x \in T
  PROVE  /\ Append(s, x) # <<>> /\ Head(Append(s, x)) = Head(s)
         /\ Tail(Append(s, x)) \in Seq(T)
<1>1. Append(s, x) # <<>> /\ Append(s, x) \in Seq(S) BY AppendProperties
<1>2. /\ Head(Append(s, x)) = IF s = <<>> THEN x ELSE Head(s)
      /\ Tail(Append(s, x)) = IF s = <<>> THEN <<>> ELSE Append(Tail(s), x)
  BY HeadTailAppend
<1>3. Append(Tail(s), x) \in Seq(T) BY AppendProperties
<1> QED BY <1>1, <1>2, <1>3

(* A channel whose source has sent its votes takes a question.             *)
LEMMA QuestionSent ==
  ASSUME NEW a \in Rank, NEW b \in Rank, FirstChannel(a, b), Given' = Given,
         VotesSent(a, b), VotesSent(a, b)', (a \in Heard(b))' <=> a \in Heard(b),
         net'[<<a, b, 1>>] = Append(net[<<a, b, 1>>], Question(a, b))
  PROVE  FirstChannel(a, b)'
<1> DEFINE c == net[<<a, b, 1>>]
           B == BallotFor(a, b)
           Q == Question(a, b)
<1>1. c \in Seq({B, Q}) BY DEF FirstChannel
<1>2. Append(c, Q) \in Seq({B, Q}) BY <1>1, AppendProperties
<1>3. a \notin Heard(b) => c # <<>> /\ Head(c) = B /\ Tail(c) \in Seq({Q})
  BY DEF FirstChannel
<1>4. a \notin Heard(b) =>
        Append(c, Q) # <<>> /\ Head(Append(c, Q)) = B /\ Tail(Append(c, Q)) \in Seq({Q})
  <2> SUFFICES ASSUME a \notin Heard(b)
               PROVE  /\ Append(c, Q) # <<>> /\ Head(Append(c, Q)) = B
                      /\ Tail(Append(c, Q)) \in Seq({Q})
    OBVIOUS
  <2> HIDE DEF c, B, Q
  <2> QED BY <1>1, <1>3, AppendLast
<1>5. a \in Heard(b) => Append(c, Q) \in Seq({Q})
  <2>1. a \in Heard(b) => c \in Seq({Q}) BY DEF FirstChannel
  <2> HIDE DEF c, Q
  <2> QED BY <2>1, AppendProperties
<1>6. B' = B /\ Q' = Q BY GivenFixed
<1>7. (net[<<a, b, 1>>])' = Append(c, Q) OBVIOUS
<1> QED BY <1>2, <1>4, <1>5, <1>6, <1>7 DEF FirstChannel

(* The first message of a channel is the votes.                            *)
LEMMA VotesPosted ==
  ASSUME NEW a \in Rank, NEW b \in Rank, FirstChannel(a, b), Given' = Given,
         ~VotesSent(a, b), VotesSent(a, b)', (a \in Heard(b))' <=> a \in Heard(b),
         net'[<<a, b, 1>>] = Append(net[<<a, b, 1>>], BallotFor(a, b))
  PROVE  FirstChannel(a, b)'
<1> DEFINE B == BallotFor(a, b)
<1>1. net[<<a, b, 1>>] = <<>> /\ a \notin Heard(b) BY DEF FirstChannel
<1>2. net'[<<a, b, 1>>] = <<B>> BY <1>1
<1>3. <<B>> \in Seq({B, Question(a, b)}) /\ <<B>> # <<>> /\ Head(<<B>>) = B
  OBVIOUS
<1>4. Tail(<<B>>) \in Seq({Question(a, b)})
  <2>1. Tail(<<B>>) = <<>> OBVIOUS
  <2> QED BY <2>1
<1>5. B' = B /\ Question(a, b)' = Question(a, b) BY GivenFixed
<1> QED BY <1>1, <1>2, <1>3, <1>4, <1>5 DEF FirstChannel

LEMMA PostInv ==
  ASSUME RenumberInv, NEW r \in Rank, Post(r)
  PROVE  RenumberInv'
<1> DEFINE d == To(r)
           tag == TagOf(r)
           body == IF pc[r] = "answer" THEN reply[r] ELSE sendbuf[r][d]
<1>1. /\ pc[r] \in Ring /\ ~posted[r] /\ Given' = Given
      /\ net' = [net EXCEPT ![<<r, d, tag>>] = Append(net[<<r, d, tag>>], body)]
      /\ posted' = [posted EXCEPT ![r] = TRUE]
      /\ UNCHANGED <<pc, round, coll, vote, owner, shared, remote, number, offset,
                     sendbuf, reply>>
  BY DEF Post, Given, elected, numbered, buffers
<1>2. GivenInv /\ ControlTypes /\ ChannelsInv /\ ScanInv /\ RankInv(r)
  BY DEF RenumberInv
<1>3. round[r] \in 1 .. (P - 1) BY <1>2 DEF ControlTypes
<1>4. d \in Rank \ {r} /\ tag \in Tag
  BY <1>3, Partners DEF To, TagOf, Tag
<1>5. pc[r] # "answer" => d = Dst(r, round[r]) /\ tag = 1 BY DEF To, TagOf
<1>6. pc[r] = "answer" => d = Src(r, round[r]) /\ tag = 2 BY DEF To, TagOf
<1>7. /\ pc[r] = "votes" => body = BallotFor(r, d)
      /\ pc[r] = "ask" => body = Question(r, d)
      /\ pc[r] = "answer" => body = Answer(r, d)
  BY <1>2, <1>4, <1>6 DEF RankInv, BuffersInv
<1> HIDE DEF d, tag, body
<1>8. Put(r, d, tag, body) BY <1>1, <1>2, <1>4, Sent
<1>9. \A q \in Rank : Voted(q)' <=> Voted(q) BY <1>1 DEF Voted
<1>10. \A q \in Rank : Heard(q)' = Heard(q) BY <1>1, <1>9, HeardSame
<1>11. \A q \in Rank \ {r} : \A b : VotesSent(q, b)' <=> VotesSent(q, b)
  BY <1>1, <1>8, <1>9, SentSame DEF Put
<1>12. \A b \in Rank \ {r} : b # d \/ pc[r] # "votes" =>
         (VotesSent(r, b)' <=> VotesSent(r, b))
  <2>1. pc[r] # "votes" => Voted(r) BY <1>1 DEF Voted, Voting, Ring
  <2>2. pc[r] = "votes" => \A b \in Rank \ {r} : b # d => RoundFor(r, b) # round[r]
    BY <1>3, <1>5, RoundOfPartner
  <2>3. \A b : VotesSent(r, b)' <=> \/ Voted(r)
                                    \/ RoundFor(r, b) < round[r]
                                    \/ RoundFor(r, b) = round[r] /\ posted'[r]
    BY <1>1, <1>9 DEF VotesSent
  <2> QED BY <2>1, <2>2, <2>3 DEF VotesSent
<1>13. ASSUME NEW a \in Rank, NEW b \in Rank, a # b PROVE FirstChannel(a, b)'
  <2>1. FirstChannel(a, b) BY <1>2, <1>13 DEF ChannelsInv
  <2>2. (a \in Heard(b))' <=> a \in Heard(b) BY <1>10
  <2>3. CASE a = r /\ b = d /\ pc[r] = "votes"
    <3>1. net'[<<a, b, 1>>] = Append(net[<<a, b, 1>>], BallotFor(a, b))
      BY <1>5, <1>7, <1>8, <2>3 DEF Put
    <3>2. RoundFor(r, d) = round[r] BY <1>3, <1>4, <1>5, <2>3, RoundOfPartner
    <3>3. ~VotesSent(a, b)
      BY <1>1, <1>3, <2>3, <3>2 DEF VotesSent, Voted, Voting
    <3>4. VotesSent(a, b)'
      BY <1>1, <1>8, <2>3, <3>2 DEF VotesSent, Put
    <3> QED BY <1>1, <2>1, <2>2, <3>1, <3>3, <3>4, VotesPosted
  <2>4. CASE a = r /\ b = d /\ pc[r] = "ask"
    <3>1. net'[<<a, b, 1>>] = Append(net[<<a, b, 1>>], Question(a, b))
      BY <1>5, <1>7, <1>8, <2>4 DEF Put
    <3>2. VotesSent(a, b) /\ VotesSent(a, b)'
      BY <1>9, <2>4 DEF VotesSent, Voted, Voting
    <3> QED BY <1>1, <2>1, <2>2, <3>1, <3>2, QuestionSent
  <2>5. CASE ~(a = r /\ b = d) \/ pc[r] = "answer"
    <3>1. net'[<<a, b, 1>>] = net[<<a, b, 1>>]
      <4>1. <<a, b, 1>> # <<r, d, tag>> BY <1>6, <2>5
      <4> QED BY <1>8, <4>1 DEF Put, Tag
    <3>2. VotesSent(a, b)' <=> VotesSent(a, b)
      BY <1>11, <1>12, <1>13, <2>5
    <3> QED BY <1>1, <2>1, <2>2, <3>1, <3>2, FirstChannelSame
  <2> QED BY <1>1, <2>3, <2>4, <2>5 DEF Ring
<1>14. ASSUME NEW a \in Rank, NEW b \in Rank, a # b
       PROVE  net'[<<a, b, 2>>] \in Seq({Answer(a, b)'})
  <2>1. net[<<a, b, 2>>] \in Seq({Answer(a, b)}) BY <1>2, <1>14 DEF ChannelsInv
  <2>2. CASE a = r /\ b = d /\ pc[r] = "answer"
    <3>1. net'[<<a, b, 2>>] = Append(net[<<a, b, 2>>], Answer(a, b))
      BY <1>6, <1>7, <1>8, <2>2 DEF Put
    <3>2. net'[<<a, b, 2>>] \in Seq({Answer(a, b)}) BY <2>1, <3>1, AppendProperties
    <3> QED BY <1>1, <3>2, GivenFixed
  <2>3. CASE ~(a = r /\ b = d /\ pc[r] = "answer")
    <3>1. 2 \in Tag /\ <<a, b, 2>> # <<r, d, tag>> BY <1>5, <2>3 DEF Tag
    <3>2. net'[<<a, b, 2>>] = net[<<a, b, 2>>] BY <1>8, <3>1 DEF Put
    <3> QED BY <1>1, <2>1, <3>2, GivenFixed
  <2> QED BY <2>2, <2>3
<1>15. ChannelsInv' BY <1>13, <1>14 DEF ChannelsInv
<1>16. ScanInv' BY <1>1, <1>2, ScanFixed
<1>17. ControlTypes' BY <1>1, <1>2, <1>8 DEF ControlTypes, Put
<1>18. RankInv(r)'
  <2>1. ControlInv(r)' BY <1>1 DEF ControlInv
  <2>2. ElectionInv(r)' BY <1>1, <1>2, <1>10, ElectionFrame DEF RankInv
  <2>3. NumbersInv(r)'
    <3>1. mesh' = mesh /\ canon' = canon BY <1>1, GivenFixed
    <3>2. \A i : Settled(r, i)' <=> Settled(r, i) BY <1>1, <3>1 DEF Settled
    <3> QED BY <1>1, <1>2, <3>1, <3>2 DEF RankInv, NumbersInv
  <2>4. BuffersInv(r)' BY <1>1, <1>2, GivenFixed DEF RankInv, BuffersInv
  <2> QED BY <2>1, <2>2, <2>3, <2>4 DEF RankInv
<1> QED BY <1>1, <1>8, <1>15, <1>16, <1>17, <1>18, Assembled DEF Put

(* A rank that was voted for hears questions only, for what it owns and    *)
(* shares with whoever asks.                                               *)
LEMMA QuestionArrives ==
  ASSUME RenumberInv, NEW r \in Rank, pc[r] = "ask", net[In(r)] # <<>>,
         NEW s, s = Src(r, round[r])
  PROVE  /\ In(r) = <<s, r, 1>>
         /\ Message(r) = Question(s, r)
         /\ Tail(net[<<s, r, 1>>]) \in Seq({Question(s, r)})
         /\ s \in Rank \ {r} /\ s \in Heard(r)
<1>1. In(r) = <<s, r, 1>> BY DEF From, In, TagOf
<1>2. round[r] \in 1 .. (P - 1) /\ Voted(r)
  BY DEF RenumberInv, ControlTypes, Voted, Voting
<1>3. s \in Rank \ {r} BY <1>2, Partners
<1>4. s \in Heard(r) BY <1>2, <1>3 DEF Heard
<1>5. FirstChannel(s, r) BY <1>3 DEF RenumberInv, ChannelsInv
<1>6. net[<<s, r, 1>>] \in Seq({Question(s, r)}) /\ net[<<s, r, 1>>] # <<>>
  BY <1>1, <1>4, <1>5 DEF FirstChannel
<1>7. /\ Head(net[<<s, r, 1>>]) \in {Question(s, r)}
      /\ Tail(net[<<s, r, 1>>]) \in Seq({Question(s, r)})
  BY <1>6, HeadTailProperties
<1> QED BY <1>1, <1>3, <1>4, <1>7 DEF Message

(* The place of an entity on the owner it was given to.                    *)
LEMMA PlaceGiven ==
  ASSUME RenumberInv, NEW r \in Rank, Voted(r), NEW s \in Rank \ {r},
         NEW k \in GivenTo(s, r), NEW p, p = PlaceIn(mesh, r, mesh.ids[s][k])
  PROVE  /\ k \in Local(mesh, s) /\ p \in Local(mesh, r)
         /\ mesh.ids[r][p] = mesh.ids[s][k]
         /\ canon.owners[r][p] = r
         /\ s \in shared[r][p] /\ owner[r][p] = r
<1>1. GivenInv BY DEF RenumberInv
<1>2. k \in Local(mesh, s) /\ canon.owners[s][k] = r BY DEF GivenTo
<1>3. r \in Holders(s, k) BY <1>1, <1>2, CanonWins DEF Wins
<1>4. p \in Local(mesh, r) /\ mesh.ids[r][p] = mesh.ids[s][k]
  BY <1>1, <1>2, <1>3, PlaceOfHolder
<1>5. canon.owners[r][p] = r
  <2>1. Consistent(canon, Rank) /\ canon.ids = mesh.ids BY <1>1, CanonConsistent
  <2>2. p \in Local(canon, r) /\ k \in Local(canon, s)
      BY <1>1, <1>2, <1>4, CanonConsistent
  <2>3. canon.owners[r][p] = canon.owners[s][k] BY <1>4, <2>1, <2>2 DEF Consistent
  <2> QED BY <1>2, <2>3
<1>6. s \in Holders(r, p) BY <1>2, <1>4 DEF Holders, Same
<1>7. s \in shared[r][p] BY <1>4, <1>6, ElectionResult
<1>8. owner[r][p] = r BY <1>4, <1>5, <1>7, ElectionResult
<1> QED BY <1>2, <1>4, <1>5, <1>7, <1>8

LEMMA ReturnAskReply ==
  ASSUME RenumberInv, NEW r \in Rank, ReturnAsk(r), NEW s, s = Src(r, round[r])
  PROVE  /\ pc' = [pc EXCEPT ![r] = "answer"]
         /\ reply' = [reply EXCEPT ![r] = Answer(r, s)]
<1> DEFINE ask == Message(r)
           answerable == \A k \in DOMAIN ask :
                           shared[r][ask[k]] # {} /\ owner[r][ask[k]] = r
           back == [k \in DOMAIN ask |-> number[r][ask[k]]]
<1>1. /\ pc[r] = "ask" /\ net[In(r)] # <<>>
      /\ answerable => /\ reply' = [reply EXCEPT ![r] = back]
                       /\ pc' = [pc EXCEPT ![r] = "answer"]
  BY DEF ReturnAsk, Receive
<1>2. /\ GivenInv /\ ControlTypes /\ NumbersInv(r) /\ Voted(r)
  BY <1>1 DEF RenumberInv, RankInv, Voted, Voting
<1>3. ask = Question(s, r) /\ s \in Rank \ {r} BY <1>1, QuestionArrives
<1>4. DOMAIN ask = GivenTo(s, r) BY <1>3 DEF Question
<1>5. \A k \in GivenTo(s, r) : ask[k] = PlaceIn(mesh, r, mesh.ids[s][k])
  BY <1>3 DEF Question
<1> HIDE DEF ask
<1>6. answerable BY <1>2, <1>3, <1>4, <1>5, PlaceGiven
<1>7. ASSUME NEW k \in GivenTo(s, r) PROVE number[r][ask[k]] = Canonical(canon, s, k)
  <2> DEFINE p == PlaceIn(mesh, r, mesh.ids[s][k])
  <2>1. /\ k \in Local(mesh, s) /\ p \in Local(mesh, r)
        /\ mesh.ids[r][p] = mesh.ids[s][k] /\ canon.owners[r][p] = r
    BY <1>2, <1>3, PlaceGiven
  <2>2. ask[k] = p BY <1>5
  <2> HIDE DEF p
  <2>3. number[r][p] = Canonical(canon, r, p)
    BY <1>1, <1>2, <2>1 DEF NumbersInv, Settled
  <2>4. Canonical(canon, r, p) = Canonical(canon, s, k)
    BY <1>2, <1>3, <2>1, CanonConsistent, CanonicalAgrees
  <2> QED BY <2>2, <2>3, <2>4
<1>8. back = Answer(r, s) BY <1>4, <1>7 DEF Answer
<1> QED BY <1>1, <1>6, <1>8

LEMMA ReturnAskInv ==
  ASSUME RenumberInv, NEW r \in Rank, ReturnAsk(r)
  PROVE  RenumberInv'
<1> DEFINE s == Src(r, round[r])
<1>1. /\ pc[r] = "ask" /\ net[In(r)] # <<>> /\ Receive(r) /\ Given' = Given
      /\ UNCHANGED <<round, coll, vote, owner, shared, remote, number, offset, sendbuf>>
  BY DEF ReturnAsk, Receive, Given, elected, numbered
<1>2. GivenInv /\ ControlTypes /\ ChannelsInv /\ ScanInv /\ RankInv(r)
  BY DEF RenumberInv
<1>3. /\ In(r) = <<s, r, 1>> /\ s \in Rank \ {r} /\ s \in Heard(r)
      /\ Tail(net[<<s, r, 1>>]) \in Seq({Question(s, r)})
  BY <1>1, QuestionArrives
<1>4. /\ pc' = [pc EXCEPT ![r] = "answer"] /\ reply' = [reply EXCEPT ![r] = Answer(r, s)]
  BY ReturnAskReply
<1>5. s = Src(r, round[r]) OBVIOUS
<1> HIDE DEF s
<1>6. Took(s, r, 1)
  <2>1. 1 \in Tag BY DEF Tag
  <2> QED BY <1>1, <1>2, <1>3, <2>1, Received
<1>7. /\ pc'[r] = "answer" /\ reply'[r] = Answer(r, s)
      /\ \A q \in Rank \ {r} : /\ pc'[q] = pc[q] /\ reply'[q] = reply[q]
                               /\ posted'[q] = posted[q]
  BY <1>2, <1>4, <1>6 DEF ControlTypes, Took
<1>8. \A q \in Rank : Voted(q)' <=> Voted(q) BY <1>1, <1>7 DEF Voted, Voting
<1>9. \A q \in Rank : Heard(q)' = Heard(q) BY <1>1, <1>8, HeardSame
<1>10. \A q \in Rank : \A b : VotesSent(q, b)' <=> VotesSent(q, b)
  <2>1. Voted(r) /\ Voted(r)' BY <1>1, <1>8 DEF Voted, Voting
  <2> QED BY <1>1, <1>7, <1>8, <2>1, SentSame DEF VotesSent
<1>11. ASSUME NEW a \in Rank, NEW b \in Rank, a # b
       PROVE  FirstChannel(a, b)' /\ net'[<<a, b, 2>>] \in Seq({Answer(a, b)'})
  <2>1. FirstChannel(a, b) /\ net[<<a, b, 2>>] \in Seq({Answer(a, b)})
    BY <1>2, <1>11 DEF ChannelsInv
  <2>2. net'[<<a, b, 2>>] = net[<<a, b, 2>>]
    <3>1. 2 \in Tag /\ <<a, b, 2>> # <<s, r, 1>> BY DEF Tag
    <3> QED BY <1>6, <3>1 DEF Took
  <2>3. CASE a = s /\ b = r
    <3>1. net'[<<a, b, 1>>] \in Seq({Question(a, b)}) BY <1>3, <1>6, <2>3 DEF Took
    <3>2. (a \in Heard(b))' /\ VotesSent(a, b)'
      <4>1. VotesSent(a, b) BY <1>3, <2>1, <2>3 DEF FirstChannel
      <4> QED BY <1>3, <1>9, <1>10, <2>3, <4>1
    <3>3. Seq({Question(a, b)}) \subseteq Seq({BallotFor(a, b), Question(a, b)})
      BY SeqMonotonic
    <3>4. FirstChannel(a, b)' BY <1>1, <3>1, <3>2, <3>3, GivenFixed DEF FirstChannel
    <3> QED BY <1>1, <2>1, <2>2, <3>4, GivenFixed
  <2>4. CASE ~(a = s /\ b = r)
    <3>1. net'[<<a, b, 1>>] = net[<<a, b, 1>>] BY <1>6, <2>4 DEF Tag, Took
    <3>2. FirstChannel(a, b)' BY <1>1, <1>9, <1>10, <2>1, <3>1, FirstChannelSame
    <3> QED BY <1>1, <2>1, <2>2, <3>2, GivenFixed
  <2> QED BY <2>3, <2>4
<1>12. ChannelsInv' BY <1>11 DEF ChannelsInv
<1>13. ScanInv' BY <1>1, <1>2, ScanFixed
<1>14. ControlTypes' BY <1>1, <1>2, <1>4, <1>6 DEF ControlTypes, Took, Stage, Ring
<1>15. RankInv(r)'
  <2>1. ControlInv(r)' BY <1>7 DEF ControlInv, Ring
  <2>2. ElectionInv(r)' BY <1>1, <1>2, <1>7, <1>9, ElectionFrame DEF RankInv
  <2>3. NumbersInv(r)'
    <3>1. mesh' = mesh /\ canon' = canon BY <1>1, GivenFixed
    <3>2. \A i : Settled(r, i)' <=> Settled(r, i) BY <1>1, <1>7, <3>1 DEF Settled
    <3> QED BY <1>1, <1>2, <1>7, <3>1, <3>2 DEF RankInv, NumbersInv
  <2>4. BuffersInv(r)'
    <3>1. \A d \in Rank \ {r} : sendbuf[r][d] = Question(r, d)
      BY <1>1, <1>2 DEF RankInv, BuffersInv
    <3>2. Src(r, round'[r]) = s BY <1>1, <1>5
    <3> QED BY <1>1, <1>7, <3>1, <3>2, GivenFixed DEF BuffersInv
  <2> QED BY <2>1, <2>2, <2>3, <2>4 DEF RankInv
<1> QED BY <1>1, <1>7, <1>12, <1>13, <1>14, <1>15, Assembled

(* An answer is the one to the question of this round.                     *)
LEMMA AnswerArrives ==
  ASSUME RenumberInv, NEW r \in Rank, pc[r] = "answer", net[In(r)] # <<>>,
         NEW d, d = Dst(r, round[r])
  PROVE  /\ In(r) = <<d, r, 2>>
         /\ Message(r) = Answer(d, r)
         /\ Tail(net[<<d, r, 2>>]) \in Seq({Answer(d, r)})
         /\ d \in Rank \ {r}
<1>1. In(r) = <<d, r, 2>> BY DEF From, In, TagOf
<1>2. d \in Rank \ {r} BY Partners DEF RenumberInv, ControlTypes
<1>3. net[<<d, r, 2>>] \in Seq({Answer(d, r)}) /\ net[<<d, r, 2>>] # <<>>
  BY <1>1, <1>2 DEF RenumberInv, ChannelsInv
<1>4. /\ Head(net[<<d, r, 2>>]) \in {Answer(d, r)}
      /\ Tail(net[<<d, r, 2>>]) \in Seq({Answer(d, r)})
  BY <1>3, HeadTailProperties
<1> QED BY <1>1, <1>2, <1>4 DEF Message

(* With the answer the entities of one owner more have their numbers.      *)
LEMMA ReturnAnswerNumbers ==
  ASSUME RenumberInv, NEW r \in Rank, ReturnAnswer(r)
  PROVE  /\ NextRound(r, "ask", "done")
         /\ \A q \in Rank \ {r} : number'[q] = number[q]
         /\ DOMAIN number' = Rank
         /\ number'[r] = [i \in Local(mesh, r) |-> number'[r][i]]
         /\ \A i \in Local(mesh, r) :
              LET o == canon.owners[r][i]
              IN  o = r \/ RoundFor(r, o) <= round[r] =>
                    number'[r][i] = Canonical(canon, r, i)
<1> DEFINE d == Dst(r, round[r])
           back == Message(r)
           numbers == [i \in DOMAIN number[r] |->
                         IF i \in DOMAIN back THEN back[i] ELSE number[r][i]]
           L == Local(mesh, r)
           o(i) == canon.owners[r][i]
<1>1. /\ pc[r] = "answer" /\ net[In(r)] # <<>>
      /\ number' = [number EXCEPT ![r] = numbers]
      /\ NextRound(r, "ask", IF Distinct(numbers) THEN "done" ELSE "error")
  BY DEF ReturnAnswer, Receive
<1>2. GivenInv /\ ControlTypes /\ NumbersInv(r) BY DEF RenumberInv, RankInv
<1>3. back = Answer(d, r) /\ d \in Rank \ {r} BY <1>1, AnswerArrives
<1>4. DOMAIN number[r] = L BY <1>2 DEF NumbersInv
<1>5. round[r] \in 1 .. (P - 1) BY <1>2 DEF ControlTypes
<1>6. \A i \in L : i \in DOMAIN back <=> o(i) = d BY <1>3 DEF Answer, GivenTo
<1>7. \A i \in L : o(i) = d => back[i] = Canonical(canon, r, i)
  BY <1>3 DEF Answer, GivenTo
<1>8. \A i \in L : o(i) = r \/ RoundFor(r, o(i)) < round[r] =>
        number[r][i] = Canonical(canon, r, i)
  BY <1>1, <1>2 DEF NumbersInv, Settled
<1>9. \A i \in L : o(i) \in Rank BY <1>2, CanonWins DEF Wins, Holders
<1>10. \A i \in L : o(i) # r =>
         RoundFor(r, o(i)) \in 1 .. (P - 1) /\ (o(i) = d <=> RoundFor(r, o(i)) = round[r])
  BY <1>5, <1>9, RoundOfPartner
<1> HIDE DEF d, back, o
<1>11. ASSUME NEW i \in L, o(i) = r \/ RoundFor(r, o(i)) <= round[r]
       PROVE  numbers[i] = Canonical(canon, r, i)
  <2>1. o(i) = r \/ RoundFor(r, o(i)) < round[r] \/ o(i) = d
    BY <1>5, <1>10, <1>11
  <2> QED BY <1>4, <1>6, <1>7, <1>8, <2>1
<1>12. LastRound(r) => Distinct(numbers)
  <2> SUFFICES ASSUME LastRound(r), NEW i \in L, NEW k \in L, numbers[i] = numbers[k]
               PROVE  i = k
    BY <1>4 DEF Distinct
  <2>1. \A j \in L : o(j) = r \/ RoundFor(r, o(j)) <= round[r]
    BY <1>10, PAssumption DEF LastRound
  <2>2. Canonical(canon, r, i) = Canonical(canon, r, k) BY <1>11, <2>1
  <2>3. i \in Local(canon, r) /\ k \in Local(canon, r) /\ Consistent(canon, Rank)
    BY <1>2, CanonConsistent
  <2>4. canon.ids[r][i] = canon.ids[r][k] BY <2>2, <2>3, CanonicalSeparates
  <2> QED BY <2>3, <2>4 DEF Consistent
<1>13. NextRound(r, "ask", "done") BY <1>1, <1>12 DEF NextRound
<1>14. /\ number'[r] = numbers /\ DOMAIN number' = Rank
       /\ \A q \in Rank \ {r} : number'[q] = number[q]
  <2> HIDE DEF numbers
  <2> QED BY <1>1, <1>2 DEF ControlTypes
<1>15. numbers = [i \in L |-> numbers[i]] BY <1>4
<1> HIDE DEF numbers
<1> QED BY <1>11, <1>13, <1>14, <1>15 DEF o

LEMMA ReturnAnswerInv ==
  ASSUME RenumberInv, NEW r \in Rank, ReturnAnswer(r)
  PROVE  RenumberInv'
<1> DEFINE d == Dst(r, round[r])
<1>1. /\ pc[r] = "answer" /\ net[In(r)] # <<>> /\ Receive(r) /\ Given' = Given
      /\ UNCHANGED <<coll, vote, owner, shared, remote, offset, sendbuf, reply>>
  BY DEF ReturnAnswer, Receive, Given, elected, buffers
<1>2. GivenInv /\ ControlTypes /\ ChannelsInv /\ ScanInv /\ RankInv(r)
  BY DEF RenumberInv
<1>3. /\ In(r) = <<d, r, 2>> /\ d \in Rank \ {r}
      /\ Tail(net[<<d, r, 2>>]) \in Seq({Answer(d, r)})
  BY <1>1, AnswerArrives
<1>4. /\ NextRound(r, "ask", "done") /\ DOMAIN number' = Rank
      /\ \A q \in Rank \ {r} : number'[q] = number[q]
  BY ReturnAnswerNumbers
<1> HIDE DEF d
<1>5. Took(d, r, 2)
  <2>1. 2 \in Tag BY DEF Tag
  <2> QED BY <1>1, <1>2, <1>3, <2>1, Received
<1>6. /\ pc' \in [Rank -> Stage \ {"error"}] /\ round' \in [Rank -> 1 .. (P - 1)]
      /\ \A q \in Rank \ {r} : pc'[q] = pc[q] /\ round'[q] = round[q]
      /\ \/ LastRound(r) /\ pc'[r] = "done" /\ round'[r] = 1
         \/ ~LastRound(r) /\ pc'[r] = "ask" /\ round'[r] = round[r] + 1
  <2>1. "ask" \in Stage \ {"error"} /\ "done" \in Stage \ {"error"} BY DEF Stage, Ring
  <2> QED BY <1>2, <1>4, <2>1, Advanced DEF ControlTypes
<1>7. ~posted'[r] /\ \A q \in Rank \ {r} : posted'[q] = posted[q]
  BY <1>5 DEF Took
<1>8. Voted(r) /\ Voted(r)' BY <1>1, <1>6 DEF Voted, Voting
<1>9. \A q \in Rank : Heard(q)' = Heard(q)
  <2>1. Heard(r)' = Heard(r) BY <1>8 DEF Heard
  <2> QED BY <1>6, <1>7, <2>1, OthersSame
<1>10. \A q \in Rank : \A b : VotesSent(q, b)' <=> VotesSent(q, b)
  BY <1>6, <1>7, <1>8, OthersSame DEF VotesSent
<1>11. ASSUME NEW a \in Rank, NEW b \in Rank, a # b
       PROVE  FirstChannel(a, b)' /\ net'[<<a, b, 2>>] \in Seq({Answer(a, b)'})
  <2>1. FirstChannel(a, b) /\ net[<<a, b, 2>>] \in Seq({Answer(a, b)})
    BY <1>2, <1>11 DEF ChannelsInv
  <2>2. net'[<<a, b, 1>>] = net[<<a, b, 1>>]
    <3>1. 1 \in Tag /\ <<a, b, 1>> # <<d, r, 2>> BY DEF Tag
    <3> QED BY <1>5, <3>1 DEF Took
  <2>3. FirstChannel(a, b)' BY <1>1, <1>9, <1>10, <2>1, <2>2, FirstChannelSame
  <2>4. net'[<<a, b, 2>>] \in Seq({Answer(a, b)})
    <3>1. CASE a = d /\ b = r BY <1>3, <1>5, <3>1 DEF Took
    <3>2. CASE ~(a = d /\ b = r) BY <1>5, <2>1, <3>2 DEF Took, Tag
    <3> QED BY <3>1, <3>2
  <2> QED BY <1>1, <2>3, <2>4, GivenFixed
<1>12. ChannelsInv' BY <1>11 DEF ChannelsInv
<1>13. ScanInv' BY <1>1, <1>2, ScanFixed
<1>14. ControlTypes' BY <1>1, <1>2, <1>4, <1>5, <1>6 DEF ControlTypes, Took
<1>15. RankInv(r)'
  <2>1. ControlInv(r)'
    BY <1>6, <1>7 DEF ControlInv, Ring
  <2>2. ElectionInv(r)' BY <1>1, <1>2, <1>6, <1>9, ElectionFrame DEF RankInv
  <2>3. NumbersInv(r)'
    <3>1. mesh' = mesh /\ canon' = canon BY <1>1, GivenFixed
    <3>2. offset'[r] = Below(canon, r) BY <1>1, <1>2 DEF RankInv, NumbersInv
    <3>3. number'[r] = [i \in Local(mesh, r) |-> number'[r][i]] BY ReturnAnswerNumbers
    <3>4. ASSUME NEW i \in Local(mesh, r), Settled(r, i)'
          PROVE  number'[r][i] = Canonical(canon, r, i)
      <4> DEFINE o == canon.owners[r][i]
      <4>1. o \in Rank BY <1>2, CanonWins DEF Wins, Holders
      <4>2. o # r => RoundFor(r, o) \in 1 .. (P - 1) BY <4>1, RoundOfPartner
      <4>3. round[r] \in 1 .. (P - 1) BY <1>2 DEF ControlTypes
      <4>4. o = r \/ pc'[r] = "done" \/ RoundFor(r, o) < round'[r]
        BY <3>1, <3>4 DEF Settled
      <4>5. o = r \/ RoundFor(r, o) <= round[r]
        <5> HIDE DEF o
        <5> QED BY <1>6, <4>2, <4>3, <4>4, PAssumption DEF LastRound
      <4> QED BY <4>5, ReturnAnswerNumbers
    <3> QED BY <3>1, <3>2, <3>3, <3>4 DEF NumbersInv
  <2>4. BuffersInv(r)' BY <1>1, <1>2, <1>6, GivenFixed DEF RankInv, BuffersInv
  <2> QED BY <2>1, <2>2, <2>3, <2>4 DEF RankInv
<1> QED BY <1>1, <1>4, <1>6, <1>7, <1>12, <1>13, <1>14, <1>15, Assembled

------------------------------------------------------------------------------
(* The theorems *)

LEMMA NextInv == RenumberInv /\ [Next]_vars => RenumberInv'
<1> SUFFICES ASSUME RenumberInv, [Next]_vars PROVE RenumberInv' OBVIOUS
<1>1. CASE UNCHANGED vars
  <2>1. PICK r \in Rank : TRUE BY PAssumption DEF Rank
  <2>2. /\ Given' = Given
        /\ UNCHANGED <<pc, round, posted, net, coll, vote, owner, shared, remote,
                       number, offset, sendbuf, reply>>
    BY <1>1 DEF vars, mpi, elected, numbered, buffers, Given
  <2>3. ControlTypes /\ ChannelsInv /\ ScanInv /\ RankInv(r) BY DEF RenumberInv
  <2>4. \A q \in Rank : Voted(q)' <=> Voted(q) BY <2>2 DEF Voted
  <2>5. ChannelsInv' BY <2>2, <2>3, <2>4, HeardSame, SentSame, ChannelsFixed
  <2>6. ScanInv' BY <2>2, <2>3, ScanFixed
  <2>7. ControlTypes' BY <2>2, <2>3 DEF ControlTypes
  <2>8. RankInv(r)' BY <2>2, <2>3, RankFrame
  <2> QED BY <2>2, <2>5, <2>6, <2>7, <2>8, Assembled
<1>2. ASSUME NEW r \in Rank, Step(r) PROVE RenumberInv'
  BY <1>2, StartVotesInv, EndVotesMaxInv, StartRangeInv, EndScanInv, StartAskInv,
     PostInv, ReturnVotesInv, ReturnAskInv, ReturnAnswerInv DEF Step
<1> QED BY <1>1, <1>2 DEF Next, Rest

(* The inductive invariant of renumber(), for every number of ranks, every *)
(* mesh and every draw of the votes.                                       *)
THEOREM RenumberInvariant == Spec => []RenumberInv
BY InitInv, NextInv, PTL DEF Spec

(* No rank is asked for what it does not own or share, and no two entities *)
(* of a rank get one number: neither error of renumber() and finalize() is *)
(* ever thrown.                                                            *)
THEOREM NeverFails == Spec => [](\A r \in Rank : pc[r] # "error")
<1>1. RenumberInv => \A r \in Rank : pc[r] # "error" BY DEF RenumberInv, ControlTypes
<1> QED BY <1>1, RenumberInvariant, PTL

(* After the votes an entity is shared with exactly the other ranks that   *)
(* hold it, whatever else its vertices are adjacent to.                    *)
THEOREM SharingIsExact == Spec => []SharedExact
<1>1. RenumberInv => SharedExact BY ElectionResult DEF SharedExact
<1> QED BY <1>1, RenumberInvariant, PTL

(* The entities that a rank is asked for are among those it shares and     *)
(* owns, and none is asked for twice: the buffer has room for them.        *)
LEMMA QuestionFits ==
  ASSUME RenumberInv, NEW r \in Rank, pc[r] = "ask", net[In(r)] # <<>>
  PROVE  Cardinality(DOMAIN Message(r)) <= Cardinality(Shared(r)) - Cardinality(Ghosts(r))
<1> DEFINE s == Src(r, round[r])
           place(k) == PlaceIn(mesh, r, mesh.ids[s][k])
           F == [k \in GivenTo(s, r) |-> place(k)]
           A == GivenTo(s, r)
           T == Shared(r) \ Ghosts(r)
<1>1. GivenInv /\ Voted(r) BY DEF RenumberInv, Voted, Voting
<1>2. Message(r) = Question(s, r) /\ s \in Rank \ {r} BY QuestionArrives
<1>3. DOMAIN Message(r) = A BY <1>2 DEF Question
<1>4. \A k \in A : /\ k \in Local(mesh, s) /\ place(k) \in Local(mesh, r)
                   /\ mesh.ids[r][place(k)] = mesh.ids[s][k]
                   /\ s \in shared[r][place(k)] /\ owner[r][place(k)] = r
  BY <1>1, <1>2, PlaceGiven
<1> HIDE DEF s, place, A
<1>5. IsFiniteSet(Local(mesh, r))
  <2>1. mesh.size[r] \in Nat BY <1>1, GivenMesh DEF WellFormedMesh
  <2>2. 0 \in Int /\ mesh.size[r] - 1 \in Int BY <2>1
  <2> QED BY <2>2, FS_Interval DEF Local
<1>6. /\ Shared(r) \subseteq Local(mesh, r) /\ Ghosts(r) \subseteq Shared(r)
  <2>1. \A i \in Local(mesh, r) : owner[r][i] = P <=> shared[r][i] = {}
    BY <1>1, ElectionResult
  <2> QED BY <2>1 DEF Shared, Ghosts
<1>7. IsFiniteSet(Shared(r)) /\ IsFiniteSet(T) BY <1>5, <1>6, FS_Subset
<1>8. Cardinality(T) = Cardinality(Shared(r)) - Cardinality(Ghosts(r))
  <2>1. Shared(r) \cap Ghosts(r) = Ghosts(r) BY <1>6
  <2> QED BY <1>7, <2>1, FS_Difference
<1>9. F \in Injection(A, T)
  <2>1. \A k \in A : place(k) \in T BY <1>4 DEF Shared, Ghosts
  <2>2. ASSUME NEW j \in A, NEW k \in A, place(j) = place(k) PROVE j = k
    BY <1>1, <1>2, <1>4, <2>2, DistinctKeys
  <2>3. F = [k \in A |-> place(k)] BY DEF A
  <2> HIDE DEF F, T
  <2> QED BY <2>1, <2>2, <2>3 DEF Injection, IsInjective
<1> HIDE DEF F, T
<1>10. Cardinality(A) <= Cardinality(T) BY <1>7, <1>9, FS_Injection
<1> QED BY <1>3, <1>8, <1>10

THEOREM NoRankIsOverrun == Spec => []QuestionsFit
<1>1. RenumberInv => QuestionsFit BY QuestionFits DEF QuestionsFit
<1> QED BY <1>1, RenumberInvariant, PTL

------------------------------------------------------------------------------
(* The refinement of GlobalNumbering *)

(* The definitions of the abstract specification's copy of MeshLayout are  *)
(* those used here.                                                        *)
LEMMA SameLayout ==
  /\ Published!Rank = Rank
  /\ \A L, r : Published!Local(L, r) = Local(L, r)
  /\ \A L, r, i : Published!Canonical(L, r, i) = Canonical(L, r, i)
<1>1. \A S : Published!Cardinality(S) = Cardinality(S)
  BY DEF Published!Cardinality, Cardinality
<1>2. \A f, n : Published!SumOf(f, n) = SumOf(f, n) BY DEF Published!SumOf, SumOf
<1>3. \A L, r : Published!Local(L, r) = Local(L, r) BY DEF Published!Local, Local
<1>4. \A L, r : Published!Owned(L, r) = Owned(L, r)
  BY <1>3 DEF Published!Owned, Owned
<1>5. \A L, r : Published!Below(L, r) = Below(L, r)
  BY <1>1, <1>2, <1>4 DEF Published!Below, Below
<1>6. \A L, r, i : Published!Canonical(L, r, i) = Canonical(L, r, i)
  BY <1>1, <1>3, <1>4, <1>5 DEF Published!Canonical, Canonical
<1>7. Published!Rank = Rank BY DEF Published!Rank, Rank
<1> QED BY <1>3, <1>6, <1>7

(* The refinement mapping. *)
published == [r \in Rank |-> pc[r] = "done"]
numbers == [r \in Rank |-> IF pc[r] = "done" THEN number[r] ELSE mesh.ids[r]]

LEMMA InitRefines == Init => Published!Init
<1> SUFFICES ASSUME Init PROVE Published!Init OBVIOUS
<1>1. GivenInv BY DEF Init, GivenInv
<1>2. canon \in ElectedLayouts BY <1>1 DEF GivenInv, ElectedLayouts
<1>3. \A r \in Rank : pc[r] = "start" BY DEF Init
<1>4. published = [r \in Rank |-> FALSE] BY <1>3 DEF published
<1>5. numbers = canon.ids
  <2>1. numbers = [r \in Rank |-> mesh.ids[r]] BY <1>3 DEF numbers
  <2>2. mesh.ids = [r \in Rank |-> mesh.ids[r]] BY <1>1, GivenMesh DEF WellFormedMesh
  <2> QED BY <1>1, <2>1, <2>2, CanonConsistent
<1> QED BY <1>2, <1>4, <1>5, SameLayout DEF Published!Init, published, numbers

(* A step leaves the numbers of the other ranks alone, and a rank that is  *)
(* done makes none.                                                        *)
LEMMA StepIsLocal ==
  ASSUME RenumberInv, NEW r \in Rank, Step(r)
  PROVE  /\ mesh' = mesh /\ canon' = canon /\ pc[r] # "done"
         /\ \A q \in Rank \ {r} : pc'[q] = pc[q] /\ number'[q] = number[q]
<1> DEFINE Goal == /\ mesh' = mesh /\ canon' = canon /\ pc[r] # "done"
                   /\ \A q \in Rank \ {r} : pc'[q] = pc[q] /\ number'[q] = number[q]
<1>1. ControlTypes BY DEF RenumberInv
<1>2. ASSUME StartVotes(r) PROVE Goal BY <1>1, <1>2 DEF StartVotes, ControlTypes, numbered
<1>3. ASSUME EndVotesMax(r) PROVE Goal BY <1>1, <1>3
    DEF EndVotesMax, ControlTypes, numbered
<1>4. ASSUME StartRange(r) PROVE Goal BY <1>1, <1>4 DEF StartRange, ControlTypes, numbered
<1>5. ASSUME EndScan(r) PROVE Goal BY <1>1, <1>5 DEF EndScan, ControlTypes
<1>6. ASSUME StartAsk(r) PROVE Goal BY <1>1, <1>6 DEF StartAsk, ControlTypes
<1>7. ASSUME Post(r) PROVE Goal BY <1>7 DEF Post, Ring, numbered
<1>8. ASSUME ReturnVotes(r) PROVE Goal
  <2>1. /\ pc[r] = "votes" /\ NextRound(r, "votes", "voted")
        /\ mesh' = mesh /\ canon' = canon /\ number' = number
    BY <1>8 DEF ReturnVotes, numbered
  <2> QED BY <1>1, <2>1 DEF ControlTypes, NextRound
<1>9. ASSUME ReturnAsk(r) PROVE Goal
  <2>1. pc[r] = "ask" /\ mesh' = mesh /\ canon' = canon /\ number' = number
    BY <1>9 DEF ReturnAsk, numbered
  <2>2. pc' = [pc EXCEPT ![r] = "answer"] BY <1>9, ReturnAskReply
  <2> QED BY <1>1, <2>1, <2>2 DEF ControlTypes
<1>10. ASSUME ReturnAnswer(r) PROVE Goal
  <2>1. pc[r] = "answer" /\ mesh' = mesh /\ canon' = canon BY <1>10 DEF ReturnAnswer
  <2>2. NextRound(r, "ask", "done") BY <1>10, ReturnAnswerNumbers
  <2>3. \A q \in Rank \ {r} : number'[q] = number[q] BY <1>10, ReturnAnswerNumbers
  <2> QED BY <1>1, <2>1, <2>2, <2>3 DEF ControlTypes, NextRound
<1> HIDE DEF Goal
<1>11. Goal
  BY <1>2, <1>3, <1>4, <1>5, <1>6, <1>7, <1>8, <1>9, <1>10 DEF Step
<1> QED BY <1>11 DEF Goal

LEMMA NextRefines ==
  RenumberInv /\ RenumberInv' /\ [Next]_vars => [Published!Next]_Published!vars
<1> SUFFICES ASSUME RenumberInv, RenumberInv', [Next]_vars
             PROVE  [Published!Next]_Published!vars
  OBVIOUS
<1>1. CASE UNCHANGED vars
  <2>1. canon' = canon /\ published' = published /\ numbers' = numbers
    BY <1>1 DEF vars, numbered, published, numbers
  <2> QED BY <2>1 DEF Published!vars, published, numbers
<1>2. ASSUME NEW r \in Rank, Step(r) PROVE [Published!Next]_Published!vars
  <2>1. /\ mesh' = mesh /\ canon' = canon /\ pc[r] # "done"
        /\ \A q \in Rank \ {r} : pc'[q] = pc[q] /\ number'[q] = number[q]
    BY <1>2, StepIsLocal
  <2>2. CASE pc'[r] # "done"
    <3>1. published' = published BY <2>1, <2>2 DEF published
    <3>2. numbers' = numbers BY <2>1, <2>2 DEF numbers
    <3> QED BY <2>1, <3>1, <3>2 DEF Published!vars, published, numbers
  <2>3. CASE pc'[r] = "done"
    <3>1. ~published[r] /\ published' = [published EXCEPT ![r] = TRUE]
      BY <2>1, <2>3 DEF published
    <3>2. number'[r] = [i \in Local(canon, r) |-> Canonical(canon, r, i)]
      <4>1. NumbersInv(r)' BY DEF RenumberInv, RankInv
      <4>2. number'[r] = [i \in Local(mesh, r) |-> number'[r][i]]
        BY <2>1, <4>1 DEF NumbersInv
      <4>3. \A i \in Local(mesh, r) : number'[r][i] = Canonical(canon, r, i)
        BY <2>1, <2>3, <4>1 DEF NumbersInv, Settled
      <4>4. Local(canon, r) = Local(mesh, r) BY CanonConsistent DEF RenumberInv
      <4> QED BY <4>2, <4>3, <4>4
    <3>3. numbers' = [numbers EXCEPT ![r] =
                        [i \in Local(canon, r) |-> Canonical(canon, r, i)]]
      BY <2>1, <2>3, <3>2 DEF numbers
    <3>4. Published!Publish(r)
      BY <2>1, <3>1, <3>3, SameLayout DEF Published!Publish, published, numbers
    <3> QED BY <3>4, SameLayout DEF Published!Next
  <2> QED BY <2>2, <2>3
<1> QED BY <1>1, <1>2 DEF Next, Rest

(* renumber() implements GlobalNumbering on the layout that the votes      *)
(* elect: each rank goes to its canonical numbering, and to nothing else.  *)
THEOREM Implements == Spec => Refinement
<1>1. Init => Published!Init BY InitRefines
<1>2. RenumberInv /\ RenumberInv' /\ [Next]_vars => [Published!Next]_Published!vars
  BY NextRefines
<1> QED BY <1>1, <1>2, RenumberInvariant, PTL DEF Spec, Published!Spec, Refinement
==============================================================================
