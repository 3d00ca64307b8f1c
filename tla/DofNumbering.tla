----------------------------- MODULE DofNumbering -----------------------------
(***************************************************************************)
(* The numbers of the degrees of freedom, when a form builds the dof map   *)
(* of its rows and then that of its columns on one distributed mesh.       *)
(* UFC numbers dofs by mesh entities; DofNumbering::build() gives each dof *)
(* to one rank and numbers what a rank owns in one interval.  With         *)
(* Parallel0Numbering ("votes") the ranks draw votes for the dofs on the   *)
(* boundary between them; with Parallel1Numbering ("entities") a dof       *)
(* belongs to the owner of its mesh entity.                                *)
(***************************************************************************)
EXTENDS RingExchange

CONSTANT Spaces \* the meshes with their dofs, see WellFormedSpace

(***************************************************************************)
(* On each rank the cells, each as the sequence of its dofs, and the dofs  *)
(* of the facets on the boundary to other ranks as they are met in the     *)
(* order of the boundary cells; the owner of the mesh entity of each dof;  *)
(* what std::rand() gives after std::srand(MPI::seed()); the place of a    *)
(* dof in the order of the hash sets; the two numberings.                  *)
(***************************************************************************)
DofsOf(s, r) == UNION {ToSet(c) : c \in ToSet(s.cells[r])}
HoldersOf(s, d) == {q \in Rank : d \in DofsOf(s, q)}
Dofs(s) == UNION {DofsOf(s, r) : r \in Rank}

WellFormedSpace(s) ==
  /\ s.kind \in [1 .. 2 -> {"votes", "entities"}]
  /\ IsFiniteSet(Dofs(s))
  /\ \A d \in Dofs(s) : s.owner[d] \in HoldersOf(s, d) /\ s.place[d] \in Nat
  /\ \A d, e \in Dofs(s) : s.place[d] = s.place[e] => d = e
  /\ \A r \in Rank :
       /\ s.boundary[r] \in Seq({d \in DofsOf(s, r) : HoldersOf(s, d) # {r}})
       /\ \A d \in DofsOf(s, r) : HoldersOf(s, d) # {r} => d \in ToSet(s.boundary[r])
       /\ \A n \in 1 .. Len(s.boundary[r]) : s.rand[r][n] \in Nat

ASSUME SpacesAssumption == \A s \in Spaces : WellFormedSpace(s)

VARIABLES
  space,     \* what is numbered; never changes
  pc,        \* where a rank is, see Stage
  map,       \* the dof map it builds: 1 for the rows, 2 for the columns
  drawn,     \* how many numbers std::rand() has given since std::srand()
  ufcShared, \* ufc_shared
  ufcGhosts, \* ufc_ghosts
  array,     \* array of each dof map: the number of each dof
  range,     \* offset() and size() of each dof map
  shared,    \* shared_
  ghosts,    \* ghosts_
  sendbuf,   \* pairs of a dof with a vote, then with its number
  recvmax    \* max_recv

flags == <<ufcShared, ufcGhosts>>
numbers == <<array, range, shared, ghosts>>
buffers == <<sendbuf, recvmax>>
numbering == <<space, map, drawn, flags, numbers>>

Unset == -1
NumberingReductions == {"votes max", "offset", "numbers max"} \X (1 .. 2)
NumberingRings == {"votes", "numbers"}
Numbering == {"start", "votes max", "owned", "offset", "numbers max", "numbered", "error"}
               \cup NumberingRings

NumberingInit ==
  /\ space \in Spaces
  /\ pc = [r \in Rank |-> "start"]
  /\ map = [r \in Rank |-> 1]
  /\ drawn = [r \in Rank |-> 0]
  /\ ufcShared = [r \in Rank |-> {}]
  /\ ufcGhosts = [r \in Rank |-> {}]
  /\ array = [r \in Rank |-> [b \in 1 .. 2 |-> [d \in DofsOf(space, r) |-> Unset]]]
  /\ range = [r \in Rank |-> [b \in 1 .. 2 |-> [offset |-> 0, size |-> 0]]]
  /\ shared = [r \in Rank |-> [b \in 1 .. 2 |-> {}]]
  /\ ghosts = [r \in Rank |-> [b \in 1 .. 2 |-> {}]]
  /\ sendbuf = [r \in Rank |-> <<>>]
  /\ recvmax = [r \in Rank |-> 0]

Kind(r) == space.kind[map[r]]

(* A message gives each of some dofs a vote or a number, two entries each. *)
SizeOf(b) == 2 * Cardinality(DOMAIN b)

------------------------------------------------------------------------------
(* Parallel0Numbering: the election *)

(* Where a dof of the interior boundary is met for the first time.         *)
Fresh(r) ==
  {i \in DOMAIN space.boundary[r] :
     \A j \in 1 .. (i - 1) : space.boundary[r][j] # space.boundary[r][i]}

(* mutant: the generator goes on where the last numbering left it *)
FirstDrawOn(r) == drawn[r]

(* std::srand() starts the generator again for every numbering.            *)
FirstDraw(r) == 0

(* Each is given the next number that is drawn.                            *)
Vote(r, d) ==
  LET i == CHOOSE i \in Fresh(r) : space.boundary[r][i] = d
  IN  space.rand[r][FirstDraw(r) + Cardinality({j \in Fresh(r) : j <= i})] + r

StartVotes(r) ==
  LET met == ToSet(space.boundary[r])
      votes == [d \in met |-> Vote(r, d)]
  IN  /\ pc[r] = "start" /\ Kind(r) = "votes"
      /\ drawn' = [drawn EXCEPT ![r] = FirstDraw(r) + Cardinality(met)]
      /\ ufcShared' = [ufcShared EXCEPT ![r] = met]
      /\ ufcGhosts' = [ufcGhosts EXCEPT ![r] = {}]
      /\ sendbuf' = [sendbuf EXCEPT ![r] = votes]
      /\ Contribute(<<"votes max", map[r]>>, r, SizeOf(votes))
      /\ pc' = [pc EXCEPT ![r] = "votes max"]
      /\ UNCHANGED <<space, map, round, posted, net, numbers, recvmax>>

(* mutant: the length of the own message is taken for the longest          *)
LongestOwn(r, c) == coll[c][r]

(* The buffer of a ring is as long as the longest message any rank sends.  *)
Longest(r, c) == MaxOf({coll[c][q] : q \in Rank})

EndMax(r, c, next) ==
  /\ pc[r] = c[1] /\ Reduced(c)
  /\ recvmax' = [recvmax EXCEPT ![r] = Longest(r, c)]
  /\ pc' = [pc EXCEPT ![r] = next]
  /\ UNCHANGED <<numbering, mpi, sendbuf>>

EndVotesMax(r) == EndMax(r, <<"votes max", map[r]>>, "votes")

NumberingSend(r) ==
  /\ pc[r] \in NumberingRings
  /\ Send(r, Dst(r, round[r]), 1, sendbuf[r])
  /\ UNCHANGED <<numbering, pc, round, coll, buffers>>

From(r) == Src(r, round[r])
Message(r) == Arriving(r, From(r), 1)

(* mutant: on a tie both ranks keep the dof *)
LosesStrictly(vote, r, other, q) == other < vote

(* The smaller vote has the dof, the lower rank on a tie.                  *)
Loses(vote, r, other, q) == other < vote \/ (other = vote /\ q < r)

ReturnVotes(r) ==
  LET lost == {d \in ufcShared[r] \cap DOMAIN Message(r) :
                 Loses(sendbuf[r][d], r, Message(r)[d], From(r))}
  IN  /\ pc[r] = "votes"
      /\ Recv(r, From(r), 1)
      /\ ufcGhosts' = [ufcGhosts EXCEPT ![r] = @ \cup lost]
      /\ ufcShared' = [ufcShared EXCEPT ![r] = @ \ lost]
      /\ NextRound(r)
      /\ pc' = [pc EXCEPT ![r] = IF LastRound(r) THEN "owned" ELSE "votes"]
      /\ UNCHANGED <<space, map, drawn, coll, numbers, buffers>>

------------------------------------------------------------------------------
(* Parallel1Numbering: the owners of the mesh entities *)

SharedEntities(r) == {d \in DofsOf(space, r) : HoldersOf(space, d) # {r}}

StartEntities(r) ==
  LET there == {d \in SharedEntities(r) : space.owner[d] # r}
  IN  /\ pc[r] = "start" /\ Kind(r) = "entities"
      /\ ufcGhosts' = [ufcGhosts EXCEPT ![r] = there]
      /\ ufcShared' = [ufcShared EXCEPT ![r] = SharedEntities(r) \ there]
      /\ pc' = [pc EXCEPT ![r] = "owned"]
      /\ UNCHANGED <<space, map, drawn, mpi, numbers, buffers>>

------------------------------------------------------------------------------
(* Both: the owned dofs are numbered, the ghosts are told *)

OwnedDofs(r) == DofsOf(space, r) \ ufcGhosts[r]

StartOffset(r) ==
  /\ pc[r] = "owned"
  /\ Contribute(<<"offset", map[r]>>, r, Cardinality(OwnedDofs(r)))
  /\ pc' = [pc EXCEPT ![r] = "offset"]
  /\ UNCHANGED <<numbering, round, posted, net, buffers>>

(* The iteration order of the hash set owned gives the numbers.            *)
EndOffset(r) ==
  LET b == map[r]
      c == <<"offset", b>>
      here == OwnedDofs(r)
      offset == SumOf([q \in 0 .. (r - 1) |-> coll[c][q]], r)
      number(d) == offset + Cardinality({e \in here : space.place[e] < space.place[d]})
      told == [d \in here \cap ufcShared[r] |-> number(d)]
  IN  /\ pc[r] = "offset" /\ Scanned(c, r)
      /\ range' = [range EXCEPT ![r][b] = [offset |-> offset, size |-> Cardinality(here)]]
      /\ array' = [array EXCEPT ![r][b] = [d \in DofsOf(space, r) |->
                     IF d \in here THEN number(d) ELSE array[r][b][d]]]
      /\ shared' = [shared EXCEPT ![r][b] = {told[d] : d \in DOMAIN told}]
      /\ ghosts' = [ghosts EXCEPT ![r][b] = {}]
      /\ sendbuf' = [sendbuf EXCEPT ![r] = told]
      /\ Contribute(<<"numbers max", b>>, r, SizeOf(told))
      /\ pc' = [pc EXCEPT ![r] = "numbers max"]
      /\ UNCHANGED <<space, map, drawn, round, posted, net, flags, recvmax>>

EndNumbersMax(r) == EndMax(r, <<"numbers max", map[r]>>, "numbers")

ReturnNumbers(r) ==
  LET b == map[r]
      known == ufcGhosts[r] \cap DOMAIN Message(r)
      new == {Message(r)[d] : d \in known}
  IN  /\ pc[r] = "numbers"
      /\ Recv(r, From(r), 1)
      /\ array' = [array EXCEPT ![r][b] = [d \in DofsOf(space, r) |->
                     IF d \in known THEN Message(r)[d] ELSE array[r][b][d]]]
      /\ ufcGhosts' = [ufcGhosts EXCEPT ![r] = @ \ known]
      /\ ghosts' = [ghosts EXCEPT ![r][b] = @ \cup new]
      /\ shared' = [shared EXCEPT ![r][b] = @ \cup new]
      /\ NextRound(r)
      /\ pc' = [pc EXCEPT ![r] = IF LastRound(r) THEN "numbered" ELSE "numbers"]
      /\ UNCHANGED <<space, map, drawn, coll, ufcShared, range, buffers>>

(* Parallel1Numbering throws when the ghosts or the shared dofs are not as *)
(* many as the mesh says.                                                  *)
CountsMatch(r) ==
  /\ Cardinality(ghosts[r][map[r]])
       = Cardinality({d \in SharedEntities(r) : space.owner[d] # r})
  /\ Cardinality(shared[r][map[r]]) = Cardinality(SharedEntities(r))

Return(r) ==
  /\ pc[r] = "numbered"
  /\ pc' = [pc EXCEPT ![r] =
       IF Kind(r) = "entities" /\ ~CountsMatch(r) THEN "error"
       ELSE IF map[r] = 1 THEN "start" ELSE "built"]
  /\ map' = [map EXCEPT ![r] = 2]
  /\ UNCHANGED <<space, drawn, mpi, flags, numbers, buffers>>

------------------------------------------------------------------------------
NumberingStep(r) ==
  \/ StartVotes(r) \/ EndVotesMax(r) \/ ReturnVotes(r) \/ StartEntities(r)
  \/ StartOffset(r) \/ EndOffset(r) \/ EndNumbersMax(r)
  \/ NumberingSend(r) \/ ReturnNumbers(r) \/ Return(r)

------------------------------------------------------------------------------
(* Properties *)

(* The rank r has built the dof map b.                                     *)
Has(r, b) == map[r] > b \/ (map[r] = b /\ pc[r] \notin Numbering)
AllHave(b) == \A r \in Rank : Has(r, b)

InRange(r, b, n) == range[r][b].offset <= n /\ n < range[r][b].offset + range[r][b].size

(* A dof has one number on all the ranks that hold it and no two dofs have *)
(* the same; the numbers have no gap; just one of the holders has the      *)
(* number in its range, to the others it is a ghost, and it is shared on   *)
(* all of them when there are several and on none when there is one.       *)
NumbersAgree ==
  \A b \in 1 .. 2 : AllHave(b) =>
    LET number(d) == array[CHOOSE q \in Rank : q \in HoldersOf(space, d)][b][d]
    IN  /\ {number(d) : d \in Dofs(space)} = 0 .. (Cardinality(Dofs(space)) - 1)
        /\ \A d \in Dofs(space) :
             LET n == number(d)
                 holders == HoldersOf(space, d)
             IN  /\ Cardinality({r \in holders : InRange(r, b, n)}) = 1
                 /\ \A r \in holders :
                      /\ array[r][b][d] = n
                      /\ n \in ghosts[r][b] <=> ~InRange(r, b, n)
                      /\ n \in shared[r][b] <=> holders # {r}

(* Two numberings of one mesh by votes are the same, on every rank: a      *)
(* matrix built with the one is assembled with the other.                  *)
SameAgain ==
  \A r \in Rank : Has(r, 2) /\ space.kind = [b \in 1 .. 2 |-> "votes"] =>
    /\ array[r][1] = array[r][2] /\ range[r][1] = range[r][2]
    /\ ghosts[r][1] = ghosts[r][2] /\ shared[r][1] = shared[r][2]
==============================================================================
