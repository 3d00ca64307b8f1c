----------------------------- MODULE MeshRenumber -----------------------------
(***************************************************************************)
(* The numbering of the edges or faces of a distributed mesh.  Nothing is  *)
(* known of them but their vertices, whose numbers and adjacent ranks are  *)
(* settled: MeshRenumber::renumber() elects one owner for each entity by   *)
(* random votes, then each rank numbers what it owns and asks the owners   *)
(* for the rest.                                                           *)
(*                                                                         *)
(* Ranks meet in MPI reductions and in two rings of P - 1 rounds, as in    *)
(* DistributedData.  A buffer is a function from the local indices it was  *)
(* built from to what it carries; an answer has the positions of its       *)
(* question.                                                               *)
(***************************************************************************)
EXTENDS MeshLayout, Sequences

CONSTANTS
  Meshes,    \* the meshes the client may have distributed
  Draws      \* for each mesh, what std::rand() may give the ranks for its entities

(***************************************************************************)
(* On each rank: size[r] entities of the dimension, the vertices of each,  *)
(* and the adjacent ranks of each vertex (none when it is not shared).     *)
(***************************************************************************)
WellFormedMesh(m) ==
  /\ m.ids = [r \in Rank |-> m.ids[r]]
  /\ \A r \in Rank :
       /\ m.size[r] \in Nat
       /\ \A v \in DOMAIN m.adj[r] :
            m.adj[r][v] = {q \in Rank \ {r} : v \in DOMAIN m.adj[q]}
       /\ \A i \in Local(m, r) :
            /\ m.ids[r][i] # {} /\ m.ids[r][i] \subseteq DOMAIN m.adj[r]
            /\ \A k \in Local(m, r) : m.ids[r][i] = m.ids[r][k] => i = k

ASSUME MeshesAssumption == \A m \in Meshes : WellFormedMesh(m)
ASSUME DrawsAssumption ==
  \A m \in Meshes : \A d \in Draws[m] :
    \A r \in Rank : \A i \in Local(m, r) : d[r][i] \in Nat

VARIABLES
  mesh,    \* what the client distributed; never changes
  rand,    \* what std::rand() will give for each entity; never changes
  canon,   \* auxiliary: the layout whose owners the votes elect; never changes
  pc,      \* where a rank is, see Stage
  round,   \* j of the ring
  posted,  \* the rank is inside a sendrecv
  net,     \* messages in flight, in order for each source, destination, tag
  coll,    \* what each rank has contributed to a reduction
  vote,    \* entity_map: the best vote heard for each candidate
  owner,   \* cached_ownership_ of the entities
  shared,  \* shared_ of the entities, {} when the entity is not there
  remote,  \* recvmap: the index on its owner of each entity given away
  number,  \* cached_numbering_
  offset,  \* offset_
  sendbuf, \* what the ring sends to each rank
  reply    \* sendbuf_back

elected == <<vote, owner, shared, remote>>
numbered == <<number, offset>>
buffers == <<sendbuf, reply>>
mpi == <<round, posted, net, coll>>
vars == <<mesh, rand, canon, pc, mpi, elected, numbered, buffers>>

Collective == {"max", "scan", "sum"}
Ring == {"votes", "ask", "answer"}
Tag == {1, 2}
Stage == {"start", "voted", "done", "error"} \cup Collective \cup Ring

NotEntered == -1
Undef == -1

------------------------------------------------------------------------------
(* The ring *)

Dst(r, j) == (r + j) % P
Src(r, j) == (r - j + P) % P

To(r) == IF pc[r] = "answer" THEN Src(r, round[r]) ELSE Dst(r, round[r])
From(r) == IF pc[r] = "answer" THEN Dst(r, round[r]) ELSE Src(r, round[r])
TagOf(r) == IF pc[r] = "answer" THEN 2 ELSE 1

Post(r) ==
  LET c == <<r, To(r), TagOf(r)>>
  IN  /\ pc[r] \in Ring /\ ~posted[r]
      /\ net' = [net EXCEPT ![c] =
                   Append(@, IF pc[r] = "answer" THEN reply[r] ELSE sendbuf[r][To(r)])]
      /\ posted' = [posted EXCEPT ![r] = TRUE]
      /\ UNCHANGED <<mesh, rand, canon, pc, round, coll, elected, numbered, buffers>>

In(r) == <<From(r), r, TagOf(r)>>
Message(r) == Head(net[In(r)])

Receive(r) ==
  /\ posted[r]
  /\ net[In(r)] # <<>>
  /\ net' = [net EXCEPT ![In(r)] = Tail(@)]
  /\ posted' = [posted EXCEPT ![r] = FALSE]

LastRound(r) == round[r] = P - 1

(* mutant: the ring of questions starts again after its last round *)
NextRoundAgain(r, again, after) ==
  /\ round' = [round EXCEPT ![r] = IF LastRound(r) THEN 1 ELSE @ + 1]
  /\ pc' = [pc EXCEPT ![r] = IF LastRound(r) /\ again = "votes" THEN after ELSE again]

(* The next round of a ring, or the stage after its last one.              *)
NextRound(r, again, after) ==
  /\ round' = [round EXCEPT ![r] = IF LastRound(r) THEN 1 ELSE @ + 1]
  /\ pc' = [pc EXCEPT ![r] = IF LastRound(r) THEN after ELSE again]

Contribute(c, r, v) ==
  /\ coll[c][r] = NotEntered
  /\ coll' = [coll EXCEPT ![c][r] = v]

Reduced(c) == \A q \in Rank : coll[c][q] # NotEntered
Scanned(c, r) == \A q \in 0 .. (r - 1) : coll[c][q] # NotEntered

------------------------------------------------------------------------------
(* get_common_adj() over the vertices of an entity; none when one of the   *)
(* vertices is not shared.                                                 *)
CommonAdj(m, r, i) ==
  {q \in Rank \ {r} : \A v \in m.ids[r][i] : q \in m.adj[r][v]}

(* The entities that may be shared: all vertices are, with a common rank.  *)
(* That rank need not hold the entity.                                     *)
Candidates(m, r) == {i \in Local(m, r) : CommonAdj(m, r, i) # {}}

Ghosts(r) == {i \in Local(mesh, r) : owner[r][i] \notin {r, P}}
Shared(r) == {i \in Local(mesh, r) : shared[r][i] # {}}
NumOwned(r) == mesh.size[r] - Cardinality(Ghosts(r))

(* The owner the votes elect: the smallest vote, the lowest rank on a tie. *)
VoteOf(m, d, q, key) == d[q][CHOOSE k \in Local(m, q) : m.ids[q][k] = key]
Elected(m, d, key) ==
  LET holders == {q \in Rank : \E k \in Local(m, q) : m.ids[q][k] = key}
  IN  CHOOSE o \in holders : \A q \in holders :
        \/ VoteOf(m, d, o, key) < VoteOf(m, d, q, key)
        \/ VoteOf(m, d, o, key) = VoteOf(m, d, q, key) /\ o <= q

ElectedLayout(m, d) ==
  [size |-> m.size, ids |-> m.ids,
   owners |-> [r \in Rank |-> [i \in Local(m, r) |-> Elected(m, d, m.ids[r][i])]]]

ElectedLayouts == UNION {{ElectedLayout(m, d) : d \in Draws[m]} : m \in Meshes}

Init ==
  /\ mesh \in Meshes
  /\ rand \in Draws[mesh]
  /\ canon = ElectedLayout(mesh, rand)
  /\ pc = [r \in Rank |-> "start"]
  /\ round = [r \in Rank |-> 1]
  /\ posted = [r \in Rank |-> FALSE]
  /\ net = [c \in Rank \X Rank \X Tag |-> <<>>]
  /\ coll = [c \in Collective |-> [r \in Rank |-> NotEntered]]
  /\ vote = [r \in Rank |-> <<>>]
  /\ owner = [r \in Rank |-> [i \in Local(mesh, r) |-> P]]
  /\ shared = [r \in Rank |-> [i \in Local(mesh, r) |-> {}]]
  /\ remote = [r \in Rank |-> [i \in Local(mesh, r) |-> Undef]]
  /\ number = [r \in Rank |-> [i \in Local(mesh, r) |-> Undef]]
  /\ offset = [r \in Rank |-> 0]
  /\ sendbuf = [r \in Rank |-> [d \in Rank |-> <<>>]]
  /\ reply = [r \in Rank |-> <<>>]

------------------------------------------------------------------------------
(* The election *)

(* Each candidate goes to the ranks that may hold it, with a vote.         *)
StartVotes(r) ==
  LET ballot(d) == [i \in {k \in Candidates(mesh, r) : d \in CommonAdj(mesh, r, k)} |->
                      [vote |-> rand[r][i], key |-> mesh.ids[r][i]]]
  IN  /\ pc[r] = "start"
      /\ vote' = [vote EXCEPT ![r] = [i \in Candidates(mesh, r) |-> rand[r][i]]]
      /\ sendbuf' = [sendbuf EXCEPT ![r] = [d \in Rank |-> ballot(d)]]
      /\ Contribute("max", r, MaxOf({Cardinality(DOMAIN ballot(d)) : d \in Rank}))
      /\ pc' = [pc EXCEPT ![r] = "max"]
      /\ UNCHANGED <<mesh, rand, canon, round, posted, net, owner, shared, remote,
                     numbered, reply>>

EndVotesMax(r) ==
  /\ pc[r] = "max" /\ Reduced("max")
  /\ pc' = [pc EXCEPT ![r] = "votes"]
  /\ UNCHANGED <<mesh, rand, canon, mpi, elected, numbered, buffers>>

(* get_owner() of an entity that is not shared is the rank itself.         *)
CurrentOwner(r, i) == IF owner[r][i] = P THEN r ELSE owner[r][i]

(* mutant: a tie is left to whoever holds the entity already *)
BeatsStrictly(v, q, r, i) == v < vote[r][i]

(* mutant: on a tie the last vote that arrives wins *)
BeatsLast(v, q, r, i) == v <= vote[r][i]

(* The smaller vote wins, the lower rank on a tie.                         *)
Beats(v, q, r, i) ==
  v < vote[r][i] \/ (v = vote[r][i] /\ q < CurrentOwner(r, i))

(* mutant: an entity has the same local index on every rank *)
BallotByIndex(r, ballot) ==
  [i \in DOMAIN vote[r] |-> {k \in DOMAIN ballot : k = i}]

(* The positions in a ballot of the entities this rank holds too.          *)
Ballot(r, ballot) ==
  [i \in DOMAIN vote[r] |-> {k \in DOMAIN ballot : ballot[k].key = mesh.ids[r][i]}]

ReturnVotes(r) ==
  LET q == From(r)
      ballot == Message(r)
      at == Ballot(r, ballot)
      held == {i \in DOMAIN vote[r] : at[i] # {}}
      theirs(i) == CHOOSE k \in at[i] : TRUE
      lost == {i \in held : Beats(ballot[theirs(i)].vote, q, r, i)}
  IN  /\ pc[r] = "votes"
      /\ Receive(r)
      /\ vote' = [vote EXCEPT ![r] = [i \in DOMAIN @ |->
                    IF i \in lost THEN ballot[theirs(i)].vote ELSE @[i]]]
      /\ remote' = [remote EXCEPT ![r] = [i \in DOMAIN @ |->
                      IF i \in lost THEN theirs(i) ELSE @[i]]]
      /\ owner' = [owner EXCEPT ![r] = [i \in DOMAIN @ |->
                     IF i \in lost THEN q
                     ELSE IF i \in held THEN CurrentOwner(r, i) ELSE @[i]]]
      /\ shared' = [shared EXCEPT ![r] = [i \in DOMAIN @ |->
                      IF i \in held THEN @[i] \cup {q} ELSE @[i]]]
      /\ NextRound(r, "votes", "voted")
      /\ UNCHANGED <<mesh, rand, canon, coll, numbered, buffers>>

------------------------------------------------------------------------------
(* The numbering *)

StartRange(r) ==
  /\ pc[r] = "voted"
  /\ Contribute("scan", r, NumOwned(r))
  /\ pc' = [pc EXCEPT ![r] = "scan"]
  /\ UNCHANGED <<mesh, rand, canon, round, posted, net, elected, numbered, buffers>>

EndScan(r) ==
  /\ pc[r] = "scan" /\ Scanned("scan", r)
  /\ offset' = [offset EXCEPT ![r] = SumOf([q \in 0 .. (r - 1) |-> coll["scan"][q]], r)]
  /\ Contribute("sum", r, NumOwned(r))
  /\ pc' = [pc EXCEPT ![r] = "sum"]
  /\ UNCHANGED <<mesh, rand, canon, round, posted, net, elected, number, buffers>>

(* Owned entities are numbered from the offset, in local order; for the    *)
(* others the owner is asked, by the index the entity has there.           *)
StartAsk(r) ==
  LET owned == Local(mesh, r) \ Ghosts(r)
      queue(d) == [i \in {k \in Ghosts(r) : owner[r][k] = d} |-> remote[r][i]]
  IN  /\ pc[r] = "sum" /\ Reduced("sum")
      /\ number' = [number EXCEPT ![r] = [i \in DOMAIN @ |->
                      IF i \in owned
                      THEN offset[r] + Cardinality({k \in owned : k < i})
                      ELSE @[i]]]
      /\ sendbuf' = [sendbuf EXCEPT ![r] = [d \in Rank |-> queue(d)]]
      /\ pc' = [pc EXCEPT ![r] = "ask"]
      /\ UNCHANGED <<mesh, rand, canon, mpi, elected, offset, reply>>

(* A question for an entity that is not shared or not owned is an error.   *)
ReturnAsk(r) ==
  LET ask == Message(r)
      answerable == \A k \in DOMAIN ask :
                      shared[r][ask[k]] # {} /\ owner[r][ask[k]] = r
  IN  /\ pc[r] = "ask"
      /\ Receive(r)
      /\ IF answerable
         THEN /\ reply' = [reply EXCEPT ![r] = [k \in DOMAIN ask |-> number[r][ask[k]]]]
              /\ pc' = [pc EXCEPT ![r] = "answer"]
         ELSE /\ pc' = [pc EXCEPT ![r] = "error"]
              /\ reply' = reply
      /\ UNCHANGED <<mesh, rand, canon, round, coll, elected, numbered, sendbuf>>

(* finalize() counts the global numbers: one that two entities share is an *)
(* error.                                                                  *)
Distinct(f) == \A i, k \in DOMAIN f : f[i] = f[k] => i = k

ReturnAnswer(r) ==
  LET back == Message(r)
      numbers == [i \in DOMAIN number[r] |->
                    IF i \in DOMAIN back THEN back[i] ELSE number[r][i]]
  IN  /\ pc[r] = "answer"
      /\ Receive(r)
      /\ number' = [number EXCEPT ![r] = numbers]
      /\ NextRound(r, "ask", IF Distinct(numbers) THEN "done" ELSE "error")
      /\ UNCHANGED <<mesh, rand, canon, coll, elected, offset, buffers>>

------------------------------------------------------------------------------
Step(r) ==
  \/ StartVotes(r) \/ EndVotesMax(r)
  \/ StartRange(r) \/ EndScan(r) \/ StartAsk(r)
  \/ Post(r) \/ ReturnVotes(r) \/ ReturnAsk(r) \/ ReturnAnswer(r)

(* Every rank has numbered its entities, or thrown an error.               *)
Finished == \A r \in Rank : pc[r] \in {"done", "error"}
Rest == Finished /\ UNCHANGED vars

Next == (\E r \in Rank : Step(r)) \/ Rest

Spec == Init /\ [][Next]_vars

(* A rank that can go on does: the ranks are processes of the system and   *)
(* MPI progresses.                                                         *)
FairSpec == Spec /\ \A r \in Rank : WF_vars(Step(r))

------------------------------------------------------------------------------
(* Properties *)

Voting == {"start", "max", "votes"}
Voted(r) == pc[r] \notin Voting

Same(r, i, q, k) == mesh.ids[r][i] = mesh.ids[q][k]
Holders(r, i) == {q \in Rank : \E k \in Local(mesh, q) : Same(r, i, q, k)}

(* An entity is shared with exactly the other ranks that hold it: that all *)
(* its vertices are shared with a rank is not enough.                      *)
SharedExact ==
  \A r \in Rank : Voted(r) =>
    \A i \in Local(mesh, r) : shared[r][i] = Holders(r, i) \ {r}

(* The buffer for questions, and the one for the answers to them, have     *)
(* num_shared() - num_ghost() elements: the entities this rank shares and  *)
(* owns.  No rank asks for more.                                           *)
QuestionsFit ==
  \A r \in Rank : pc[r] = "ask" /\ posted[r] /\ net[In(r)] # <<>> =>
    Cardinality(DOMAIN Message(r)) <= Cardinality(Shared(r)) - Cardinality(Ghosts(r))

(* Every rank numbers its entities.                                        *)
Termination == <>(\A r \in Rank : pc[r] = "done")

(* The ranks end with the canonical numbering of the layout whose owners   *)
(* the votes elect, each replacing its own in one step as far as its       *)
(* callers can tell.                                                       *)
Published == INSTANCE GlobalNumbering WITH
  Layouts <- ElectedLayouts,
  layout <- canon,
  published <- [r \in Rank |-> pc[r] = "done"],
  numbers <- [r \in Rank |-> IF pc[r] = "done" THEN number[r] ELSE mesh.ids[r]]
Refinement == Published!Spec
==============================================================================
