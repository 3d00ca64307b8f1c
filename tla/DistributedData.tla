--------------------------- MODULE DistributedData ---------------------------
(***************************************************************************)
(* The life of the distributed numbering of mesh entities, over the ranks  *)
(* of a communicator: DMesh::exp() has filled one DistributedData per rank *)
(* with set_map() and set_ghost(), then every rank runs                    *)
(*                                                                         *)
(*     remap_shared_adj();  finalize();  renumber_global();                *)
(*                                                                         *)
(* Each of the three is collective.  Ranks meet in MPI reductions, and in  *)
(* rings of P - 1 rounds where, in round j, a rank does a blocking         *)
(* sendrecv to the rank j places after it and from the rank j places       *)
(* before it.  Nothing else orders two ranks.                              *)
(*                                                                         *)
(* A buffer is a function from its positions to the numbers it carries.    *)
(* The positions are named by the local indices the buffer was built from; *)
(* an answer has the positions of its question.                            *)
(***************************************************************************)
EXTENDS MeshLayout, Sequences

CONSTANT Layouts  \* the distributed meshes the client may have exported

ASSUME LayoutsAssumption == \A L \in Layouts : WellFormed(L)

VARIABLES
  layout,     \* what the client exported; never changes
  pc,         \* the call a rank is in, see Stage
  round,      \* j of the ring
  posted,     \* the rank is inside a sendrecv
  net,        \* messages in flight, in order for each source, destination, tag
  coll,       \* what each rank has contributed to a reduction
  numbering,  \* cached_numbering_: local to global
  local,      \* local_: global to local
  fresh,      \* local_mapping of renumber_global()
  shared,     \* shared_: the adjacent ranks, {} when the entity is not there
  ownership,  \* cached_ownership_, <<>> when empty
  offset,     \* offset_
  total,      \* global_size_
  sendbuf,    \* what the ring sends to each rank
  reply,      \* sendbck
  recvmax     \* the size of recvbuf

data == <<numbering, local, fresh, shared, ownership, offset, total>>
buffers == <<sendbuf, reply, recvmax>>
mpi == <<round, posted, net, coll>>
vars == <<layout, pc, mpi, data, buffers>>

Collective == {"adjmax", "scan", "sum", "max"}
Ring == {"adj", "ask", "answer"}
Tag == 0 .. 2

(* In the order a rank goes through them. *)
Stage == {"exported", "linked", "final", "done", "error"} \cup Collective \cup Ring

NotEntered == -1

------------------------------------------------------------------------------
(* Helpers *)

(* The global-to-local mapping of a local-to-global one. *)
Inverted(f) == [g \in {f[i] : i \in DOMAIN f} |-> CHOOSE i \in DOMAIN f : f[i] = g]

(* mutant: as with map::insert, an entry that exists is kept *)
MergedKeep(f, g) ==
  [x \in DOMAIN f \cup DOMAIN g |-> IF x \in DOMAIN f THEN f[x] ELSE g[x]]

Merged(f, g) ==
  [x \in DOMAIN f \cup DOMAIN g |-> IF x \in DOMAIN g THEN g[x] ELSE f[x]]

Dst(r, j) == (r + j) % P
Src(r, j) == (r - j + P) % P

Ghosts(r) == {i \in Local(layout, r) : layout.owners[r][i] # r}
NumOwned(r) == layout.size[r] - Cardinality(Ghosts(r))

(* mutant: only the entities that are not shared count as owned *)
IsOwnedUnshared(r, i) == ownership[r][i] = P

(* mutant: only the entities that are shared count as owned *)
IsOwnedShared(r, i) == ownership[r][i] = r

(* cached_ownership_[i] == pe_size_ || cached_ownership_[i] == rank_ *)
IsOwned(r, i) == ownership[r][i] \in {r, P}

------------------------------------------------------------------------------
(* MPI *)

(* An all_reduce or an exscan: a rank contributes and waits ... *)
Contribute(c, r, v) ==
  /\ coll[c][r] = NotEntered
  /\ coll' = [coll EXCEPT ![c][r] = v]

(* ... for the ranks whose contribution its result needs. *)
Reduced(c) == \A q \in Rank : coll[c][q] # NotEntered
Scanned(c, r) == \A q \in 0 .. (r - 1) : coll[c][q] # NotEntered

(* The channels of the sendrecv a rank is in: the answer of a round goes   *)
(* back the way the question came.                                         *)
To(r) == IF pc[r] = "answer" THEN Src(r, round[r]) ELSE Dst(r, round[r])
From(r) == IF pc[r] = "answer" THEN Dst(r, round[r]) ELSE Src(r, round[r])
TagOf(r) == IF pc[r] = "adj" THEN 0 ELSE IF pc[r] = "ask" THEN 1 ELSE 2
Out(r) == <<r, To(r), TagOf(r)>>
In(r) == <<From(r), r, TagOf(r)>>

Payload(r) == IF pc[r] = "answer" THEN reply[r] ELSE sendbuf[r][To(r)]

Post(r) ==
  /\ pc[r] \in Ring /\ ~posted[r]
  /\ net' = [net EXCEPT ![Out(r)] = Append(@, Payload(r))]
  /\ posted' = [posted EXCEPT ![r] = TRUE]
  /\ UNCHANGED <<layout, pc, round, coll, data, buffers>>

(* Whether what r sends is received, or could be at once: MPI may buffer a *)
(* send, or let it wait for the receiver.                                  *)
Matched(r) ==
  \/ net[Out(r)] = <<>>
  \/ LET q == To(r) IN pc[q] \in Ring /\ posted[q] /\ In(q) = Out(r)

Message(r) == Head(net[In(r)])

Receive(r) ==
  /\ posted[r]
  /\ net[In(r)] # <<>>
  /\ net' = [net EXCEPT ![In(r)] = Tail(@)]
  /\ posted' = [posted EXCEPT ![r] = FALSE]

(* mutant: one round too few *)
LastRoundEarly(r) == round[r] = P - 2

LastRound(r) == round[r] = P - 1

(* mutant: after its last round the ring starts again *)
NextRoundAgain(r, again, after) ==
  /\ round' = [round EXCEPT ![r] = IF LastRound(r) THEN 1 ELSE @ + 1]
  /\ pc' = [pc EXCEPT ![r] = again]

(* The next round of a ring, or the stage after its last one.              *)
NextRound(r, again, after) ==
  /\ round' = [round EXCEPT ![r] = IF LastRound(r) THEN 1 ELSE @ + 1]
  /\ pc' = [pc EXCEPT ![r] = IF LastRound(r) THEN after ELSE again]

------------------------------------------------------------------------------
Init ==
  /\ layout \in Layouts
  /\ pc = [r \in Rank |-> "exported"]
  /\ round = [r \in Rank |-> 1]
  /\ posted = [r \in Rank |-> FALSE]
  /\ net = [c \in Rank \X Rank \X Tag |-> <<>>]
  /\ coll = [c \in Collective |-> [r \in Rank |-> NotEntered]]
  /\ numbering = layout.ids
  /\ local = [r \in Rank |-> Inverted(layout.ids[r])]
  /\ fresh = [r \in Rank |-> <<>>]
  /\ shared = [r \in Rank |-> [i \in Local(layout, r) |->
                 IF i \in Ghosts(r) THEN {layout.owners[r][i]} ELSE {}]]
  /\ ownership = [r \in Rank |-> <<>>]
  /\ offset = [r \in Rank |-> 0]
  /\ total = [r \in Rank |-> 0]
  /\ sendbuf = [r \in Rank |-> [d \in Rank |-> <<>>]]
  /\ reply = [r \in Rank |-> <<>>]
  /\ recvmax = [r \in Rank |-> 0]

------------------------------------------------------------------------------
(* remap_shared_adj() *)

StartRemap(r) ==
  LET buffer == [i \in {k \in Local(layout, r) : shared[r][k] # {}} |-> numbering[r][i]]
  IN  /\ pc[r] = "exported"
      /\ Contribute("adjmax", r, Cardinality(DOMAIN buffer))
      /\ sendbuf' = [sendbuf EXCEPT ![r] = [d \in Rank |-> buffer]]
      /\ pc' = [pc EXCEPT ![r] = "adjmax"]
      /\ UNCHANGED <<layout, round, posted, net, data, reply, recvmax>>

EndRemapMax(r) ==
  /\ pc[r] = "adjmax" /\ Reduced("adjmax")
  /\ recvmax' = [recvmax EXCEPT ![r] = MaxOf({coll["adjmax"][q] : q \in Rank})]
  /\ pc' = [pc EXCEPT ![r] = "adj"]
  /\ UNCHANGED <<layout, mpi, data, sendbuf, reply>>

(* set_shared_adj() for each received entity that this rank holds too.     *)
ReturnAdj(r) ==
  LET got == {Message(r)[k] : k \in DOMAIN Message(r)}
      known == {local[r][g] : g \in got \cap DOMAIN local[r]}
  IN  /\ pc[r] = "adj"
      /\ Receive(r)
      /\ shared' = [shared EXCEPT ![r] = [i \in DOMAIN @ |->
                      IF i \in known THEN @[i] \cup {From(r)} ELSE @[i]]]
      /\ NextRound(r, "adj", "linked")
      /\ UNCHANGED <<layout, coll, numbering, local, fresh, ownership, offset,
                     total, buffers>>

------------------------------------------------------------------------------
(* finalize() *)

StartFinalize(r) ==
  /\ pc[r] = "linked"
  /\ Contribute("scan", r, NumOwned(r))
  /\ pc' = [pc EXCEPT ![r] = "scan"]
  /\ UNCHANGED <<layout, round, posted, net, data, buffers>>

EndScan(r) ==
  /\ pc[r] = "scan" /\ Scanned("scan", r)
  /\ offset' = [offset EXCEPT ![r] =
                  SumOf([q \in 0 .. (r - 1) |-> coll["scan"][q]], r)]
  /\ Contribute("sum", r, NumOwned(r))
  /\ pc' = [pc EXCEPT ![r] = "sum"]
  /\ UNCHANGED <<layout, round, posted, net, numbering, local, fresh, shared,
                 ownership, total, buffers>>

EndFinalize(r) ==
  /\ pc[r] = "sum" /\ Reduced("sum")
  /\ total' = [total EXCEPT ![r] = SumOf(coll["sum"], P)]
  /\ ownership' = [ownership EXCEPT ![r] = [i \in Local(layout, r) |->
                     IF i \in Ghosts(r) THEN layout.owners[r][i]
                     ELSE IF shared[r][i] # {} THEN r ELSE P]]
  /\ pc' = [pc EXCEPT ![r] = "final"]
  /\ UNCHANGED <<layout, mpi, numbering, local, fresh, shared, offset, buffers>>

------------------------------------------------------------------------------
(* renumber_global() *)

(* Owned entities are numbered from the offset, in local order; the old    *)
(* numbers of the ghosts are queued for their owners.                      *)
StartRenumber(r) ==
  LET here == Local(layout, r)
      owned == {i \in here : IsOwned(r, i)}
      number(i) == offset[r] + Cardinality({k \in owned : k < i})
      queue(d) == [i \in {k \in here \ owned : ownership[r][k] = d} |-> numbering[r][i]]
  IN  /\ pc[r] = "final"
      /\ numbering' = [numbering EXCEPT ![r] = [i \in here |->
                         IF i \in owned THEN number(i) ELSE @[i]]]
      /\ fresh' = [fresh EXCEPT ![r] = Inverted([i \in owned |-> number(i)])]
      /\ sendbuf' = [sendbuf EXCEPT ![r] = [d \in Rank |-> queue(d)]]
      /\ Contribute("max", r, MaxOf({Cardinality(DOMAIN queue(d)) : d \in Rank}))
      /\ pc' = [pc EXCEPT ![r] = "max"]
      /\ UNCHANGED <<layout, round, posted, net, local, shared, ownership,
                     offset, total, reply, recvmax>>

EndRenumberMax(r) ==
  /\ pc[r] = "max" /\ Reduced("max")
  /\ recvmax' = [recvmax EXCEPT ![r] = MaxOf({coll["max"][q] : q \in Rank})]
  /\ pc' = [pc EXCEPT ![r] = "ask"]
  /\ UNCHANGED <<layout, mpi, data, sendbuf, reply>>

(* A question for an entity this rank has not, or has as a ghost, is an    *)
(* error (the lookup of an unknown entity dereferences end()).             *)
ReturnAsk(r) ==
  LET ask == Message(r)
      answerable == \A k \in DOMAIN ask :
                      ask[k] \in DOMAIN local[r] /\ IsOwned(r, local[r][ask[k]])
  IN  /\ pc[r] = "ask"
      /\ Receive(r)
      /\ IF answerable
         THEN /\ reply' = [reply EXCEPT ![r] =
                             [k \in DOMAIN ask |-> numbering[r][local[r][ask[k]]]]]
              /\ pc' = [pc EXCEPT ![r] = "answer"]
         ELSE /\ pc' = [pc EXCEPT ![r] = "error"]
              /\ reply' = reply
      /\ UNCHANGED <<layout, round, coll, data, sendbuf, recvmax>>

ReturnAnswer(r) ==
  LET asked == sendbuf[r][From(r)]
      back == Message(r)
      new == [i \in {local[r][asked[k]] : k \in DOMAIN asked} |->
                back[CHOOSE k \in DOMAIN asked : local[r][asked[k]] = i]]
  IN  /\ pc[r] = "answer"
      /\ Receive(r)
      /\ numbering' = [numbering EXCEPT ![r] = Merged(@, new)]
      /\ fresh' = [fresh EXCEPT ![r] = Merged(@, Inverted(new))]
      /\ NextRound(r, "ask", "done")
      /\ local' = IF LastRound(r) THEN [local EXCEPT ![r] = fresh'[r]] ELSE local
      /\ UNCHANGED <<layout, coll, shared, ownership, offset, total, buffers>>

------------------------------------------------------------------------------
Step(r) ==
  \/ StartRemap(r) \/ EndRemapMax(r)
  \/ StartFinalize(r) \/ EndScan(r) \/ EndFinalize(r)
  \/ StartRenumber(r) \/ EndRenumberMax(r)
  \/ Post(r) \/ ReturnAdj(r) \/ ReturnAsk(r) \/ ReturnAnswer(r)

(* Every rank has returned from renumber_global(), or thrown an error.     *)
Finished == \A r \in Rank : pc[r] \in {"done", "error"}
Rest == Finished /\ UNCHANGED vars

Next == (\E r \in Rank : Step(r)) \/ Rest

Spec == Init /\ [][Next]_vars

(* A rank that can go on without MPI having buffered its send does: the    *)
(* ranks are processes of the system and MPI progresses.  That MPI buffers *)
(* is possible and never counted on.                                       *)
Unbuffered(r) == Step(r) /\ (posted[r] => Matched(r))
FairSpec == Spec /\ \A r \in Rank : WF_vars(Unbuffered(r))
------------------------------------------------------------------------------
(* Properties *)

DataTypes(r) ==
  LET here == Local(layout, r)
  IN  /\ numbering[r] \in [here -> Nat]
      /\ \A g \in DOMAIN local[r] : local[r][g] \in here
      /\ shared[r] \in [here -> SUBSET Rank]
      /\ ownership[r] = <<>> \/ ownership[r] \in [here -> 0 .. P]

ControlTypes ==
  /\ WellFormed(layout)
  /\ pc \in [Rank -> Stage]
  /\ round \in [Rank -> 1 .. (P - 1)]
  /\ posted \in [Rank -> BOOLEAN]
  /\ DOMAIN net = Rank \X Rank \X Tag
  /\ coll \in [Collective -> [Rank -> Nat \cup {NotEntered}]]
  /\ offset \in [Rank -> Nat] /\ total \in [Rank -> Nat] /\ recvmax \in [Rank -> Nat]
  /\ DOMAIN numbering = Rank /\ DOMAIN local = Rank /\ DOMAIN fresh = Rank
  /\ DOMAIN shared = Rank /\ DOMAIN ownership = Rank
  /\ DOMAIN sendbuf = Rank /\ DOMAIN reply = Rank

(* Numbers are natural, local indices and ranks in range, stages known.    *)
TypeOK == ControlTypes /\ \A r \in Rank : DataTypes(r)

(* The ranks that hold the entity r calls i, and what q calls it.          *)
Holders(r, i) ==
  {q \in Rank : \E k \in Local(layout, q) : layout.ids[q][k] = layout.ids[r][i]}
IndexOn(q, r, i) ==
  CHOOSE k \in Local(layout, q) : layout.ids[q][k] = layout.ids[r][i]

AllDone == \A r \in Rank : pc[r] = "done"

(* After renumber_global() an entity has one number, and a number of its   *)
(* own: any two ranks that hold it, be they ghosts of a third one, use the *)
(* same, and no two ranks use one number for different entities.           *)
HoldersAgree ==
  \A r, q \in Rank : pc[r] = "done" /\ pc[q] = "done" =>
    \A i \in Local(layout, r), k \in Local(layout, q) :
      layout.ids[r][i] = layout.ids[q][k] <=> numbering[r][i] = numbering[q][k]

(* remap_shared_adj() leaves a rank with exactly the other holders of each *)
(* of its entities, though ghosts start with their owner alone and owners  *)
(* with nothing.                                                           *)
AdjacencyExact ==
  \A r \in Rank : pc[r] \notin {"exported", "adjmax", "adj"} =>
    \A i \in Local(layout, r) : shared[r][i] = Holders(r, i) \ {r}

(* The buffer a rank receives in, sized by a reduction or by its own       *)
(* question, is never smaller than the message that arrives.               *)
NoTruncation ==
  \A r \in Rank : pc[r] \in Ring /\ posted[r] /\ net[In(r)] # <<>> =>
    IF pc[r] = "answer" THEN DOMAIN Message(r) = DOMAIN sendbuf[r][From(r)]
    ELSE Cardinality(DOMAIN Message(r)) <= recvmax[r]

(* No question is for an entity that the asked rank has not or does not    *)
(* own, so renumber_global() throws nowhere and no rank waits for a rank   *)
(* that has thrown.                                                        *)
NoError == \A r \in Rank : pc[r] # "error"

(* Every rank returns from the three calls.                                *)
Termination == <>AllDone

(* Each rank replaces its numbering by the canonical one, in one step as   *)
(* far as its callers can tell.                                            *)
Published == INSTANCE GlobalNumbering WITH
  published <- [r \in Rank |-> pc[r] = "done"],
  numbers <- [r \in Rank |-> IF pc[r] = "done" THEN numbering[r] ELSE layout.ids[r]]
Refinement == Published!Spec

------------------------------------------------------------------------------
(* The inductive invariant behind HoldersAgree, NoError and Refinement     *)

Canon(r, i) == Canonical(layout, r, i)

(* What r asks d, and what d answers: both are determined by the layout,   *)
(* so a message tells nothing of when it was sent.                         *)
GhostsFor(r, d) == {i \in Ghosts(r) : layout.owners[r][i] = d}
Question(r, d) == [i \in GhostsFor(r, d) |-> layout.ids[r][i]]
Answer(r, d) == [i \in GhostsFor(r, d) |-> Canon(r, i)]

(* The messages that may travel from s to d with tag t.                    *)
Buffers(s, d, t) ==
  IF t = 0 THEN {[i \in D |-> layout.ids[s][i]] : D \in SUBSET Local(layout, s)}
  ELSE IF t = 1 THEN {Question(s, d)}
  ELSE {Answer(d, s)}

(* The round in which r asks d.                                            *)
RoundFor(r, d) == (d - r + P) % P

(* The entities whose number in numbering[r] is the new one, from          *)
(* renumber_global() on.                                                   *)
Settled(r, i) ==
  \/ layout.owners[r][i] = r
  \/ pc[r] = "done"
  \/ RoundFor(r, layout.owners[r][i]) < round[r]

Renumbering == {"max", "ask", "answer"}
Finalized == {"final", "done"} \cup Renumbering

ChannelsInv ==
  \A s, d \in Rank, t \in Tag : net[<<s, d, t>>] \in Seq(Buffers(s, d, t))

ScanInv == \A r \in Rank : coll["scan"][r] \in {NotEntered, NumOwned(r)}

ControlInv(r) ==
  /\ pc[r] # "error"
  /\ pc[r] \notin Ring => round[r] = 1

OldNumbersInv(r) ==
  /\ pc[r] # "done" => local[r] = Inverted(layout.ids[r])
  /\ pc[r] \notin Renumbering \cup {"done"} => numbering[r] = layout.ids[r]
  /\ pc[r] \in {"adjmax", "adj"} => \A d \in Rank : sendbuf[r][d] \in Buffers(r, d, 0)

OwnershipInv(r) ==
  /\ pc[r] \in Finalized \cup {"sum"} => offset[r] = Below(layout, r)
  /\ pc[r] \in Finalized =>
       /\ ownership[r] \in [Local(layout, r) -> 0 .. P]
       /\ \A i \in Local(layout, r) :
            IF i \in Ghosts(r) THEN ownership[r][i] = layout.owners[r][i]
            ELSE ownership[r][i] \in {r, P}

NewNumbersInv(r) ==
  /\ \A g \in DOMAIN fresh[r] : fresh[r][g] \in Local(layout, r)
  /\ pc[r] \in Renumbering => \A d \in Rank : sendbuf[r][d] = Question(r, d)
  /\ pc[r] = "answer" => reply[r] = Answer(Src(r, round[r]), r)
  /\ pc[r] \in Renumbering \cup {"done"} =>
       \A i \in Local(layout, r) : Settled(r, i) => numbering[r][i] = Canon(r, i)

RankInv(r) ==
  ControlInv(r) /\ OldNumbersInv(r) /\ OwnershipInv(r) /\ NewNumbersInv(r)

(* Every question, every answer and every number a rank has settled is a   *)
(* function of the layout alone, whatever the order of the ranks.          *)
NumberingInv == TypeOK /\ ChannelsInv /\ ScanInv /\ \A r \in Rank : RankInv(r)
==============================================================================
