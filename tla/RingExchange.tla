----------------------------- MODULE RingExchange -----------------------------
(***************************************************************************)
(* What the distributed algorithms above DistributedData have in common:   *)
(* the ranks meet in MPI reductions, and in rings of P - 1 rounds where,   *)
(* in round j, a rank does a blocking sendrecv to the rank j places after  *)
(* it and from the rank j places before it.  Nothing else orders two       *)
(* ranks.  A send is buffered: it returns before the receiver is there.    *)
(***************************************************************************)
EXTENDS MeshLayout, SequencesExt

VARIABLES
  round,   \* j of the ring
  posted,  \* the rank is inside a sendrecv
  net,     \* messages in flight, in order for each source, destination, tag
  coll     \* what each rank has contributed to a reduction

mpi == <<round, posted, net, coll>>

InitMPI(tags, reductions) ==
  /\ round = [r \in Rank |-> 1]
  /\ posted = [r \in Rank |-> FALSE]
  /\ net = [c \in Rank \X Rank \X tags |-> <<>>]
  /\ coll = [c \in reductions |-> <<>>]

Dst(r, j) == (r + j) % P
Src(r, j) == (r - j + P) % P

(* The two halves of a sendrecv.                                           *)
Send(r, q, tag, body) ==
  /\ ~posted[r]
  /\ net' = [net EXCEPT ![<<r, q, tag>>] = Append(@, body)]
  /\ posted' = [posted EXCEPT ![r] = TRUE]

Arrived(r, q, tag) == posted[r] /\ net[<<q, r, tag>>] # <<>>
Arriving(r, q, tag) == Head(net[<<q, r, tag>>])

Recv(r, q, tag) ==
  /\ Arrived(r, q, tag)
  /\ net' = [net EXCEPT ![<<q, r, tag>>] = Tail(@)]
  /\ posted' = [posted EXCEPT ![r] = FALSE]

LastRound(r) == round[r] = P - 1

NextRound(r) == round' = [round EXCEPT ![r] = IF LastRound(r) THEN 1 ELSE @ + 1]

(* An all_reduce, an exscan or an all_gather: a rank contributes and waits *)
(* for the ranks whose contribution its result needs.                      *)
Contribute(c, r, v) ==
  /\ r \notin DOMAIN coll[c]
  /\ coll' = [coll EXCEPT ![c] =
       [q \in DOMAIN coll[c] \cup {r} |-> IF q = r THEN v ELSE coll[c][q]]]

Reduced(c) == DOMAIN coll[c] = Rank
Scanned(c, r) == 0 .. (r - 1) \subseteq DOMAIN coll[c]
==============================================================================
