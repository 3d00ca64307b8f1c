---------------------------- MODULE LoadBalancer ----------------------------
(***************************************************************************)
(* Dynamic load balancing: balance() weighs the cells, asks a partitioner  *)
(* where they should go, decides which rank takes which part so that few   *)
(* cells move, and moves them if that pays.                                *)
(*                                                                         *)
(* The ranks meet in reductions, gathers, broadcasts and rings.  Between   *)
(* two of them a rank works alone: that is one step.  What a rank gives to *)
(* a ring reaches every other rank, whatever the rounds.                   *)
(***************************************************************************)
EXTENDS Integers, FiniteSets, Sequences, Functions, Sums

CONSTANTS
  P,       \* the number of ranks
  Inputs,  \* the meshes, weights and answers of the partitioner
  Base,    \* 256: the radix of the sort
  Digits,  \* 4: the digits of the sort
  Width    \* 2^64: the range of size_t

ASSUME BalancerAssumption ==
  P \in Nat \ {0} /\ Base \in Nat \ {0, 1} /\ Digits \in Nat \ {0} /\ Width \in Nat \ {0}

Rank == 0 .. (P - 1)

(***************************************************************************)
(* A cell c is on rank[c], weighs weight[c], and the partitioner puts it   *)
(* in the part part[c].  tf, tb and ts are the costs of a flop, a byte and *)
(* a message, 0 when not given, and ndims the vertices of a cell.          *)
(***************************************************************************)
ASSUME InputsAssumption == \A in \in Inputs :
  /\ IsFiniteSet(DOMAIN in.rank)
  /\ \A c \in DOMAIN in.rank : in.rank[c] \in Rank /\ in.part[c] \in Rank /\ in.weight[c] \in Nat

VARIABLES
  in,      \* the input; never changes
  pc,      \* where a rank is
  coll,    \* what each rank has contributed to a collective operation
  index,   \* the indices of similarity entries a rank holds while they are sorted
  pass,    \* the digit they are sorted by
  map,     \* map: on each rank, <<>> until rank 0 has sent it
  target   \* partitions: where each cell of the rank goes

vars == <<in, pc, coll, index, pass, map, target>>

Collective == {"weight", "row", "count", "ring", "sorted", "new", "cost"}
Stage == {"start", "weight", "row", "count", "ring", "sorted", "map", "new", "cost",
          "balanced", "kept", "moved"}

(* What a rank gives to its n-th call of operation c; a call is complete   *)
(* when every rank has made it.                                            *)
Contribute(c, r, v) == coll' = [coll EXCEPT ![c][r] = Append(@, v)]
Complete(c, n) == \A q \in Rank : Len(coll[c][q]) >= n
Of(c, q, n) == coll[c][q][n]

------------------------------------------------------------------------------
Cells(r) == {c \in DOMAIN in.rank : in.rank[c] = r}

WeightOf(cells) == SumFunctionOnSet(in.weight, cells)

Init ==
  /\ in \in Inputs
  /\ pc = [r \in Rank |-> "start"]
  /\ coll = [c \in Collective |-> [r \in Rank |-> <<>>]]
  /\ index = [r \in Rank |-> [i \in Rank |-> i + r * P]]
  /\ pass = [r \in Rank |-> 0]
  /\ map = [r \in Rank |-> <<>>]
  /\ target = [r \in Rank |-> [c \in Cells(r) |-> in.part[c]]]

(* balance(), up to the preliminary evaluation of the imbalance.           *)
Weigh(r) ==
  /\ pc[r] = "start"
  /\ Contribute("weight", r, WeightOf(Cells(r)))
  /\ pc' = [pc EXCEPT ![r] = "weight"]
  /\ UNCHANGED <<in, index, pass, map, target>>

Loads == [q \in Rank |-> Of("weight", q, 1)]

(* mutant: a rank looks at its own load                                    *)
BalancedHere(r) == 100 * P * Loads[r] < 104 * SumOf(Loads, P)

(* The largest load is less than 1.04 of the average.                      *)
Balanced(r) == 100 * P * MaxOf({Loads[q] : q \in Rank}) < 104 * SumOf(Loads, P)

(* process_reassignment(): how many cells of this rank are in each part.   *)
Row(r) == [q \in Rank |-> Cardinality({c \in Cells(r) : target[r][c] = q})]

Partition(r) ==
  /\ pc[r] = "weight" /\ Complete("weight", 1)
  /\ \/ Balanced(r) /\ pc' = [pc EXCEPT ![r] = "balanced"] /\ coll' = coll
     \/ ~Balanced(r) /\ pc' = [pc EXCEPT ![r] = "row"] /\ Contribute("row", r, Row(r))
  /\ UNCHANGED <<in, index, pass, map, target>>

------------------------------------------------------------------------------
(* pradixsort_matrix() *)

(* SiM, as all_gather has left it.                                         *)
Similarity(k) == Of("row", k \div P, 1)[k % P]

(* What a shift by i digits divides by.                                    *)
Radix[i \in Nat] == IF i = 0 THEN 1 ELSE Base * Radix[i - 1]

Digit(k, i) == (Similarity(k) \div Radix[i]) % Base

Counts(r) ==
  [d \in 0 .. (Base - 1) |-> Cardinality({k \in Rank : Digit(index[r][k], pass[r]) = d})]

StartSort(r) ==
  /\ pc[r] = "row" /\ Complete("row", 1)
  /\ Contribute("count", r, Counts(r))
  /\ pc' = [pc EXCEPT ![r] = "count"]
  /\ UNCHANGED <<in, index, pass, map, target>>

(* mutant: the place for a digit does not move on                          *)
PlaceSame(r, k) ==
  LET i == pass[r]
      d == Digit(index[r][k], i)
      smaller == SumOf([e \in 0 .. (d - 1) |-> SumOf([q \in Rank |-> Of("count", q, i + 1)[e]], P)], d)
      upTo == SumOf([q \in 0 .. r |-> Of("count", q, i + 1)[d]], r + 1)
  IN  smaller + upTo - 1

(* The place in the whole order of the k-th index of rank r: after those   *)
(* with a smaller digit and those with the same digit on lower ranks.      *)
Place(r, k) ==
  LET i == pass[r]
      d == Digit(index[r][k], i)
      smaller == SumOf([e \in 0 .. (d - 1) |-> SumOf([q \in Rank |-> Of("count", q, i + 1)[e]], P)], d)
      upTo == SumOf([q \in 0 .. r |-> Of("count", q, i + 1)[d]], r + 1)
      after == Cardinality({l \in Rank : l > k /\ Digit(index[r][l], i) = d})
  IN  smaller + upTo - 1 - after

(* sendbuff: for each rank, what goes where in its part of the order.      *)
Sendbuff(r) ==
  [q \in Rank |-> {<<Place(r, k) % P, index[r][k]>> : k \in {l \in Rank : Place(r, l) \div P = q}}]

PlaceIndices(r) ==
  LET here == Sendbuff(r)[r]
      held(k) == CHOOSE p \in here : p[1] = k
  IN  /\ pc[r] = "count" /\ Complete("count", pass[r] + 1)
      /\ Contribute("ring", r, Sendbuff(r))
      /\ index' = [index EXCEPT ![r] = [k \in Rank |->
                     IF \E p \in here : p[1] = k THEN held(k)[2] ELSE @[k]]]
      /\ pc' = [pc EXCEPT ![r] = "ring"]
      /\ UNCHANGED <<in, pass, map, target>>

Arrived(r) == UNION {Of("ring", q, pass[r] + 1)[r] : q \in Rank \ {r}}

(* mutant: the last digit is left out                                      *)
LastPassEarly(r) == pass[r] + 1 = Digits \/ pass[r] + 2 = Digits

LastPass(r) == pass[r] + 1 = Digits

CollectIndices(r) ==
  LET got(k) == CHOOSE p \in Arrived(r) : p[1] = k
      sorted == [k \in Rank |-> IF \E p \in Arrived(r) : p[1] = k THEN got(k)[2] ELSE index[r][k]]
      counts == [d \in 0 .. (Base - 1) |-> Cardinality({k \in Rank : Digit(sorted[k], pass[r] + 1) = d})]
  IN  /\ pc[r] = "ring" /\ Complete("ring", pass[r] + 1)
      /\ index' = [index EXCEPT ![r] = sorted]
      /\ IF LastPass(r)
         THEN /\ Contribute("sorted", r, sorted)
              /\ pc' = [pc EXCEPT ![r] = "sorted"]
              /\ pass' = pass
         ELSE /\ Contribute("count", r, counts)
              /\ pc' = [pc EXCEPT ![r] = "count"]
              /\ pass' = [pass EXCEPT ![r] = @ + 1]
      /\ UNCHANGED <<in, map, target>>

------------------------------------------------------------------------------
(* The assignment of parts to ranks *)

Order(n) == Of("sorted", n \div P, 1)[n % P]

(* mutant: a part that was given away may be given again                   *)
FreeRankOnly(k, taken) == \A j \in DOMAIN taken : j # k \div P

Free(k, taken) == \A j \in DOMAIN taken : j # k \div P /\ taken[j] # k % P

(* A rank gets a part if both are free.                                    *)
Give(k, taken) ==
  IF Free(k, taken)
  THEN [j \in DOMAIN taken \cup {k \div P} |-> IF j = k \div P THEN k % P ELSE taken[j]]
  ELSE taken

(* What is assigned after n entries, from the largest on.                  *)
Taken[n \in 0 .. (P * P)] == IF n = 0 THEN <<>> ELSE Give(Order(P * P - n), Taken[n - 1])

(* Rank 0 gathers the order, makes the map and broadcasts it.              *)
Assign(r) ==
  /\ r = 0 /\ pc[r] = "sorted" /\ Complete("sorted", 1)
  /\ map' = [q \in Rank |-> Taken[P * P]]
  /\ pc' = [pc EXCEPT ![r] = "map"]
  /\ UNCHANGED <<in, coll, index, pass, target>>

ReceiveMap(r) ==
  /\ r # 0 /\ pc[r] = "sorted" /\ map[r] # <<>>
  /\ pc' = [pc EXCEPT ![r] = "map"]
  /\ UNCHANGED <<in, coll, index, pass, map, target>>

Checked == in.tf > 0 /\ in.tb > 0 /\ in.ts > 0

(* Each part goes to map of it.  Without the costs the cells are moved at  *)
(* once.                                                                   *)
Reassign(r) ==
  LET new == [c \in Cells(r) |-> map[r][target[r][c]]]
  IN  /\ pc[r] = "map"
      /\ target' = [target EXCEPT ![r] = new]
      /\ IF Checked
         THEN /\ Contribute("new", r, [q \in Rank |-> WeightOf({c \in Cells(r) : new[c] = q})])
              /\ pc' = [pc EXCEPT ![r] = "new"]
         ELSE /\ pc' = [pc EXCEPT ![r] = "moved"]
              /\ coll' = coll
      /\ UNCHANGED <<in, index, pass, map>>

------------------------------------------------------------------------------
(* computational_gain() *)

(* The largest part of this rank's cells that goes elsewhere.              *)
MaxSendrecv(r) == MaxOf({0} \cup {Of("row", r, 1)[i] : i \in {k \in Rank : map[r][k] # r}})

WeighNew(r) ==
  /\ pc[r] = "new" /\ Complete("new", 1)
  /\ Contribute("cost", r, [old |-> WeightOf(Cells(r)),
                            new |-> SumOf([q \in Rank |-> Of("new", q, 1)[r]], P),
                            sendrecv |-> MaxSendrecv(r)])
  /\ pc' = [pc EXCEPT ![r] = "cost"]
  /\ UNCHANGED <<in, index, pass, map, target>>

OldMax == MaxOf({Of("cost", q, 1).old : q \in Rank})
NewMax == MaxOf({Of("cost", q, 1).new : q \in Rank})

Sendrecv(r) == MaxOf({Of("cost", q, 1).sendrecv : q \in Rank})

(* The difference of the loads is one of size_t.                           *)
Gain(r) ==
  in.tf * in.ndims * in.ndims * ((OldMax - NewMax + Width) % Width)
    > in.ts + in.tb * in.ndims * Sendrecv(r)

Decide(r) ==
  /\ pc[r] = "cost" /\ Complete("cost", 1)
  /\ pc' = [pc EXCEPT ![r] = IF Gain(r) THEN "moved" ELSE "kept"]
  /\ UNCHANGED <<in, coll, index, pass, map, target>>

Step(r) ==
  \/ Weigh(r) \/ Partition(r) \/ StartSort(r) \/ PlaceIndices(r) \/ CollectIndices(r)
  \/ Assign(r) \/ ReceiveMap(r) \/ Reassign(r) \/ WeighNew(r) \/ Decide(r)

Next == \E r \in Rank : Step(r)

Spec == Init /\ [][Next]_vars

(* The ranks are processes that run on, and MPI progresses.                *)
FairSpec == Spec /\ \A r \in Rank : WF_vars(Step(r))

------------------------------------------------------------------------------
(* Properties *)

Done == {"balanced", "kept", "moved"}
AllDone == \A r \in Rank : pc[r] \in Done

(* When the sort is over, the indices of all ranks together are the        *)
(* entries of the similarity matrix, each once, by increasing value.       *)
SortedOrder ==
  Complete("sorted", 1) =>
    /\ {Order(n) : n \in 0 .. (P * P - 1)} = 0 .. (P * P - 1)
    /\ \A n \in 1 .. (P * P - 1) : Similarity(Order(n - 1)) <= Similarity(Order(n))

(* A ring never brings a rank more pairs than its buffer of 2 P numbers    *)
(* holds, nor two for one place.                                           *)
RingFits ==
  \A r \in Rank : pc[r] = "ring" /\ Complete("ring", pass[r] + 1) =>
    \A k \in Rank : Cardinality({p \in Arrived(r) \cup Of("ring", r, pass[r] + 1)[r] : p[1] = k}) = 1

(* Each part goes to one rank and each rank gets one part, so that the     *)
(* balance the partitioner found is the balance after the reassignment.    *)
PartsKeptWhole ==
  AllDone /\ ~Balanced(0) =>
    \A r \in Rank : \E p \in Rank :
      {c \in DOMAIN in.rank : target[in.rank[c]][c] = r} = {c \in DOMAIN in.rank : in.part[c] = p}

(* Every rank returns from balance().                                      *)
Termination == <>AllDone

==============================================================================
