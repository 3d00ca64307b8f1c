------------------------------ MODULE CommGroups ------------------------------
(***************************************************************************)
(* MPI::initComm(): each process of the world works out, by itself, the    *)
(* group it belongs to and the range of world ranks in the group, then all *)
(* of them create the communicators of their groups together.              *)
(***************************************************************************)
EXTENDS Integers, FiniteSets

World(wsize) == 0 .. (wsize - 1)

Minimum(a, b) == IF a < b THEN a ELSE b

Share(wsize, ngroups) == wsize \div ngroups
Rest(wsize, ngroups) == wsize % ngroups

(* mutant: the processes that are left over go to no group *)
GroupSizeShare(wsize, ngroups, w) == Share(wsize, ngroups)

(* The first Rest groups take one process more than the others.            *)
GroupSize(wsize, ngroups, w) ==
  LET p == Share(wsize, ngroups)
  IN  IF w < (p + 1) * Rest(wsize, ngroups) THEN p + 1 ELSE p

GroupRoot(wsize, ngroups, k) == k * Share(wsize, ngroups) + Minimum(k, Rest(wsize, ngroups))

(* The group of a process: the larger size is used for all processes as    *)
(* soon as there is one larger group.                                      *)
GroupIndex(wsize, ngroups, w) ==
  w \div (Share(wsize, ngroups) + (IF Rest(wsize, ngroups) # 0 THEN 1 ELSE 0))

Splits(wsize, ngroups) == ngroups > 1 /\ wsize >= ngroups

(* What process w puts in the context of MPI: its group, the number of     *)
(* groups, and the range of the processes in its group.                    *)
Context(wsize, ngroups, w) ==
  LET k == GroupIndex(wsize, ngroups, w)
      root == GroupRoot(wsize, ngroups, k)
  IN  IF Splits(wsize, ngroups)
      THEN [idx |-> k, cnt |-> ngroups, first |-> root,
            last |-> root + GroupSize(wsize, ngroups, w) - 1]
      ELSE [idx |-> 0, cnt |-> 1, first |-> 0, last |-> wsize - 1]

Contexts(wsize, ngroups) == [w \in World(wsize) |-> Context(wsize, ngroups, w)]

------------------------------------------------------------------------------
(* What the contexts of all processes should be like                       *)

Group(ctx, w) == ctx[w].first .. ctx[w].last

(* MPI_Comm_create wants the members of a group to name the same group,    *)
(* and a process to be in the group it names.                              *)
Consistent(ctx, w) ==
  w \in Group(ctx, w) /\ \A v \in Group(ctx, w) : v \in DOMAIN ctx /\ ctx[v] = ctx[w]
===============================================================================
