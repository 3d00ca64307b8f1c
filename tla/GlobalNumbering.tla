--------------------------- MODULE GlobalNumbering ---------------------------
(***************************************************************************)
(* What DistributedData::renumber_global() promises to its callers: each   *)
(* rank, at some point, holds the canonical numbering in place of the      *)
(* exported one.  No message, buffer or reduction is left in it.           *)
(***************************************************************************)
EXTENDS MeshLayout

CONSTANT Layouts

VARIABLES
  layout,    \* the exported mesh
  published, \* the rank has its new numbering
  numbers    \* local to global, on each rank

vars == <<layout, published, numbers>>

Init ==
  /\ layout \in Layouts
  /\ published = [r \in Rank |-> FALSE]
  /\ numbers = layout.ids

Publish(r) ==
  /\ ~published[r]
  /\ published' = [published EXCEPT ![r] = TRUE]
  /\ numbers' = [numbers EXCEPT ![r] =
                   [i \in Local(layout, r) |-> Canonical(layout, r, i)]]
  /\ UNCHANGED layout

Next == \E r \in Rank : Publish(r)

Spec == Init /\ [][Next]_vars
==============================================================================
