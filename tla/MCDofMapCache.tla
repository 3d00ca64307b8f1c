----------------------------- MODULE MCDofMapCache -----------------------------
(* Programs for TLC that keep spaces over changes of the mesh.             *)
EXTENDS DofMapCache

Acquire(s) == [do |-> "acquire", space |-> s]
Drop(s) == [do |-> "release", space |-> s]
Remesh(f) == [do |-> "change", size |-> f]

(* A change that leaves all sizes, and one that leaves that of rank 0.     *)
Same == [r \in Rank |-> 0]
Other == [r \in Rank |-> r]

MCSignature == [u |-> "P1", v |-> "P1", p |-> "P0"]

MCPrograms ==
  {<<Acquire("u"), Acquire("p"), Remesh(f), Acquire("v"), Drop("u"), Remesh(g),
     Acquire("u"), Drop("v"), Acquire("v"), Drop("u"), Drop("p")>> : f, g \in {Same, Other}}
  \cup {<<Remesh(f), Acquire("u"), Acquire("v"), Drop("u"), Remesh(g), Acquire("u"),
          Drop("v"), Drop("u"), Acquire("p"), Remesh(g), Drop("p"), Acquire("p")>> :
            f, g \in {Same, Other}}
==============================================================================
