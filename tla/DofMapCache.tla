------------------------------ MODULE DofMapCache ------------------------------
(***************************************************************************)
(* The cache that shares the dof maps of the forms and function spaces of  *)
(* a program.  All ranks run one program; each keeps its own cache, finds  *)
(* a dof map by the hash of the mesh, and builds it with the others when   *)
(* it is not there.  The hash has the second, by the clock of the rank, in *)
(* which the mesh was made.                                                *)
(***************************************************************************)
EXTENDS MeshLayout, Sequences

CONSTANTS
  Programs,  \* sequences of operations, see WellFormedProgram
  Signature  \* the signature of the dof map of a space

Spaces == DOMAIN Signature

(***************************************************************************)
(* An operation makes a new mesh in the place of the old one, by           *)
(* refinement or to balance the load, with size[r] entities on rank r; or  *)
(* a space acquires its dof map; or it releases it.                        *)
(***************************************************************************)
Op == [do : {"change"}, size : [Rank -> Nat]] \cup [do : {"acquire", "release"}, space : Spaces]

Holding(p, n, s) ==
  \E a \in 1 .. n : /\ p[a].do = "acquire" /\ p[a].space = s
                    /\ \A b \in a .. n : ~(p[b].do = "release" /\ p[b].space = s)

WellFormedProgram(p) ==
  p \in Seq(Op) /\ \A n \in DOMAIN p :
    /\ p[n].do = "acquire" => ~Holding(p, n - 1, p[n].space)
    /\ p[n].do = "release" => Holding(p, n - 1, p[n].space)

ASSUME ProgramsAssumption == \A p \in Programs : WellFormedProgram(p)

VARIABLES
  program, \* what the ranks run; never changes
  step,    \* the operation a rank is at
  mesh,    \* the mesh at each operation so far: when it was made, and its size
  cache_,  \* from the hash to the dof map and the count
  rlist_,  \* from the dof map back to the hash
  ref,     \* the dof map of each space that has one, and where it got it
  built,   \* the operations for which a rank has begun to build
  pc       \* "running", "building", "over" or "error"

vars == <<program, step, mesh, cache_, rlist_, ref, built, pc>>

Init ==
  /\ program \in Programs
  /\ step = [r \in Rank |-> 1]
  /\ mesh = [r \in Rank |-> <<[time |-> 0, size |-> 0]>>]
  /\ cache_ = [r \in Rank |-> <<>>]
  /\ rlist_ = [r \in Rank |-> <<>>]
  /\ ref = [r \in Rank |-> <<>>]
  /\ built = [r \in Rank |-> <<>>]
  /\ pc = [r \in Rank |-> "running"]

------------------------------------------------------------------------------
At(r, do) ==
  /\ pc[r] = "running" /\ step[r] <= Len(program)
  /\ program[step[r]].do = do

(* The mesh of a rank, which has one at a time.                            *)
Now(r) == mesh[r][step[r]]

Then(r, m) ==
  /\ mesh' = [mesh EXCEPT ![r] = Append(@, m)]
  /\ step' = [step EXCEPT ![r] = @ + 1]

Done(r) == Then(r, Now(r))

(* By the clock of the rank the new mesh is made in the same second or in  *)
(* a later one; how much later no hash tells.                              *)
Change(r) ==
  /\ At(r, "change")
  /\ \E later \in {0, 1} :
       Then(r, [time |-> Now(r).time + later, size |-> program[step[r]].size[r]])
  /\ UNCHANGED <<program, cache_, rlist_, ref, built, pc>>

------------------------------------------------------------------------------
(* mutant: the time is left out of the hash *)
HashOfSize(r) == <<Now(r).size>>

(* The address of the mesh is the same after a change.                     *)
Hash(r) == <<Now(r).time, Now(r).size>>

Key(r) == <<Signature[program[step[r]].space], Hash(r)>>

(* mutant: a second reference is not counted *)
CountedOnce(token) == token

Counted(token) == [token EXCEPT !.count = @ + 1]

(* A map with an entry more, and with one less.                            *)
With(f, x, e) == [y \in DOMAIN f \cup {x} |-> IF y \in DOMAIN f THEN f[y] ELSE e]

Without(f, x) == [y \in DOMAIN f \ {x} |-> f[y]]

Refer(r, item) ==
  ref' = [ref EXCEPT ![r] =
            With(@, program[step[r]].space, [item |-> item, at |-> step[r]])]

(* The dof map is in the cache; that it has the same hash is checked.      *)
AcquireHit(r) ==
  LET token == cache_[r][Key(r)]
      agrees == token.item.hash = Key(r)
  IN  /\ At(r, "acquire") /\ Key(r) \in DOMAIN cache_[r]
      /\ IF agrees
         THEN /\ cache_' = [cache_ EXCEPT ![r][Key(r)] = Counted(@)]
              /\ Refer(r, token.item)
              /\ Done(r)
              /\ UNCHANGED pc
         ELSE /\ pc' = [pc EXCEPT ![r] = "error"]
              /\ UNCHANGED <<cache_, ref, step, mesh>>
      /\ UNCHANGED <<program, rlist_, built>>

(* It is not: DofMap::DofMap() numbers the dofs, with the other ranks.     *)
AcquireMiss(r) ==
  /\ At(r, "acquire") /\ Key(r) \notin DOMAIN cache_[r]
  /\ built' = [built EXCEPT ![r] = Append(@, step[r])]
  /\ pc' = [pc EXCEPT ![r] = "building"]
  /\ UNCHANGED <<program, step, mesh, cache_, rlist_, ref>>

(* The reductions of the numbering end when all ranks have come as far.    *)
Build(r) ==
  LET item == [hash |-> Key(r), number |-> Len(built[r])]
  IN  /\ pc[r] = "building"
      /\ \A q \in Rank : Len(built[q]) >= Len(built[r])
      /\ cache_' = [cache_ EXCEPT ![r] = With(@, Key(r), [item |-> item, count |-> 1])]
      /\ rlist_' = [rlist_ EXCEPT ![r] = With(@, item, Key(r))]
      /\ Refer(r, item)
      /\ Done(r)
      /\ pc' = [pc EXCEPT ![r] = "running"]
      /\ UNCHANGED <<program, built>>

(* mutant: the dof map is looked up by the hash that the mesh has now      *)
ExpectedNow(r, item) == <<item.hash[1], Hash(r)>>

Expected(r, item) == rlist_[r][item]

(* With the last reference the token goes.                                 *)
Uncounted(token) == [token EXCEPT !.count = @ - 1]

Dropped(cache, key) ==
  IF cache[key].count = 1 THEN Without(cache, key) ELSE [cache EXCEPT ![key] = Uncounted(@)]

(* A dof map without a hash, or with another one, is an error.             *)
Release(r) ==
  LET s == program[step[r]].space
      item == ref[r][s].item
      key == Expected(r, item)
      known == item \in DOMAIN rlist_[r] /\ key = item.hash
      last == cache_[r][key].count = 1
  IN  /\ At(r, "release")
      /\ IF known
         THEN /\ cache_' = [cache_ EXCEPT ![r] = Dropped(@, key)]
              /\ rlist_' = [rlist_ EXCEPT ![r] = IF last THEN Without(@, item) ELSE @]
              /\ ref' = [ref EXCEPT ![r] = Without(@, s)]
              /\ Done(r)
              /\ UNCHANGED pc
         ELSE /\ pc' = [pc EXCEPT ![r] = "error"]
              /\ UNCHANGED <<cache_, rlist_, ref, step, mesh>>
      /\ UNCHANGED <<program, built>>

(* The destructor of the cache deletes what is left in it.                 *)
Exit(r) ==
  /\ pc[r] = "running" /\ step[r] > Len(program)
  /\ cache_' = [cache_ EXCEPT ![r] = <<>>]
  /\ pc' = [pc EXCEPT ![r] = "over"]
  /\ UNCHANGED <<program, step, mesh, rlist_, ref, built>>

------------------------------------------------------------------------------
Run(r) ==
  \/ Change(r) \/ AcquireHit(r) \/ AcquireMiss(r) \/ Build(r) \/ Release(r) \/ Exit(r)

Next == \E r \in Rank : Run(r)

Spec == Init /\ [][Next]_vars

(* A rank that can go on does.                                             *)
FairSpec == Spec /\ \A r \in Rank : WF_vars(Run(r))

------------------------------------------------------------------------------
(* Properties *)

(* A space never refers to a dof map that was deleted, and the count of a  *)
(* dof map is the number of spaces that refer to it: it is deleted with    *)
(* the last one, whatever has become of the mesh since.                    *)
SpacesAlive ==
  \A r \in Rank : pc[r] # "over" =>
    LET users(item) == {s \in DOMAIN ref[r] : ref[r][s].item = item}
        tokens == {cache_[r][key] : key \in DOMAIN cache_[r]}
    IN  /\ \A s \in DOMAIN ref[r] : \E t \in tokens : t.item = ref[r][s].item
        /\ \A t \in tokens : t.count = Cardinality(users(t.item))
        /\ DOMAIN rlist_[r] = {t.item : t \in tokens}

(* Two spaces have one dof map when they acquired it with one signature    *)
(* for meshes that were made in one second with as many entities on the    *)
(* rank, and only then, whatever was acquired and released in between.  So *)
(* a space gets the dof map of a mesh that has been replaced only when     *)
(* neither the clock nor the size tells the two meshes apart.              *)
SharedByMesh ==
  \A r \in Rank : pc[r] # "over" =>
    \A s, t \in DOMAIN ref[r] :
      ref[r][s].item = ref[r][t].item
        <=> /\ mesh[r][ref[r][s].at] = mesh[r][ref[r][t].at]
            /\ Signature[s] = Signature[t]

(* Two ranks tell the same meshes apart, as far as both have come: their   *)
(* clocks and their parts of the meshes may differ.                        *)
Alike ==
  \A r, q \in Rank : \A i, j \in DOMAIN mesh[r] \cap DOMAIN mesh[q] :
    mesh[r][i] = mesh[r][j] <=> mesh[q][i] = mesh[q][j]

(* As long as no rank takes for one mesh what are two for another, no rank *)
(* is left in a build that another has no need of, and none stops: also    *)
(* when all of them take two meshes for one.                               *)
Termination == []Alike => <>(\A r \in Rank : pc[r] = "over")
==============================================================================
