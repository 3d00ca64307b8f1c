--------------------------- MODULE DofMapCacheProofs ---------------------------
(***************************************************************************)
(* Proofs about the cache of dof maps, for every program that acquires and *)
(* releases in turn, on any number of ranks.  The predicates below are     *)
(* about the state of one rank, given as values: p the program, n its      *)
(* step, h its mesh at each step so far, c and l the cache and its         *)
(* reverse, f the references of the spaces, b the builds it has begun and  *)
(* s what it is doing.                                                     *)
(***************************************************************************)
EXTENDS DofMapCache, FiniteSetTheorems, TLAPS

Hashes == {Signature[x] : x \in Spaces} \X (Nat \X Nat)
Items == [hash : Hashes, number : Nat]
Tokens == [item : Items, count : Nat]
Refs == [item : Items, at : Nat]
Meshes == [time : Nat, size : Nat]

UsersIn(f, item) == {x \in DOMAIN f : f[x].item = item}

(* A token stands at the hash of its dof map and counts its users, of      *)
(* which there is one; the reverse map names the dof maps of the cache,    *)
(* each with its hash; and each reference is to what the cache has at the  *)
(* hash of the dof map.                                                    *)
CacheTyped(c, l, f) ==
  /\ c \in [DOMAIN c -> Tokens] /\ DOMAIN c \subseteq Hashes
  /\ l \in [DOMAIN l -> Hashes] /\ DOMAIN l \subseteq Items
  /\ f \in [DOMAIN f -> Refs] /\ DOMAIN f \subseteq Spaces
  /\ IsFiniteSet(DOMAIN f)

Counts(c, f) ==
  \A k \in DOMAIN c : /\ c[k].item.hash = k
                      /\ UsersIn(f, c[k].item) # {}
                      /\ c[k].count = Cardinality(UsersIn(f, c[k].item))

Reverses(c, l) ==
  /\ \A k \in DOMAIN c : c[k].item \in DOMAIN l
  /\ \A i \in DOMAIN l : /\ i.hash \in DOMAIN c /\ c[i.hash].item = i
                         /\ l[i] = i.hash

Refers(c, f) ==
  \A x \in DOMAIN f : /\ f[x].item.hash \in DOMAIN c
                      /\ c[f[x].item.hash].item = f[x].item

CacheInv(c, l, f) == CacheTyped(c, l, f) /\ Counts(c, f) /\ Reverses(c, l) /\ Refers(c, f)

(* The spaces with a reference are those the program holds here, and what  *)
(* is built is missing.                                                    *)
HashOf(m) == <<m.time, m.size>>

KeyOf(p, n, h) == <<Signature[p[n].space], HashOf(h[n])>>

StepInv(p, n, h, f, s) ==
  /\ p \in Programs /\ n \in 1 .. Len(p) + 1
  /\ h \in Seq(Meshes) /\ Len(h) = n
  /\ s \in {"running", "building", "over"}
  /\ \A x \in Spaces : x \in DOMAIN f <=> Holding(p, n - 1, x)

BuildInv(p, n, h, c, s) ==
  s = "building" => /\ n <= Len(p) /\ p[n].do = "acquire"
                    /\ KeyOf(p, n, h) \notin DOMAIN c

AliveInv ==
  /\ built \in [Rank -> Seq(Nat)]
  /\ DOMAIN cache_ = Rank /\ DOMAIN rlist_ = Rank /\ DOMAIN ref = Rank
  /\ DOMAIN step = Rank /\ DOMAIN mesh = Rank /\ DOMAIN pc = Rank
  /\ \A r \in Rank :
       /\ StepInv(program, step[r], mesh[r], ref[r], pc[r])
       /\ pc[r] # "over" =>
            /\ CacheInv(cache_[r], rlist_[r], ref[r])
            /\ BuildInv(program, step[r], mesh[r], cache_[r], pc[r])

(***************************************************************************)
(* What a rank finds in the cache is a matter of the program and of which  *)
(* meshes its hashes tell apart.                                           *)
(***************************************************************************)

(* Space x acquired its dof map at step a and has it after n steps.        *)
Taken(p, n, x, a) ==
  /\ a \in 1 .. n /\ p[a].do = "acquire" /\ p[a].space = x
  /\ \A b \in a .. n : ~(p[b].do = "release" /\ p[b].space = x)

(* At its n-th step the rank finds no dof map: none that was acquired for  *)
(* a mesh like the one it has now is still there.                          *)
Missing(p, h, n) ==
  /\ p[n].do = "acquire"
  /\ ~\E x \in Spaces : \E a \in 1 .. n - 1 :
        /\ Taken(p, n - 1, x, a) /\ h[a] = h[n]
        /\ Signature[x] = Signature[p[n].space]

Misses(p, h, n) == {j \in 1 .. n : Missing(p, h, j)}

Reached(n, s) == IF s = "building" THEN n ELSE n - 1

(* Each reference was taken when it says, with the hash of the mesh there  *)
(* was then.                                                               *)
RefersByMesh(p, n, h, f) ==
  \A x \in DOMAIN f : /\ Taken(p, n - 1, x, f[x].at)
                      /\ f[x].item.hash = <<Signature[x], HashOf(h[f[x].at])>>

BuiltByProgram(p, n, h, b, s) ==
  /\ b \in Seq(Nat)
  /\ Len(b) = Cardinality(Misses(p, h, Reached(n, s)))
  /\ \A i \in 1 .. Len(b) : /\ b[i] \in 1 .. n /\ Missing(p, h, b[i])
                            /\ Cardinality(Misses(p, h, b[i])) = i
  /\ s = "over" => n = Len(p) + 1

Versions(p, n, h, f, b, s) == RefersByMesh(p, n, h, f) /\ BuiltByProgram(p, n, h, b, s)

VersionsInv ==
  /\ DOMAIN built = Rank
  /\ \A r \in Rank : Versions(program, step[r], mesh[r], ref[r], built[r], pc[r])

(* The i-th dof map that two ranks build is for the same operation of the  *)
(* program: the collective calls of DofMap::DofMap() meet.                 *)
BuildsAgree ==
  \A r, q \in Rank : \A i \in DOMAIN built[r] \cap DOMAIN built[q] :
    built[r][i] = built[q][i]

(* A rank that builds waits for ranks which are behind it and go on.       *)
AwaitsOthers ==
  \A r, q \in Rank : pc[r] = "building" /\ Len(built[q]) < Len(built[r]) =>
    \/ step[q] < step[r] /\ pc[q] \in {"running", "building"}
    \/ step[q] = step[r] /\ pc[q] = "running"

------------------------------------------------------------------------------
(* Functions with an entry more or less, and the users of a dof map *)

LEMMA EntryAdded ==
  ASSUME NEW f, NEW x, x \notin DOMAIN f, NEW e
  PROVE  /\ DOMAIN With(f, x, e) = DOMAIN f \cup {x}
         /\ With(f, x, e)[x] = e
         /\ \A y \in DOMAIN f : With(f, x, e)[y] = f[y]
BY DEF With

LEMMA EntryAddedTyped ==
  ASSUME NEW D, NEW f, f \in [DOMAIN f -> D], NEW x, NEW e \in D
  PROVE  With(f, x, e) \in [DOMAIN With(f, x, e) -> D]
BY DEF With

LEMMA EntryTaken ==
  ASSUME NEW f, NEW x
  PROVE  /\ DOMAIN Without(f, x) = DOMAIN f \ {x}
         /\ \A y \in DOMAIN f \ {x} : Without(f, x)[y] = f[y]
BY DEF Without

LEMMA EntryTakenTyped ==
  ASSUME NEW D, NEW f, f \in [DOMAIN f -> D], NEW x
  PROVE  Without(f, x) \in [DOMAIN Without(f, x) -> D]
BY DEF Without

LEMMA UsersCounted ==
  ASSUME NEW f, IsFiniteSet(DOMAIN f), NEW i
  PROVE  /\ IsFiniteSet(UsersIn(f, i)) /\ Cardinality(UsersIn(f, i)) \in Nat
         /\ Cardinality(UsersIn(f, i)) = 0 <=> UsersIn(f, i) = {}
<1>1. UsersIn(f, i) \subseteq DOMAIN f BY DEF UsersIn
<1>2. IsFiniteSet(UsersIn(f, i)) BY <1>1, FS_Subset
<1> QED BY <1>2, FS_CardinalityType, FS_EmptySet

LEMMA UserAdded ==
  ASSUME NEW f, IsFiniteSet(DOMAIN f), NEW x, x \notin DOMAIN f, NEW e
  PROVE  UsersIn(With(f, x, e), e.item) = UsersIn(f, e.item) \cup {x}
<1> DEFINE g == With(f, x, e)
<1>1. DOMAIN g = DOMAIN f \cup {x} /\ g[x] = e /\ \A y \in DOMAIN f : g[y] = f[y]
  BY DEF With
<1> HIDE DEF g
<1>2. UsersIn(g, e.item) = UsersIn(f, e.item) \cup {x} BY <1>1 DEF UsersIn
<1> QED BY <1>2 DEF g

LEMMA UserAddedCount ==
  ASSUME NEW f, IsFiniteSet(DOMAIN f), NEW x, x \notin DOMAIN f, NEW e
  PROVE  Cardinality(UsersIn(With(f, x, e), e.item))
           = Cardinality(UsersIn(f, e.item)) + 1
<1>1. x \notin UsersIn(f, e.item) BY DEF UsersIn
<1>2. IsFiniteSet(UsersIn(f, e.item)) BY UsersCounted
<1>3. UsersIn(With(f, x, e), e.item) = UsersIn(f, e.item) \cup {x} BY UserAdded
<1> QED BY <1>1, <1>2, <1>3, FS_AddElement

LEMMA UserAddedElsewhere ==
  ASSUME NEW f, NEW x, x \notin DOMAIN f, NEW e, NEW i, i # e.item
  PROVE  UsersIn(With(f, x, e), i) = UsersIn(f, i)
BY DEF With, UsersIn

LEMMA UserTaken ==
  ASSUME NEW f, IsFiniteSet(DOMAIN f), NEW x \in DOMAIN f
  PROVE  UsersIn(Without(f, x), f[x].item) = UsersIn(f, f[x].item) \ {x}
BY DEF Without, UsersIn

LEMMA UserTakenCount ==
  ASSUME NEW f, IsFiniteSet(DOMAIN f), NEW x \in DOMAIN f
  PROVE  Cardinality(UsersIn(Without(f, x), f[x].item))
           = Cardinality(UsersIn(f, f[x].item)) - 1
<1>1. x \in UsersIn(f, f[x].item) BY DEF UsersIn
<1>2. IsFiniteSet(UsersIn(f, f[x].item)) BY UsersCounted
<1>3. UsersIn(Without(f, x), f[x].item) = UsersIn(f, f[x].item) \ {x} BY UserTaken
<1> QED BY <1>1, <1>2, <1>3, FS_RemoveElement

LEMMA UserTakenElsewhere ==
  ASSUME NEW f, NEW x \in DOMAIN f, NEW i, i # f[x].item
  PROVE  UsersIn(Without(f, x), i) = UsersIn(f, i)
BY DEF Without, UsersIn

------------------------------------------------------------------------------
(* What the operations on the cache of a rank do *)

(* A reference more to a dof map of the cache.                             *)
LEMMA HitResult ==
  ASSUME NEW c, NEW l, NEW f, CacheInv(c, l, f),
         NEW k \in DOMAIN c, NEW x \in Spaces, x \notin DOMAIN f,
         NEW e \in Refs, e.item = c[k].item,
         NEW d, d = [c EXCEPT ![k] = Counted(@)]
  PROVE  CacheInv(d, l, With(f, x, e))
<1> DEFINE g == With(f, x, e)
<1> USE DEF CacheInv
<1>1. c[k] \in Tokens /\ k \in Hashes /\ c[k].item \in Items /\ c[k].count \in Nat
  BY DEF CacheTyped, Tokens
<1>2. DOMAIN d = DOMAIN c /\ \A y \in DOMAIN c : y # k => d[y] = c[y]
  OBVIOUS
<1>3. d[k] = [c[k] EXCEPT !.count = @ + 1] BY DEF Counted
<1>4. d[k] \in Tokens /\ d[k].item = c[k].item /\ d[k].count = c[k].count + 1
  BY <1>1, <1>3 DEF Tokens
<1>5. e \in Refs /\ e.item = c[k].item OBVIOUS
<1>6. DOMAIN g = DOMAIN f \cup {x} /\ g[x] = e /\ \A y \in DOMAIN f : g[y] = f[y]
  BY DEF With
<1>7. g \in [DOMAIN g -> Refs] BY <1>5, EntryAddedTyped DEF CacheTyped
<1>8. IsFiniteSet(DOMAIN f) BY DEF CacheTyped
<1>14. IsFiniteSet(DOMAIN g) BY <1>6, <1>8, FS_AddElement
<1>15. x \in UsersIn(g, e.item) BY <1>6 DEF UsersIn
<1>16. Cardinality(UsersIn(g, e.item)) = Cardinality(UsersIn(f, e.item)) + 1
  BY <1>8, UserAddedCount
<1>17. ASSUME NEW i, i # e.item PROVE UsersIn(g, i) = UsersIn(f, i)
  BY <1>17, UserAddedElsewhere
<1> HIDE DEF g
<1>9. CacheTyped(d, l, g)
  <2>1. d \in [DOMAIN d -> Tokens]
    <3>1. \A y \in DOMAIN c : c[y] \in Tokens BY DEF CacheTyped
    <3>2. d = [y \in DOMAIN d |-> d[y]] OBVIOUS
    <3>3. \A y \in DOMAIN d : d[y] \in Tokens BY <1>2, <1>4, <3>1
    <3> QED BY <3>2, <3>3
  <2> QED BY <1>2, <1>6, <1>7, <1>14, <2>1 DEF CacheTyped
<1>10. Counts(d, g)
  <2> SUFFICES ASSUME NEW y \in DOMAIN d
               PROVE  /\ d[y].item.hash = y /\ UsersIn(g, d[y].item) # {}
                      /\ d[y].count = Cardinality(UsersIn(g, d[y].item))
    BY DEF Counts
  <2>1. CASE y = k BY <1>2, <1>4, <1>5, <1>15, <1>16, <2>1 DEF Counts
  <2>2. CASE y # k
    <3>1. d[y] = c[y] /\ y \in DOMAIN c BY <1>2, <2>2
    <3>2. c[y].item # c[k].item BY <2>2, <3>1 DEF Counts
    <3> QED BY <1>5, <1>17, <3>1, <3>2 DEF Counts
  <2> QED BY <2>1, <2>2
<1>11. \A y \in DOMAIN c : d[y].item = c[y].item BY <1>2, <1>4
<1>12. Reverses(d, l) BY <1>2, <1>11 DEF Reverses
<1>13. Refers(d, g)
  <2>1. c[k].item.hash = k BY DEF Counts
  <2>2. g[x].item.hash = k /\ d[k].item = g[x].item BY <1>4, <1>5, <1>6, <2>1
  <2> QED BY <1>2, <1>6, <1>11, <2>2 DEF Refers
<1> QED BY <1>9, <1>10, <1>12, <1>13 DEF g

(* A dof map that is built for a hash that the cache does not have.        *)
LEMMA BuildResult ==
  ASSUME NEW c, NEW l, NEW f, CacheInv(c, l, f),
         NEW k \in Hashes, k \notin DOMAIN c, NEW x \in Spaces, x \notin DOMAIN f,
         NEW j \in Items, j.hash = k,
         NEW t \in Tokens, t.item = j, t.count = 1,
         NEW e \in Refs, e.item = j
  PROVE  CacheInv(With(c, k, t), With(l, j, k), With(f, x, e))
<1> DEFINE d == With(c, k, t)
           h == With(l, j, k)
           g == With(f, x, e)
<1> USE DEF CacheInv
<1>1. j \notin DOMAIN l BY DEF Reverses
<1>2. UsersIn(f, j) = {} BY DEF Refers, UsersIn
<1>3. DOMAIN d = DOMAIN c \cup {k} /\ d[k] = t /\ \A y \in DOMAIN c : d[y] = c[y]
  BY DEF With
<1>4. DOMAIN h = DOMAIN l \cup {j} /\ h[j] = k /\ \A y \in DOMAIN l : h[y] = l[y]
  BY <1>1 DEF With
<1>5. DOMAIN g = DOMAIN f \cup {x} /\ g[x] = e /\ \A y \in DOMAIN f : g[y] = f[y]
  BY DEF With
<1>6. /\ d \in [DOMAIN d -> Tokens] /\ h \in [DOMAIN h -> Hashes]
      /\ g \in [DOMAIN g -> Refs]
  BY EntryAddedTyped DEF CacheTyped
<1>7. IsFiniteSet(DOMAIN f) BY DEF CacheTyped
<1>8. IsFiniteSet(DOMAIN g) BY <1>5, <1>7, FS_AddElement
<1>9. UsersIn(g, j) = {x}
  <2>1. UsersIn(g, e.item) = UsersIn(f, e.item) \cup {x} BY <1>7, UserAdded
  <2> QED BY <1>2, <2>1
<1>10. Cardinality({x}) = 1 BY FS_Singleton
<1>11. ASSUME NEW i, i # j PROVE UsersIn(g, i) = UsersIn(f, i)
  BY <1>11, UserAddedElsewhere
<1> HIDE DEF d, g, h
<1>12. CacheTyped(d, h, g)
  BY <1>3, <1>4, <1>5, <1>6, <1>8 DEF CacheTyped
<1>13. Counts(d, g)
  <2> SUFFICES ASSUME NEW y \in DOMAIN d
               PROVE  /\ d[y].item.hash = y /\ UsersIn(g, d[y].item) # {}
                      /\ d[y].count = Cardinality(UsersIn(g, d[y].item))
    BY DEF Counts
  <2>1. CASE y = k BY <1>3, <1>9, <1>10, <2>1
  <2>2. CASE y # k
    <3>1. d[y] = c[y] /\ y \in DOMAIN c BY <1>3, <2>2
    <3>2. c[y].item # j BY <2>2, <3>1 DEF Counts
    <3> QED BY <1>11, <3>1, <3>2 DEF Counts
  <2> QED BY <2>1, <2>2
<1>14. Reverses(d, h)
  <2>1. \A y \in DOMAIN d : d[y].item \in DOMAIN h BY <1>3, <1>4 DEF Reverses
  <2>2. ASSUME NEW i \in DOMAIN h
        PROVE  i.hash \in DOMAIN d /\ d[i.hash].item = i /\ h[i] = i.hash
    <3>1. CASE i = j BY <1>3, <1>4, <3>1
    <3>2. CASE i # j BY <1>3, <1>4, <3>2 DEF Reverses
    <3> QED BY <3>1, <3>2
  <2> QED BY <2>1, <2>2 DEF Reverses
<1>15. Refers(d, g)
  <2> SUFFICES ASSUME NEW y \in DOMAIN g
               PROVE  /\ g[y].item.hash \in DOMAIN d
                      /\ d[g[y].item.hash].item = g[y].item
    BY DEF Refers
  <2>1. CASE y = x BY <1>3, <1>5, <2>1
  <2>2. CASE y # x BY <1>3, <1>5, <2>2 DEF Refers
  <2> QED BY <2>1, <2>2
<1> QED BY <1>12, <1>13, <1>14, <1>15 DEF d, g, h

(* A reference that is given back, the last to the dof map.                *)
LEMMA LastReleaseResult ==
  ASSUME NEW c, NEW l, NEW f, CacheInv(c, l, f), NEW x \in DOMAIN f,
         NEW k, k = f[x].item.hash, c[k].count = 1
  PROVE  CacheInv(Without(c, k), Without(l, f[x].item), Without(f, x))
<1> DEFINE j == f[x].item
           d == Without(c, k)
           h == Without(l, j)
           g == Without(f, x)
<1> USE DEF CacheInv
<1>1. k \in DOMAIN c /\ c[k].item = j /\ j.hash = k BY DEF Refers
<1>2. IsFiniteSet(DOMAIN f) BY DEF CacheTyped
<1>3. UsersIn(f, j) = {x}
  <2>1. Cardinality(UsersIn(f, j)) = 1 BY <1>1 DEF Counts
  <2>2. x \in UsersIn(f, j) BY DEF UsersIn
  <2>3. IsFiniteSet(UsersIn(f, j)) BY <1>2, UsersCounted
  <2>4. PICK y : UsersIn(f, j) = {y} BY <2>1, <2>3, FS_Singleton
  <2> QED BY <2>2, <2>4
<1>4. UsersIn(g, j) = {} 
  <2>1. UsersIn(g, j) = UsersIn(f, j) \ {x} BY <1>2, UserTaken
  <2> QED BY <1>3, <2>1
<1>5. ASSUME NEW i, i # j PROVE UsersIn(g, i) = UsersIn(f, i)
  BY <1>5, UserTakenElsewhere
<1>6. DOMAIN d = DOMAIN c \ {k} /\ \A y \in DOMAIN c : y # k => d[y] = c[y]
  BY DEF Without
<1>7. DOMAIN h = DOMAIN l \ {j} /\ \A y \in DOMAIN l : y # j => h[y] = l[y]
  BY DEF Without
<1>8. DOMAIN g = DOMAIN f \ {x} /\ \A y \in DOMAIN f : y # x => g[y] = f[y]
  BY DEF Without
<1>9. /\ d \in [DOMAIN d -> Tokens] /\ h \in [DOMAIN h -> Hashes]
      /\ g \in [DOMAIN g -> Refs]
  BY EntryTakenTyped DEF CacheTyped
<1>10. IsFiniteSet(DOMAIN g) BY <1>2, <1>8, FS_RemoveElement
<1> HIDE DEF d, g, h, j
<1>11. CacheTyped(d, h, g) BY <1>6, <1>7, <1>8, <1>9, <1>10 DEF CacheTyped
<1>12. \A y \in DOMAIN d : c[y].item # j BY <1>1, <1>6 DEF Counts
<1>13. Counts(d, g) BY <1>5, <1>6, <1>12 DEF Counts
<1>14. Reverses(d, h)
  <2>1. \A i \in DOMAIN h : i.hash # k BY <1>1, <1>7 DEF Reverses
  <2> QED BY <1>6, <1>7, <1>12, <2>1 DEF Reverses
<1>15. Refers(d, g)
  <2> SUFFICES ASSUME NEW y \in DOMAIN g
               PROVE  /\ g[y].item.hash \in DOMAIN d
                      /\ d[g[y].item.hash].item = g[y].item
    BY DEF Refers
  <2>1. g[y] = f[y] /\ y \in DOMAIN f BY <1>8
  <2>2. f[y].item # j BY <1>4, <2>1 DEF UsersIn
  <2>3. f[y].item.hash # k BY <1>1, <2>1, <2>2 DEF Refers
  <2> QED BY <1>6, <2>1, <2>3 DEF Refers
<1> QED BY <1>11, <1>13, <1>14, <1>15 DEF d, g, h, j

(* A reference that is given back while there are others.                  *)
LEMMA ReleaseResult ==
  ASSUME NEW c, NEW l, NEW f, CacheInv(c, l, f), NEW x \in DOMAIN f,
         NEW k, k = f[x].item.hash, c[k].count # 1
  PROVE  CacheInv(Dropped(c, k), l, Without(f, x))
<1> DEFINE j == f[x].item
           d == [c EXCEPT ![k] = Uncounted(@)]
           g == Without(f, x)
<1> USE DEF CacheInv
<1>1. k \in DOMAIN c /\ c[k].item = j /\ j.hash = k BY DEF Refers
<1>2. IsFiniteSet(DOMAIN f) BY DEF CacheTyped
<1>3. c[k] \in Tokens /\ c[k].count \in Nat /\ c[k].item \in Items
  BY <1>1 DEF CacheTyped, Tokens
<1>4. DOMAIN d = DOMAIN c /\ \A y \in DOMAIN c : y # k => d[y] = c[y]
  OBVIOUS
<1>5. d[k] = [c[k] EXCEPT !.count = @ - 1] BY <1>1 DEF Uncounted
<1>6. Cardinality(UsersIn(g, j)) = Cardinality(UsersIn(f, j)) - 1
  BY <1>2, UserTakenCount
<1>7. ASSUME NEW i, i # j PROVE UsersIn(g, i) = UsersIn(f, i)
  BY <1>7, UserTakenElsewhere
<1>8. DOMAIN g = DOMAIN f \ {x} /\ \A y \in DOMAIN f : y # x => g[y] = f[y]
  BY DEF Without
<1>9. g \in [DOMAIN g -> Refs] BY EntryTakenTyped DEF CacheTyped
<1>10. IsFiniteSet(DOMAIN g) BY <1>2, <1>8, FS_RemoveElement
<1>11. c[k].count = Cardinality(UsersIn(f, j)) /\ UsersIn(f, j) # {}
  BY <1>1 DEF Counts
<1>12. c[k].count > 1
  <2>1. Cardinality(UsersIn(f, j)) # 0 BY <1>2, <1>11, UsersCounted
  <2> QED BY <1>3, <1>11, <2>1
<1>13. d[k] \in Tokens /\ d[k].item = j /\ d[k].count = c[k].count - 1
  BY <1>1, <1>3, <1>5, <1>12 DEF Tokens
<1>14. UsersIn(g, j) # {}
  <2>1. Cardinality(UsersIn(g, j)) # 0 BY <1>3, <1>6, <1>11, <1>12
  <2> QED BY <1>10, <2>1, UsersCounted
<1>20. Dropped(c, k) = d BY DEF Dropped
<1> HIDE DEF g, j, d
<1>15. CacheTyped(d, l, g)
  <2>1. d \in [DOMAIN d -> Tokens]
    <3>1. \A y \in DOMAIN c : c[y] \in Tokens BY DEF CacheTyped
    <3>2. d = [y \in DOMAIN d |-> d[y]] BY DEF d
    <3>3. \A y \in DOMAIN d : d[y] \in Tokens BY <1>4, <1>13, <3>1
    <3> QED BY <3>2, <3>3
  <2> QED BY <1>4, <1>8, <1>9, <1>10, <2>1 DEF CacheTyped
<1>16. \A y \in DOMAIN c : d[y].item = c[y].item BY <1>1, <1>4, <1>13
<1>17. Counts(d, g)
  <2> SUFFICES ASSUME NEW y \in DOMAIN d
               PROVE  /\ d[y].item.hash = y /\ UsersIn(g, d[y].item) # {}
                      /\ d[y].count = Cardinality(UsersIn(g, d[y].item))
    BY DEF Counts
  <2>1. CASE y = k
    <3>1. d[k].item = j /\ j.hash = k BY <1>1, <1>13
    <3>2. d[k].count = Cardinality(UsersIn(g, j)) BY <1>6, <1>11, <1>13
    <3> QED BY <1>14, <2>1, <3>1, <3>2
  <2>2. CASE y # k
    <3>1. d[y] = c[y] /\ y \in DOMAIN c BY <1>4, <2>2
    <3>2. c[y].item # j BY <1>1, <2>2, <3>1 DEF Counts
    <3>3. UsersIn(g, c[y].item) = UsersIn(f, c[y].item) BY <1>7, <3>2
    <3>4. /\ c[y].item.hash = y /\ UsersIn(f, c[y].item) # {}
          /\ c[y].count = Cardinality(UsersIn(f, c[y].item))
      BY <3>1 DEF Counts
    <3> QED BY <3>1, <3>3, <3>4
  <2> QED BY <2>1, <2>2
<1>18. Reverses(d, l) BY <1>4, <1>16 DEF Reverses
<1>19. Refers(d, g) BY <1>4, <1>8, <1>16 DEF Refers
<1> QED BY <1>15, <1>17, <1>18, <1>19, <1>20 DEF g

------------------------------------------------------------------------------
(* Programs *)

LEMMA Operation ==
  ASSUME NEW p \in Programs, NEW n \in 1 .. Len(p)
  PROVE  /\ p \in Seq(Op) /\ p[n] \in Op
         /\ p[n].do \in {"acquire", "release"} => p[n].space \in Spaces
         /\ p[n].do = "acquire" => ~Holding(p, n - 1, p[n].space)
         /\ p[n].do = "release" => Holding(p, n - 1, p[n].space)
         /\ p[n].do = "change" => \A r \in Rank : p[n].size[r] \in Nat
<1>1. p \in Seq(Op) /\ WellFormedProgram(p)
  BY ProgramsAssumption DEF WellFormedProgram
<1>2. n \in DOMAIN p BY <1>1
<1>3. p[n] \in Op BY <1>1, <1>2
<1>4. /\ p[n].do \in {"acquire", "release"} => p[n].space \in Spaces
      /\ p[n].do = "change" => \A r \in Rank : p[n].size[r] \in Nat
  BY <1>3 DEF Op
<1> QED BY <1>1, <1>2, <1>3, <1>4 DEF WellFormedProgram

(* An operation after which a space is held, and after which it is not.    *)
LEMMA HoldingStep ==
  ASSUME NEW p, NEW n \in Nat \ {0}, NEW x
  PROVE  Holding(p, n, x) <=>
           \/ p[n].do = "acquire" /\ p[n].space = x
           \/ Holding(p, n - 1, x) /\ ~(p[n].do = "release" /\ p[n].space = x)
<1>1. ASSUME p[n].do = "acquire", p[n].space = x PROVE Holding(p, n, x)
  <2>1. n \in 1 .. n /\ \A b \in n .. n : b = n OBVIOUS
  <2> QED BY <1>1, <2>1 DEF Holding
<1>2. ASSUME Holding(p, n - 1, x), ~(p[n].do = "release" /\ p[n].space = x)
      PROVE  Holding(p, n, x)
  <2>1. PICK a \in 1 .. n - 1 :
          /\ p[a].do = "acquire" /\ p[a].space = x
          /\ \A b \in a .. n - 1 : ~(p[b].do = "release" /\ p[b].space = x)
    BY <1>2 DEF Holding
  <2>2. a \in 1 .. n /\ \A b \in a .. n : b \in a .. n - 1 \/ b = n OBVIOUS
  <2> QED BY <1>2, <2>1, <2>2 DEF Holding
<1>3. ASSUME Holding(p, n, x), ~(p[n].do = "acquire" /\ p[n].space = x)
      PROVE  Holding(p, n - 1, x) /\ ~(p[n].do = "release" /\ p[n].space = x)
  <2>1. PICK a \in 1 .. n :
          /\ p[a].do = "acquire" /\ p[a].space = x
          /\ \A b \in a .. n : ~(p[b].do = "release" /\ p[b].space = x)
    BY <1>3 DEF Holding
  <2>2. a \in 1 .. n - 1 /\ n \in a .. n BY <1>3, <2>1
  <2>3. \A b \in a .. n - 1 : b \in a .. n OBVIOUS
  <2> QED BY <2>1, <2>2, <2>3 DEF Holding
<1> QED BY <1>1, <1>2, <1>3

------------------------------------------------------------------------------
(* A space never refers to a dof map that was deleted *)

LEMMA InitAlive == Init => AliveInv
<1> SUFFICES ASSUME Init PROVE AliveInv OBVIOUS
<1>1. program \in Programs BY DEF Init
<1>2. Len(program) \in Nat BY <1>1, ProgramsAssumption DEF WellFormedProgram
<1>3. DOMAIN <<>> = {} OBVIOUS
<1>4. ASSUME NEW r \in Rank
      PROVE  /\ StepInv(program, step[r], mesh[r], ref[r], pc[r])
             /\ CacheInv(cache_[r], rlist_[r], ref[r])
             /\ BuildInv(program, step[r], mesh[r], cache_[r], pc[r])
  <2>1. /\ step[r] = 1 /\ mesh[r] = <<[time |-> 0, size |-> 0]>>
        /\ cache_[r] = <<>> /\ rlist_[r] = <<>> /\ ref[r] = <<>> /\ pc[r] = "running"
    BY DEF Init
  <2>2. \A x : ~Holding(program, 0, x) BY DEF Holding
  <2>3. StepInv(program, step[r], mesh[r], ref[r], pc[r])
    BY <1>1, <1>2, <1>3, <2>1, <2>2 DEF StepInv, Meshes
  <2>4. \A D : <<>> \in [{} -> D] OBVIOUS
  <2>5. CacheTyped(cache_[r], rlist_[r], ref[r])
    BY <1>3, <2>1, <2>4, FS_EmptySet DEF CacheTyped
  <2>6. CacheInv(cache_[r], rlist_[r], ref[r])
    BY <1>3, <2>1, <2>5 DEF CacheInv, Counts, Reverses, Refers
  <2>7. BuildInv(program, step[r], mesh[r], cache_[r], pc[r]) BY <2>1 DEF BuildInv
  <2> QED BY <2>3, <2>6, <2>7
<1> QED BY <1>4 DEF AliveInv, Init

(* A rank is alive when the invariant holds of its state.                  *)
Alive(p, n, h, c, l, f, s) ==
  /\ StepInv(p, n, h, f, s)
  /\ s # "over" => CacheInv(c, l, f) /\ BuildInv(p, n, h, c, s)

LEMMA AliveByRank ==
  AliveInv <=>
    /\ built \in [Rank -> Seq(Nat)]
    /\ DOMAIN cache_ = Rank /\ DOMAIN rlist_ = Rank /\ DOMAIN ref = Rank
    /\ DOMAIN step = Rank /\ DOMAIN mesh = Rank /\ DOMAIN pc = Rank
    /\ \A r \in Rank :
         Alive(program, step[r], mesh[r], cache_[r], rlist_[r], ref[r], pc[r])
BY DEF AliveInv, Alive

(* The step of the program after an operation that ends.                   *)
LEMMA StepResult ==
  ASSUME NEW p, NEW n, NEW h, NEW f, StepInv(p, n, h, f, "running"), n <= Len(p),
         NEW k \in Meshes, NEW g,
         p[n].do = "change" => DOMAIN g = DOMAIN f,
         p[n].do = "acquire" => DOMAIN g = DOMAIN f \cup {p[n].space},
         p[n].do = "release" => DOMAIN g = DOMAIN f \ {p[n].space}
  PROVE  StepInv(p, n + 1, Append(h, k), g, "running")
<1>1. p \in Programs /\ n \in 1 .. Len(p) + 1 BY DEF StepInv
<1>2. Len(p) \in Nat BY <1>1, ProgramsAssumption DEF WellFormedProgram
<1>3. n \in 1 .. Len(p) /\ n \in Nat \ {0} /\ (n + 1) - 1 = n
      /\ n + 1 \in 1 .. Len(p) + 1
  BY <1>1, <1>2
<1>4. p[n].do \in {"change", "acquire", "release"} BY <1>1, <1>3, Operation DEF Op
<1>5. ASSUME NEW x \in Spaces PROVE x \in DOMAIN g <=> Holding(p, n, x)
  <2>1. x \in DOMAIN f <=> Holding(p, n - 1, x) BY DEF StepInv
  <2>2. Holding(p, n, x) <=>
          \/ p[n].do = "acquire" /\ p[n].space = x
          \/ Holding(p, n - 1, x) /\ ~(p[n].do = "release" /\ p[n].space = x)
    BY <1>3, HoldingStep
  <2> QED BY <1>4, <2>1, <2>2
<1>6. Append(h, k) \in Seq(Meshes) /\ Len(Append(h, k)) = n + 1 BY DEF StepInv
<1> QED BY <1>1, <1>3, <1>5, <1>6 DEF StepInv

LEMMA ChangeResult ==
  ASSUME NEW p, NEW n, NEW h, NEW c, NEW l, NEW f,
         Alive(p, n, h, c, l, f, "running"),
         n <= Len(p), p[n].do = "change", NEW k \in Meshes
  PROVE  Alive(p, n + 1, Append(h, k), c, l, f, "running")
<1>1. StepInv(p, n + 1, Append(h, k), f, "running") BY StepResult DEF Alive
<1> QED BY <1>1 DEF Alive, BuildInv

LEMMA AcquireResult ==
  ASSUME NEW p, NEW n, NEW h, NEW c, NEW l, NEW f, NEW s,
         Alive(p, n, h, c, l, f, s), s # "over", n <= Len(p), p[n].do = "acquire"
  PROVE  /\ p[n].space \in Spaces /\ p[n].space \notin DOMAIN f
         /\ KeyOf(p, n, h) \in Hashes
<1>1. p \in Programs /\ n \in 1 .. Len(p) + 1 /\ h[n] \in Meshes BY DEF Alive, StepInv
<1>2. Len(p) \in Nat BY <1>1, ProgramsAssumption DEF WellFormedProgram
<1>3. p[n].space \in Spaces /\ ~Holding(p, n - 1, p[n].space)
  BY <1>1, <1>2, Operation
<1>4. KeyOf(p, n, h) \in Hashes BY <1>1, <1>3 DEF KeyOf, HashOf, Hashes, Meshes
<1> QED BY <1>3, <1>4 DEF Alive, StepInv

(* A step of one rank keeps the others alive.                              *)
LEMMA OneRankMoves ==
  ASSUME AliveInv, NEW r \in Rank, program' = program, built' \in [Rank -> Seq(Nat)],
         DOMAIN cache_' = Rank, DOMAIN rlist_' = Rank, DOMAIN ref' = Rank,
         DOMAIN step' = Rank, DOMAIN mesh' = Rank, DOMAIN pc' = Rank,
         \A q \in Rank \ {r} :
           /\ step'[q] = step[q] /\ mesh'[q] = mesh[q] /\ cache_'[q] = cache_[q]
           /\ rlist_'[q] = rlist_[q] /\ ref'[q] = ref[q] /\ pc'[q] = pc[q],
         Alive(program, step'[r], mesh'[r], cache_'[r], rlist_'[r], ref'[r], pc'[r])
  PROVE  AliveInv'
<1>1. ASSUME NEW q \in Rank
      PROVE  Alive(program, step'[q], mesh'[q], cache_'[q], rlist_'[q], ref'[q], pc'[q])
  <2>1. CASE q = r BY <2>1
  <2>2. CASE q # r BY <2>2, AliveByRank
  <2> QED BY <2>1, <2>2
<1>2. \A q \in Rank :
        Alive(program, step[q], mesh[q], cache_[q], rlist_[q], ref[q], pc[q])'
  BY <1>1
<1> QED BY <1>2 DEF AliveInv, Alive

LEMMA NextAlive == AliveInv /\ [Next]_vars => AliveInv'
<1> SUFFICES ASSUME AliveInv, [Next]_vars PROVE AliveInv' OBVIOUS
<1>1. CASE UNCHANGED vars
  <2>1. ASSUME NEW r \in Rank
        PROVE  Alive(program, step[r], mesh[r], cache_[r], rlist_[r], ref[r], pc[r])'
    BY <1>1, AliveByRank DEF vars
  <2> QED BY <1>1, <2>1, AliveByRank DEF vars, AliveInv, Alive
<1>2. ASSUME NEW r \in Rank, Run(r) PROVE AliveInv'
  <2> DEFINE n == step[r]
             h == mesh[r]
             m == h[n]
             c == cache_[r]
             l == rlist_[r]
             f == ref[r]
  <2>1. /\ DOMAIN cache_ = Rank /\ DOMAIN rlist_ = Rank /\ DOMAIN ref = Rank
        /\ DOMAIN step = Rank /\ DOMAIN mesh = Rank /\ DOMAIN pc = Rank
        /\ Alive(program, n, h, c, l, f, pc[r]) /\ built \in [Rank -> Seq(Nat)]
    BY AliveByRank
  <2>2. Key(r) = KeyOf(program, n, h) BY DEF Key, Hash, Now, KeyOf, HashOf
  <2>3. n \in Nat /\ m \in Meshes
    BY <2>1, ProgramsAssumption DEF Alive, StepInv, WellFormedProgram
  <2>4. CASE Change(r)
    <3>1. PICK later \in {0, 1} :
            /\ mesh' = [mesh EXCEPT ![r] =
                           Append(h, [time |-> m.time + later, size |-> program[n].size[r]])]
            /\ step' = [step EXCEPT ![r] = n + 1]
      BY <2>4 DEF Change, Then, Now
    <3>2. /\ pc[r] = "running" /\ n <= Len(program) /\ program[n].do = "change"
          /\ program' = program /\ cache_' = cache_ /\ rlist_' = rlist_ /\ ref' = ref
          /\ pc' = pc /\ built' = built
      BY <2>4 DEF Change, At
    <3>3. program[n].size[r] \in Nat
      <4>1. program \in Programs /\ n \in 1 .. Len(program)
        BY <2>1, <2>3, <3>2 DEF Alive, StepInv
      <4> QED BY <3>2, <4>1, Operation
    <3> DEFINE k == [time |-> m.time + later, size |-> program[n].size[r]]
    <3>8. k \in Meshes BY <2>3, <3>3 DEF Meshes
    <3> HIDE DEF k
    <3>4. mesh'[r] = Append(h, k) /\ DOMAIN mesh' = Rank
          /\ \A q \in Rank \ {r} : mesh'[q] = mesh[q]
      BY <2>1, <3>1 DEF k
    <3>5. step'[r] = n + 1 /\ DOMAIN step' = Rank /\ DOMAIN mesh' = Rank
          /\ \A q \in Rank \ {r} : step'[q] = step[q]
      BY <2>1, <3>1
    <3>6. Alive(program, n + 1, mesh'[r], c, l, f, "running")
      BY <2>1, <3>2, <3>4, <3>8, ChangeResult
    <3>7. Alive(program, step'[r], mesh'[r], cache_'[r], rlist_'[r], ref'[r], pc'[r])
      BY <3>2, <3>5, <3>6
    <3> QED BY <2>1, <3>2, <3>4, <3>5, <3>7, OneRankMoves
  <2>5. CASE AcquireHit(r)
    <3> DEFINE x == program[n].space
               k == Key(r)
               e == [item |-> c[k].item, at |-> n]
    <3>1. /\ pc[r] = "running" /\ n <= Len(program) /\ program[n].do = "acquire"
          /\ k \in DOMAIN c /\ program' = program /\ rlist_' = rlist_
      BY <2>5 DEF AcquireHit, At
    <3>2. CacheInv(c, l, f) /\ StepInv(program, n, h, f, "running") BY <2>1, <3>1 DEF Alive
    <3>3. c[k].item.hash = k /\ c[k] \in Tokens /\ c[k].item \in Items
      BY <3>1, <3>2 DEF CacheInv, CacheTyped, Counts, Tokens
    <3>4. /\ cache_' = [cache_ EXCEPT ![r][k] = Counted(@)]
          /\ ref' = [ref EXCEPT ![r] = With(f, x, e)]
          /\ step' = [step EXCEPT ![r] = n + 1] /\ pc' = pc /\ built' = built
          /\ mesh' = [mesh EXCEPT ![r] = Append(h, m)]
      BY <2>5, <3>3 DEF AcquireHit, Refer, Done, Then, Now
    <3>5. x \in Spaces /\ x \notin DOMAIN f BY <2>1, <3>1, AcquireResult
    <3>6. e \in Refs /\ e.item = c[k].item BY <2>3, <3>3 DEF Refs, Meshes
    <3>7. DOMAIN With(f, x, e) = DOMAIN f \cup {x} BY DEF With
    <3>8. StepInv(program, n + 1, Append(h, m), With(f, x, e), "running")
      BY <2>3, <3>1, <3>2, <3>7, StepResult
    <3> HIDE DEF e, x, k
    <3>9. CacheInv([c EXCEPT ![k] = Counted(@)], l, With(f, x, e))
      BY <3>1, <3>2, <3>5, <3>6, HitResult
    <3>10. /\ cache_'[r] = [c EXCEPT ![k] = Counted(@)] /\ ref'[r] = With(f, x, e)
           /\ step'[r] = n + 1 /\ pc'[r] = "running" /\ mesh'[r] = Append(h, m)
           /\ rlist_'[r] = l
           /\ DOMAIN cache_' = Rank /\ DOMAIN ref' = Rank /\ DOMAIN step' = Rank
           /\ DOMAIN mesh' = Rank
           /\ \A q \in Rank \ {r} :
                /\ cache_'[q] = cache_[q] /\ ref'[q] = ref[q] /\ step'[q] = step[q]
                /\ mesh'[q] = mesh[q]
      BY <2>1, <3>1, <3>4
    <3>11. Alive(program, step'[r], mesh'[r], cache_'[r], rlist_'[r], ref'[r], pc'[r])
      BY <3>8, <3>9, <3>10 DEF Alive, BuildInv
    <3> QED BY <2>1, <3>1, <3>4, <3>10, <3>11, OneRankMoves
  <2>6. CASE AcquireMiss(r)
    <3>1. /\ pc[r] = "running" /\ n <= Len(program) /\ program[n].do = "acquire"
          /\ Key(r) \notin DOMAIN c /\ pc' = [pc EXCEPT ![r] = "building"]
          /\ program' = program /\ step' = step /\ mesh' = mesh
          /\ cache_' = cache_ /\ rlist_' = rlist_ /\ ref' = ref
      BY <2>6 DEF AcquireMiss, At
    <3>2. pc'[r] = "building" /\ DOMAIN pc' = Rank
          /\ \A q \in Rank \ {r} : pc'[q] = pc[q]
      BY <2>1, <3>1
    <3>3. Alive(program, n, h, c, l, f, "building")
      BY <2>1, <2>2, <3>1 DEF Alive, StepInv, BuildInv
    <3>4. Alive(program, step'[r], mesh'[r], cache_'[r], rlist_'[r], ref'[r], pc'[r])
      BY <3>1, <3>2, <3>3
    <3>5. built' \in [Rank -> Seq(Nat)]
      <4>1. built' = [built EXCEPT ![r] = Append(@, n)] BY <2>6 DEF AcquireMiss
      <4>2. Append(built[r], n) \in Seq(Nat) BY <2>1, <2>3
      <4> QED BY <2>1, <4>1, <4>2
    <3> QED BY <2>1, <3>1, <3>2, <3>4, <3>5, OneRankMoves
  <2>7. CASE Build(r)
    <3> DEFINE x == program[n].space
               k == Key(r)
               j == [hash |-> k, number |-> Len(built[r])]
               t == [item |-> j, count |-> 1]
               e == [item |-> j, at |-> n]
    <3>1. /\ pc[r] = "building" /\ program' = program /\ built' = built
          /\ cache_' = [cache_ EXCEPT ![r] = With(c, k, t)]
          /\ rlist_' = [rlist_ EXCEPT ![r] = With(l, j, k)]
          /\ ref' = [ref EXCEPT ![r] = With(f, x, e)]
          /\ step' = [step EXCEPT ![r] = n + 1] /\ pc' = [pc EXCEPT ![r] = "running"]
          /\ mesh' = [mesh EXCEPT ![r] = Append(h, m)]
      BY <2>7 DEF Build, Refer, Done, Then, Now
    <3>2. /\ CacheInv(c, l, f) /\ StepInv(program, n, h, f, "running")
          /\ n <= Len(program) /\ program[n].do = "acquire" /\ k \notin DOMAIN c
      BY <2>1, <2>2, <3>1 DEF Alive, StepInv, BuildInv
    <3>3. x \in Spaces /\ x \notin DOMAIN f /\ k \in Hashes
      BY <2>1, <2>2, <3>1, <3>2, AcquireResult
    <3>4. Len(built[r]) \in Nat BY <2>1
    <3>5. j \in Items /\ j.hash = k BY <3>3, <3>4 DEF Items
    <3>6. t \in Tokens /\ t.item = j /\ t.count = 1 BY <3>5 DEF Tokens
    <3>7. e \in Refs /\ e.item = j BY <2>3, <3>5 DEF Refs, Meshes
    <3>8. DOMAIN With(f, x, e) = DOMAIN f \cup {x} BY DEF With
    <3>9. StepInv(program, n + 1, Append(h, m), With(f, x, e), "running")
      BY <2>3, <3>2, <3>8, StepResult
    <3> HIDE DEF e, t, j, x, k
    <3>10. CacheInv(With(c, k, t), With(l, j, k), With(f, x, e))
      BY <3>2, <3>3, <3>5, <3>6, <3>7, BuildResult
    <3>11. /\ cache_'[r] = With(c, k, t) /\ rlist_'[r] = With(l, j, k)
           /\ ref'[r] = With(f, x, e)
           /\ step'[r] = n + 1 /\ pc'[r] = "running" /\ mesh'[r] = Append(h, m)
           /\ DOMAIN cache_' = Rank /\ DOMAIN rlist_' = Rank /\ DOMAIN ref' = Rank
           /\ DOMAIN step' = Rank /\ DOMAIN pc' = Rank /\ DOMAIN mesh' = Rank
           /\ \A q \in Rank \ {r} :
                /\ cache_'[q] = cache_[q] /\ rlist_'[q] = rlist_[q] /\ ref'[q] = ref[q]
                /\ step'[q] = step[q] /\ pc'[q] = pc[q] /\ mesh'[q] = mesh[q]
      BY <2>1, <3>1
    <3>12. Alive(program, step'[r], mesh'[r], cache_'[r], rlist_'[r], ref'[r], pc'[r])
      BY <3>9, <3>10, <3>11 DEF Alive, BuildInv
    <3> QED BY <2>1, <3>1, <3>11, <3>12, OneRankMoves
  <2>8. CASE Release(r)
    <3> DEFINE x == program[n].space
               j == f[x].item
               k == j.hash
    <3>1. /\ pc[r] = "running" /\ n <= Len(program) /\ program[n].do = "release"
          /\ program' = program /\ built' = built
      BY <2>8 DEF Release, At
    <3>2. CacheInv(c, l, f) /\ StepInv(program, n, h, f, "running") BY <2>1, <3>1 DEF Alive
    <3>3. x \in DOMAIN f
      <4>1. program \in Programs /\ n \in 1 .. Len(program)
        BY <2>3, <3>1, <3>2 DEF StepInv
      <4> QED BY <3>1, <3>2, <4>1, Operation DEF StepInv
    <3>4. j \in DOMAIN l /\ l[j] = k
      BY <3>2, <3>3 DEF CacheInv, Refers, Reverses
    <3>5. /\ cache_' = [cache_ EXCEPT ![r] = Dropped(@, k)]
          /\ rlist_' = [rlist_ EXCEPT ![r] = IF c[k].count = 1 THEN Without(@, j) ELSE @]
          /\ ref' = [ref EXCEPT ![r] = Without(@, x)]
          /\ step' = [step EXCEPT ![r] = n + 1] /\ pc' = pc
          /\ mesh' = [mesh EXCEPT ![r] = Append(h, m)]
      BY <2>8, <3>4 DEF Release, Expected, Done, Then, Now
    <3>6. DOMAIN Without(f, x) = DOMAIN f \ {x} BY DEF Without
    <3>7. StepInv(program, n + 1, Append(h, m), Without(f, x), "running")
      BY <2>3, <3>1, <3>2, <3>6, StepResult
    <3>8. /\ ref'[r] = Without(f, x) /\ step'[r] = n + 1 /\ pc'[r] = "running"
          /\ mesh'[r] = Append(h, m) /\ cache_'[r] = Dropped(c, k)
          /\ DOMAIN cache_' = Rank /\ DOMAIN rlist_' = Rank /\ DOMAIN ref' = Rank
          /\ DOMAIN step' = Rank /\ DOMAIN mesh' = Rank
          /\ \A q \in Rank \ {r} :
                /\ cache_'[q] = cache_[q] /\ rlist_'[q] = rlist_[q] /\ ref'[q] = ref[q]
                /\ step'[q] = step[q] /\ mesh'[q] = mesh[q]
      BY <2>1, <3>1, <3>5
    <3>9. CacheInv(cache_'[r], rlist_'[r], ref'[r])
      <4>1. CASE c[k].count = 1
        <5>1. rlist_'[r] = Without(l, j) BY <2>1, <3>5, <4>1
        <5>2. CacheInv(Dropped(c, k), Without(l, j), Without(f, x))
          BY <3>2, <3>3, <4>1, LastReleaseResult DEF Dropped
        <5> QED BY <3>8, <5>1, <5>2
      <4>2. CASE c[k].count # 1
        <5>1. rlist_'[r] = l BY <2>1, <3>5, <4>2
        <5>2. CacheInv(Dropped(c, k), l, Without(f, x))
          BY <3>2, <3>3, <4>2, ReleaseResult
        <5> QED BY <3>8, <5>1, <5>2
      <4> QED BY <4>1, <4>2
    <3>10. Alive(program, step'[r], mesh'[r], cache_'[r], rlist_'[r], ref'[r], pc'[r])
      BY <3>7, <3>8, <3>9 DEF Alive, BuildInv
    <3> QED BY <2>1, <3>1, <3>5, <3>8, <3>10, OneRankMoves
  <2>9. CASE Exit(r)
    <3>1. /\ cache_' = [cache_ EXCEPT ![r] = <<>>] /\ pc' = [pc EXCEPT ![r] = "over"]
          /\ program' = program /\ step' = step /\ mesh' = mesh /\ rlist_' = rlist_
          /\ ref' = ref /\ built' = built
      BY <2>9 DEF Exit
    <3>2. /\ pc'[r] = "over" /\ DOMAIN pc' = Rank /\ DOMAIN cache_' = Rank
          /\ \A q \in Rank \ {r} : pc'[q] = pc[q] /\ cache_'[q] = cache_[q]
      BY <2>1, <3>1
    <3>3. Alive(program, n, h, cache_'[r], l, f, "over") BY <2>1 DEF Alive, StepInv
    <3>4. Alive(program, step'[r], mesh'[r], cache_'[r], rlist_'[r], ref'[r], pc'[r])
      BY <3>1, <3>2, <3>3
    <3> QED BY <2>1, <3>1, <3>2, <3>4, OneRankMoves
  <2> QED BY <1>2, <2>4, <2>5, <2>6, <2>7, <2>8, <2>9 DEF Run
<1> QED BY <1>1, <1>2 DEF Next

LEMMA AliveMeans == AliveInv => SpacesAlive
<1> SUFFICES ASSUME AliveInv, NEW r \in Rank, pc[r] # "over"
             PROVE  LET users(item) == {s \in DOMAIN ref[r] : ref[r][s].item = item}
                        tokens == {cache_[r][key] : key \in DOMAIN cache_[r]}
                    IN  /\ \A s \in DOMAIN ref[r] :
                             \E t \in tokens : t.item = ref[r][s].item
                        /\ \A t \in tokens : t.count = Cardinality(users(t.item))
                        /\ DOMAIN rlist_[r] = {t.item : t \in tokens}
  BY DEF SpacesAlive
<1> DEFINE tokens == {cache_[r][key] : key \in DOMAIN cache_[r]}
<1>1. CacheInv(cache_[r], rlist_[r], ref[r]) BY DEF AliveInv
<1>2. \A s \in DOMAIN ref[r] : \E t \in tokens : t.item = ref[r][s].item
  BY <1>1 DEF CacheInv, Refers
<1>3. ASSUME NEW t \in tokens PROVE t.count = Cardinality(UsersIn(ref[r], t.item))
  BY <1>1 DEF CacheInv, Counts
<1>4. DOMAIN rlist_[r] = {t.item : t \in tokens}
  BY <1>1 DEF CacheInv, Reverses
<1> QED BY <1>2, <1>3, <1>4 DEF UsersIn

(* AliveInv is an invariant of every program, also when meshes are made in *)
(* one second: no operation of the cache fails.                            *)
THEOREM CacheInvariant == Spec => []AliveInv
<1> QED BY InitAlive, NextAlive, PTL DEF Spec

(* A space never refers to a dof map that was deleted, and the last to     *)
(* release a dof map deletes it.                                           *)
THEOREM StayAlive == Spec => []SpacesAlive
<1> QED BY CacheInvariant, AliveMeans, PTL

------------------------------------------------------------------------------
(* What a program misses *)

LEMMA TakenIsHeld ==
  ASSUME NEW p, NEW n, NEW x, NEW a, Taken(p, n, x, a)
  PROVE  Holding(p, n, x)
BY DEF Taken, Holding

(* A space that has a dof map acquired it once: a program that acquires    *)
(* and releases in turn does not acquire what it holds.                    *)
LEMMA TakenOnce ==
  ASSUME NEW p \in Programs, NEW n \in 0 .. Len(p), NEW x, NEW a, NEW b,
         Taken(p, n, x, a), Taken(p, n, x, b)
  PROVE  a = b
<1>1. Len(p) \in Nat BY ProgramsAssumption DEF WellFormedProgram
<1>2. ASSUME NEW i \in 1 .. n, NEW j \in 1 .. n, i < j, Taken(p, n, x, i), Taken(p, n, x, j)
      PROVE  FALSE
  <2>1. j \in 1 .. Len(p) /\ i \in 1 .. j - 1 BY <1>1, <1>2
  <2>2. ~Holding(p, j - 1, x) BY <1>2, <2>1, Operation DEF Taken
  <2>3. \A k \in i .. j - 1 : k \in i .. n BY <1>1, <1>2
  <2> QED BY <1>2, <2>1, <2>2, <2>3 DEF Taken, Holding
<1>3. a \in 1 .. n /\ b \in 1 .. n BY DEF Taken
<1>4. a < b \/ b < a \/ a = b BY <1>3
<1> QED BY <1>2, <1>3, <1>4

(* A space that has its dof map after a step more.                         *)
LEMMA TakenStands ==
  ASSUME NEW p, NEW n \in Nat \ {0}, NEW x, NEW a, Taken(p, n - 1, x, a),
         ~(p[n].do = "release" /\ p[n].space = x)
  PROVE  Taken(p, n, x, a)
<1>1. a \in 1 .. n BY DEF Taken
<1>2. \A b \in a .. n : b \in a .. n - 1 \/ b = n BY <1>1
<1> QED BY <1>1, <1>2 DEF Taken

LEMMA MissesFinite ==
  ASSUME NEW p, NEW h, NEW n \in Nat
  PROVE  IsFiniteSet(Misses(p, h, n)) /\ Cardinality(Misses(p, h, n)) \in Nat
<1>1. IsFiniteSet(1 .. n) BY FS_Interval
<1>2. Misses(p, h, n) \subseteq 1 .. n BY DEF Misses
<1> QED BY <1>1, <1>2, FS_Subset, FS_CardinalityType

LEMMA MissesStep ==
  ASSUME NEW p, NEW h, NEW n \in Nat \ {0}
  PROVE  Cardinality(Misses(p, h, n)) =
           IF Missing(p, h, n) THEN Cardinality(Misses(p, h, n - 1)) + 1
                               ELSE Cardinality(Misses(p, h, n - 1))
<1>1. \A j : j \in 1 .. n <=> j \in 1 .. n - 1 \/ j = n OBVIOUS
<1>2. n \notin 1 .. n - 1 /\ n - 1 \in Nat OBVIOUS
<1>3. CASE Missing(p, h, n)
  <2>1. Misses(p, h, n) = Misses(p, h, n - 1) \cup {n} BY <1>1, <1>3 DEF Misses
  <2>2. n \notin Misses(p, h, n - 1) BY <1>2 DEF Misses
  <2>3. IsFiniteSet(Misses(p, h, n - 1)) BY <1>2, MissesFinite
  <2> QED BY <1>3, <2>1, <2>2, <2>3, FS_AddElement
<1>4. CASE ~Missing(p, h, n)
  <2>1. Misses(p, h, n) = Misses(p, h, n - 1) BY <1>1, <1>4 DEF Misses
  <2> QED BY <1>4, <2>1
<1> QED BY <1>3, <1>4

LEMMA MissesGrow ==
  ASSUME NEW p, NEW h, NEW a \in Nat, NEW b \in Nat
  PROVE  /\ a <= b => Cardinality(Misses(p, h, a)) <= Cardinality(Misses(p, h, b))
         /\ a < b /\ Missing(p, h, b) =>
              Cardinality(Misses(p, h, a)) < Cardinality(Misses(p, h, b))
<1>1. ASSUME a <= b
      PROVE  Cardinality(Misses(p, h, a)) <= Cardinality(Misses(p, h, b))
  <2>1. Misses(p, h, a) \subseteq Misses(p, h, b) BY <1>1 DEF Misses
  <2> QED BY <2>1, MissesFinite, FS_Subset
<1>2. ASSUME a < b, Missing(p, h, b)
      PROVE  Cardinality(Misses(p, h, a)) < Cardinality(Misses(p, h, b))
  <2>1. Misses(p, h, a) \subseteq Misses(p, h, b) BY <1>2 DEF Misses
  <2>2. b \in Misses(p, h, b) /\ b \notin Misses(p, h, a) BY <1>2 DEF Misses
  <2>3. Misses(p, h, a) # Misses(p, h, b) BY <2>2
  <2> QED BY <2>1, <2>3, MissesFinite, FS_Subset
<1> QED BY <1>1, <1>2

(* Two histories that tell the same meshes apart in their first n steps.   *)
ApartAlike(h, g, n) == \A i, j \in 1 .. n : h[i] = h[j] <=> g[i] = g[j]

(* What a rank misses is the same for another that tells the same meshes   *)
(* apart, as far as both have come.                                        *)
LEMMA MissesAlike ==
  ASSUME NEW p, NEW h, NEW g, NEW n \in Nat, ApartAlike(h, g, n)
  PROVE  /\ \A j \in 1 .. n : Missing(p, h, j) <=> Missing(p, g, j)
         /\ \A j \in 0 .. n : Misses(p, h, j) = Misses(p, g, j)
<1>1. ASSUME NEW j \in 1 .. n PROVE Missing(p, h, j) <=> Missing(p, g, j)
  <2>1. \A a \in 1 .. j - 1 : h[a] = h[j] <=> g[a] = g[j] BY DEF ApartAlike
  <2> QED BY <2>1 DEF Missing
<1>2. ASSUME NEW j \in 0 .. n PROVE Misses(p, h, j) = Misses(p, g, j)
  <2>1. \A k \in 1 .. j : k \in 1 .. n OBVIOUS
  <2> QED BY <1>1, <2>1 DEF Misses
<1> QED BY <1>1, <1>2

LEMMA MeshAppended ==
  ASSUME NEW h \in Seq(Meshes), NEW k \in Meshes, NEW n, Len(h) = n
  PROVE  \A i \in 1 .. n : Append(h, k)[i] = h[i]
OBVIOUS

(* A rank misses what the program does: the cache has nothing else.        *)
LEMMA CacheOfProgram ==
  ASSUME NEW p, NEW n, NEW h, NEW c, NEW l, NEW f,
         StepInv(p, n, h, f, "running"), CacheInv(c, l, f), RefersByMesh(p, n, h, f),
         n <= Len(p), p[n].do = "acquire"
  PROVE  Missing(p, h, n) <=> KeyOf(p, n, h) \notin DOMAIN c
<1> DEFINE s == p[n].space
<1>1. p \in Programs /\ n \in 1 .. Len(p) /\ Len(p) \in Nat
  BY ProgramsAssumption DEF StepInv, WellFormedProgram
<1>2. ASSUME NEW x \in Spaces, NEW a \in 1 .. n - 1, Taken(p, n - 1, x, a), h[a] = h[n],
             Signature[x] = Signature[s]
      PROVE  KeyOf(p, n, h) \in DOMAIN c
  <2>1. x \in DOMAIN f BY <1>2, TakenIsHeld DEF StepInv
  <2>2. Taken(p, n - 1, x, f[x].at) BY <2>1 DEF RefersByMesh
  <2>3. f[x].at = a BY <1>1, <1>2, <2>2, TakenOnce
  <2>4. f[x].item.hash = <<Signature[x], HashOf(h[a])>> BY <2>1, <2>3 DEF RefersByMesh
  <2>5. f[x].item.hash \in DOMAIN c BY <2>1 DEF CacheInv, Refers
  <2> QED BY <1>2, <2>4, <2>5 DEF KeyOf
<1>3. ASSUME KeyOf(p, n, h) \in DOMAIN c
      PROVE  \E x \in Spaces : \E a \in 1 .. n - 1 :
               /\ Taken(p, n - 1, x, a) /\ h[a] = h[n] /\ Signature[x] = Signature[s]
  <2> DEFINE k == KeyOf(p, n, h)
  <2>1. UsersIn(f, c[k].item) # {} /\ c[k].item.hash = k
    BY <1>3 DEF CacheInv, Counts
  <2>2. PICK x \in DOMAIN f : f[x].item = c[k].item BY <2>1 DEF UsersIn
  <2>3. f[x].item.hash = k BY <2>1, <2>2
  <2>4. Taken(p, n - 1, x, f[x].at) /\ f[x].at \in 1 .. n - 1 BY DEF RefersByMesh, Taken
  <2>5. Signature[x] = Signature[s] /\ HashOf(h[f[x].at]) = HashOf(h[n])
    BY <2>3 DEF RefersByMesh, KeyOf
  <2>6. h[f[x].at] \in Meshes /\ h[n] \in Meshes
    <3>1. f[x].at \in 1 .. n /\ n \in 1 .. n BY <1>1, <2>4
    <3> QED BY <3>1 DEF StepInv
  <2>7. h[f[x].at] = h[n] BY <2>5, <2>6 DEF HashOf, Meshes
  <2>8. x \in Spaces BY DEF CacheInv, CacheTyped
  <2> QED BY <2>4, <2>5, <2>7, <2>8
<1> QED BY <1>2, <1>3 DEF Missing

------------------------------------------------------------------------------
(* The steps of one rank *)

(* What a rank has built stands as its meshes become more.                 *)
LEMMA BuiltStands ==
  ASSUME NEW p, NEW n \in Nat \ {0}, NEW h \in Seq(Meshes), Len(h) = n, NEW k \in Meshes,
         NEW b, NEW s \in {"running", "building"}, BuiltByProgram(p, n, h, b, s),
         s = "running" => ~Missing(p, h, n)
  PROVE  BuiltByProgram(p, n + 1, Append(h, k), b, "running")
<1> DEFINE g == Append(h, k)
<1>1. /\ \A j \in 1 .. n : Missing(p, h, j) <=> Missing(p, g, j)
      /\ \A j \in 0 .. n : Misses(p, h, j) = Misses(p, g, j)
  <2>1. \A i \in 1 .. n : g[i] = h[i] BY MeshAppended
  <2> HIDE DEF g
  <2>2. ApartAlike(h, g, n) BY <2>1 DEF ApartAlike
  <2> QED BY <2>2, MissesAlike
<1>2. Len(b) = Cardinality(Misses(p, h, n))
  <2>1. CASE s = "running" BY <2>1, MissesStep DEF BuiltByProgram, Reached
  <2>2. CASE s = "building" BY <2>2 DEF BuiltByProgram, Reached
  <2> QED BY <2>1, <2>2
<1>3. Reached(n + 1, "running") = n /\ n \in 0 .. n BY DEF Reached
<1>4. ASSUME NEW i \in 1 .. Len(b)
      PROVE  /\ b[i] \in 1 .. n + 1 /\ Missing(p, g, b[i])
             /\ Cardinality(Misses(p, g, b[i])) = i
  <2>1. b[i] \in 1 .. n /\ Missing(p, h, b[i]) /\ Cardinality(Misses(p, h, b[i])) = i
    BY DEF BuiltByProgram
  <2>2. b[i] \in 0 .. n /\ b[i] \in 1 .. n + 1 BY <2>1
  <2> QED BY <1>1, <2>1, <2>2
<1> HIDE DEF g
<1>5. Len(b) = Cardinality(Misses(p, g, Reached(n + 1, "running"))) BY <1>1, <1>2, <1>3
<1>6. b \in Seq(Nat) BY DEF BuiltByProgram
<1>7. BuiltByProgram(p, n + 1, g, b, "running") BY <1>4, <1>5, <1>6 DEF BuiltByProgram
<1> QED BY <1>7 DEF g

LEMMA ChangeVersions ==
  ASSUME NEW p, NEW n \in Nat \ {0}, NEW h \in Seq(Meshes), Len(h) = n, NEW k \in Meshes,
         NEW f, NEW b, Versions(p, n, h, f, b, "running"), p[n].do = "change"
  PROVE  Versions(p, n + 1, Append(h, k), f, b, "running")
<1>1. ~Missing(p, h, n) BY DEF Missing
<1>2. RefersByMesh(p, n + 1, Append(h, k), f)
  <2> SUFFICES ASSUME NEW x \in DOMAIN f
               PROVE  /\ Taken(p, n, x, f[x].at)
                      /\ f[x].item.hash = <<Signature[x], HashOf(Append(h, k)[f[x].at])>>
    <3>1. (n + 1) - 1 = n OBVIOUS
    <3> QED BY <3>1 DEF RefersByMesh
  <2>1. /\ Taken(p, n - 1, x, f[x].at)
        /\ f[x].item.hash = <<Signature[x], HashOf(h[f[x].at])>>
    BY DEF Versions, RefersByMesh
  <2>2. ~(p[n].do = "release" /\ p[n].space = x) OBVIOUS
  <2>3. Taken(p, n, x, f[x].at) BY <2>1, <2>2, TakenStands
  <2>4. Append(h, k)[f[x].at] = h[f[x].at] BY <2>3, MeshAppended DEF Taken
  <2> QED BY <2>1, <2>3, <2>4
<1> QED BY <1>1, <1>2, BuiltStands DEF Versions

LEMMA ReleaseVersions ==
  ASSUME NEW p, NEW n \in Nat \ {0}, NEW h \in Seq(Meshes), Len(h) = n, NEW k \in Meshes,
         NEW f, NEW b, Versions(p, n, h, f, b, "running"), p[n].do = "release"
  PROVE  Versions(p, n + 1, Append(h, k), Without(f, p[n].space), b, "running")
<1> DEFINE g == Without(f, p[n].space)
<1>1. DOMAIN g = DOMAIN f \ {p[n].space} /\ \A y \in DOMAIN g : g[y] = f[y]
  BY DEF Without
<1> HIDE DEF g
<1>2. ~Missing(p, h, n) BY DEF Missing
<1>3. RefersByMesh(p, n + 1, Append(h, k), g)
  <2> SUFFICES ASSUME NEW y \in DOMAIN g
               PROVE  /\ Taken(p, n, y, g[y].at)
                      /\ g[y].item.hash = <<Signature[y], HashOf(Append(h, k)[g[y].at])>>
    <3>1. (n + 1) - 1 = n OBVIOUS
    <3> QED BY <3>1 DEF RefersByMesh
  <2>1. y \in DOMAIN f /\ y # p[n].space /\ g[y] = f[y] BY <1>1
  <2>2. /\ Taken(p, n - 1, y, f[y].at)
        /\ f[y].item.hash = <<Signature[y], HashOf(h[f[y].at])>>
    BY <2>1 DEF Versions, RefersByMesh
  <2>3. ~(p[n].do = "release" /\ p[n].space = y) BY <2>1
  <2>4. Taken(p, n, y, f[y].at) BY <2>2, <2>3, TakenStands
  <2>5. Append(h, k)[f[y].at] = h[f[y].at] BY <2>4, MeshAppended DEF Taken
  <2> QED BY <2>1, <2>2, <2>4, <2>5
<1> QED BY <1>2, <1>3, BuiltStands DEF Versions, g

(* A space that has acquired its dof map, found or built.                  *)
LEMMA AcquireVersions ==
  ASSUME NEW p, NEW n \in Nat \ {0}, NEW h \in Seq(Meshes), Len(h) = n, NEW k \in Meshes,
         NEW f, NEW b, NEW s \in {"running", "building"}, Versions(p, n, h, f, b, s),
         s = "running" => ~Missing(p, h, n),
         p[n].do = "acquire", p[n].space \notin DOMAIN f,
         NEW e, e.at = n, e.item.hash = KeyOf(p, n, h)
  PROVE  Versions(p, n + 1, Append(h, k), With(f, p[n].space, e), b, "running")
<1> DEFINE x == p[n].space
           g == With(f, x, e)
<1>1. DOMAIN g = DOMAIN f \cup {x} /\ g[x] = e /\ \A y \in DOMAIN f : g[y] = f[y]
  BY DEF With
<1> HIDE DEF g
<1>2. ASSUME NEW y \in DOMAIN g
      PROVE  /\ Taken(p, n, y, g[y].at)
             /\ g[y].item.hash = <<Signature[y], HashOf(Append(h, k)[g[y].at])>>
  <2>1. CASE y = x
    <3>1. Taken(p, n, x, n)
      <4>1. n \in 1 .. n /\ \A i \in n .. n : i = n OBVIOUS
      <4> QED BY <4>1 DEF Taken
    <3>2. Append(h, k)[n] = h[n] BY MeshAppended
    <3>3. e.item.hash = <<Signature[x], HashOf(h[n])>> BY DEF KeyOf
    <3> QED BY <1>1, <2>1, <3>1, <3>2, <3>3
  <2>2. CASE y # x
    <3>1. y \in DOMAIN f /\ g[y] = f[y] BY <1>1, <2>2
    <3>2. /\ Taken(p, n - 1, y, f[y].at)
          /\ f[y].item.hash = <<Signature[y], HashOf(h[f[y].at])>>
      BY <3>1 DEF Versions, RefersByMesh
    <3>3. ~(p[n].do = "release" /\ p[n].space = y) OBVIOUS
    <3>4. Taken(p, n, y, f[y].at) BY <3>2, <3>3, TakenStands
    <3>5. Append(h, k)[f[y].at] = h[f[y].at] BY <3>4, MeshAppended DEF Taken
    <3> QED BY <3>1, <3>2, <3>4, <3>5
  <2> QED BY <2>1, <2>2
<1>3. RefersByMesh(p, n + 1, Append(h, k), g)
  <2>1. (n + 1) - 1 = n OBVIOUS
  <2> QED BY <1>2, <2>1 DEF RefersByMesh
<1> QED BY <1>3, BuiltStands DEF Versions, g

(* A rank that begins to build.                                            *)
LEMMA MissVersions ==
  ASSUME NEW p, NEW n \in Nat \ {0}, NEW h, NEW f, NEW b,
         Versions(p, n, h, f, b, "running"), Missing(p, h, n)
  PROVE  Versions(p, n, h, f, Append(b, n), "building")
<1> USE DEF Versions
<1>1. b \in Seq(Nat) BY DEF BuiltByProgram
<1>2. /\ Append(b, n) \in Seq(Nat) /\ Len(Append(b, n)) = Len(b) + 1
      /\ Append(b, n)[Len(b) + 1] = n
      /\ \A i \in 1 .. Len(b) : Append(b, n)[i] = b[i]
  BY <1>1
<1>3. Len(b) = Cardinality(Misses(p, h, n - 1)) BY DEF BuiltByProgram, Reached
<1>4. Cardinality(Misses(p, h, n)) = Len(b) + 1 BY <1>3, MissesStep
<1>5. ASSUME NEW i \in 1 .. Len(b) + 1
      PROVE  /\ Append(b, n)[i] \in 1 .. n /\ Missing(p, h, Append(b, n)[i])
             /\ Cardinality(Misses(p, h, Append(b, n)[i])) = i
  <2>1. CASE i = Len(b) + 1 BY <1>2, <1>4, <2>1
  <2>2. CASE i # Len(b) + 1
    <3>1. i \in 1 .. Len(b) BY <1>1, <2>2
    <3> QED BY <1>2, <3>1 DEF BuiltByProgram
  <2> QED BY <2>1, <2>2
<1> QED BY <1>2, <1>4, <1>5 DEF BuiltByProgram, Reached

LEMMA InitVersions == Init => VersionsInv
<1> SUFFICES ASSUME Init PROVE VersionsInv OBVIOUS
<1>1. DOMAIN <<>> = {} /\ <<>> \in Seq(Nat) /\ Len(<<>>) = 0 OBVIOUS
<1>2. \A p, h : Cardinality(Misses(p, h, 0)) = 0 BY FS_EmptySet DEF Misses
<1>3. ASSUME NEW r \in Rank
      PROVE  Versions(program, step[r], mesh[r], ref[r], built[r], pc[r])
  <2>1. step[r] = 1 /\ ref[r] = <<>> /\ built[r] = <<>> /\ pc[r] = "running"
    BY DEF Init
  <2>2. RefersByMesh(program, step[r], mesh[r], ref[r])
    BY <1>1, <2>1 DEF RefersByMesh
  <2>3. BuiltByProgram(program, step[r], mesh[r], built[r], pc[r])
    BY <1>1, <1>2, <2>1 DEF BuiltByProgram, Reached
  <2> QED BY <2>2, <2>3 DEF Versions
<1> QED BY <1>3 DEF VersionsInv, Init

LEMMA OneRankVersions ==
  ASSUME VersionsInv, NEW r \in Rank, program' = program, DOMAIN built' = Rank,
         \A q \in Rank \ {r} :
           /\ step'[q] = step[q] /\ mesh'[q] = mesh[q] /\ ref'[q] = ref[q]
           /\ built'[q] = built[q] /\ pc'[q] = pc[q],
         Versions(program, step'[r], mesh'[r], ref'[r], built'[r], pc'[r])
  PROVE  VersionsInv'
<1>1. ASSUME NEW q \in Rank
      PROVE  Versions(program, step'[q], mesh'[q], ref'[q], built'[q], pc'[q])
  <2>1. CASE q = r BY <2>1
  <2>2. CASE q # r BY <2>2 DEF VersionsInv
  <2> QED BY <2>1, <2>2
<1>2. \A q \in Rank : Versions(program, step[q], mesh[q], ref[q], built[q], pc[q])'
  BY <1>1
<1> QED BY <1>2 DEF VersionsInv

LEMMA NextVersions == AliveInv /\ VersionsInv /\ [Next]_vars => VersionsInv'
<1> SUFFICES ASSUME AliveInv, VersionsInv, [Next]_vars PROVE VersionsInv' OBVIOUS
<1>1. CASE UNCHANGED vars
  <2>1. ASSUME NEW r \in Rank
        PROVE  Versions(program, step[r], mesh[r], ref[r], built[r], pc[r])'
    BY <1>1 DEF vars, VersionsInv
  <2> QED BY <1>1, <2>1 DEF vars, VersionsInv
<1>2. ASSUME NEW r \in Rank, Run(r) PROVE VersionsInv'
  <2> DEFINE n == step[r]
             h == mesh[r]
             m == h[n]
             c == cache_[r]
             l == rlist_[r]
             f == ref[r]
             b == built[r]
  <2>1. /\ DOMAIN cache_ = Rank /\ DOMAIN rlist_ = Rank /\ DOMAIN ref = Rank
        /\ DOMAIN step = Rank /\ DOMAIN mesh = Rank /\ DOMAIN pc = Rank
        /\ Alive(program, n, h, c, l, f, pc[r]) /\ built \in [Rank -> Seq(Nat)]
    BY AliveByRank
  <2>2. Key(r) = KeyOf(program, n, h) BY DEF Key, Hash, Now, KeyOf, HashOf
  <2>3. /\ n \in Nat \ {0} /\ h \in Seq(Meshes) /\ Len(h) = n /\ m \in Meshes
        /\ Len(program) \in Nat /\ n \in 1 .. Len(program) + 1
    BY <2>1, ProgramsAssumption DEF Alive, StepInv, WellFormedProgram
  <2>4. Versions(program, n, h, f, b, pc[r]) BY DEF VersionsInv
  <2>6. CASE Change(r)
    <3>1. PICK later \in {0, 1} :
            /\ mesh' = [mesh EXCEPT ![r] =
                           Append(h, [time |-> m.time + later, size |-> program[n].size[r]])]
            /\ step' = [step EXCEPT ![r] = n + 1]
      BY <2>6 DEF Change, Then, Now
    <3>2. /\ pc[r] = "running" /\ n <= Len(program) /\ program[n].do = "change"
          /\ program' = program /\ ref' = ref /\ pc' = pc /\ built' = built
      BY <2>6 DEF Change, At
    <3>3. program[n].size[r] \in Nat
      <4>1. program \in Programs /\ n \in 1 .. Len(program)
        BY <2>1, <2>3, <3>2 DEF Alive, StepInv
      <4> QED BY <3>2, <4>1, Operation
    <3> DEFINE k == [time |-> m.time + later, size |-> program[n].size[r]]
    <3>4. k \in Meshes BY <2>3, <3>3 DEF Meshes
    <3> HIDE DEF k
    <3>5. /\ mesh'[r] = Append(h, k) /\ step'[r] = n + 1
          /\ \A q \in Rank \ {r} : mesh'[q] = mesh[q] /\ step'[q] = step[q]
      BY <2>1, <3>1 DEF k
    <3>6. Versions(program, n + 1, Append(h, k), f, b, "running")
      BY <2>3, <2>4, <3>2, <3>4, ChangeVersions
    <3>7. Versions(program, step'[r], mesh'[r], ref'[r], built'[r], pc'[r])
      BY <3>2, <3>5, <3>6
    <3> QED BY <2>1, <3>2, <3>5, <3>7, OneRankVersions
  <2>7. CASE AcquireHit(r)
    <3> DEFINE x == program[n].space
               k == Key(r)
               e == [item |-> c[k].item, at |-> n]
    <3>1. /\ pc[r] = "running" /\ n <= Len(program) /\ program[n].do = "acquire"
          /\ k \in DOMAIN c /\ program' = program /\ built' = built
      BY <2>7 DEF AcquireHit, At
    <3>2. CacheInv(c, l, f) /\ StepInv(program, n, h, f, "running") BY <2>1, <3>1 DEF Alive
    <3>3. c[k].item.hash = k BY <3>1, <3>2 DEF CacheInv, Counts
    <3>4. /\ ref' = [ref EXCEPT ![r] = With(f, x, e)]
          /\ step' = [step EXCEPT ![r] = n + 1] /\ pc' = pc
          /\ mesh' = [mesh EXCEPT ![r] = Append(h, m)]
      BY <2>7, <3>3 DEF AcquireHit, Refer, Done, Then, Now
    <3>5. x \in Spaces /\ x \notin DOMAIN f BY <2>1, <3>1, AcquireResult
    <3>6. e.at = n /\ e.item.hash = KeyOf(program, n, h) BY <2>2, <3>3
    <3>7. ~Missing(program, h, n)
      BY <2>2, <2>4, <3>1, <3>2, CacheOfProgram DEF Versions
    <3> HIDE DEF e, x, k
    <3>8. /\ ref'[r] = With(f, x, e) /\ step'[r] = n + 1 /\ pc'[r] = "running"
          /\ mesh'[r] = Append(h, m)
          /\ \A q \in Rank \ {r} :
               ref'[q] = ref[q] /\ step'[q] = step[q] /\ mesh'[q] = mesh[q]
      BY <2>1, <3>1, <3>4
    <3>9. Versions(program, n + 1, Append(h, m), With(f, program[n].space, e), b, "running")
      BY <2>3, <2>4, <3>1, <3>5, <3>6, <3>7, AcquireVersions DEF x
    <3>10. Versions(program, step'[r], mesh'[r], ref'[r], built'[r], pc'[r])
      BY <3>1, <3>8, <3>9 DEF x
    <3> QED BY <2>1, <3>1, <3>4, <3>8, <3>10, OneRankVersions
  <2>8. CASE AcquireMiss(r)
    <3>1. /\ pc[r] = "running" /\ n <= Len(program) /\ program[n].do = "acquire"
          /\ Key(r) \notin DOMAIN c /\ pc' = [pc EXCEPT ![r] = "building"]
          /\ built' = [built EXCEPT ![r] = Append(b, n)]
          /\ program' = program /\ step' = step /\ mesh' = mesh /\ ref' = ref
      BY <2>8 DEF AcquireMiss, At
    <3>2. /\ pc'[r] = "building" /\ built'[r] = Append(b, n) /\ DOMAIN built' = Rank
          /\ \A q \in Rank \ {r} : pc'[q] = pc[q] /\ built'[q] = built[q]
      BY <2>1, <3>1
    <3>3. CacheInv(c, l, f) /\ StepInv(program, n, h, f, "running") BY <2>1, <3>1 DEF Alive
    <3>4. Missing(program, h, n)
      BY <2>2, <2>4, <3>1, <3>3, CacheOfProgram DEF Versions
    <3>5. Versions(program, n, h, f, Append(b, n), "building")
      BY <2>3, <2>4, <3>1, <3>4, MissVersions
    <3>6. Versions(program, step'[r], mesh'[r], ref'[r], built'[r], pc'[r])
      BY <3>1, <3>2, <3>5
    <3> QED BY <3>1, <3>2, <3>6, OneRankVersions
  <2>9. CASE Build(r)
    <3> DEFINE x == program[n].space
               k == Key(r)
               j == [hash |-> k, number |-> Len(b)]
               e == [item |-> j, at |-> n]
    <3>1. /\ pc[r] = "building" /\ program' = program /\ built' = built
          /\ ref' = [ref EXCEPT ![r] = With(f, x, e)]
          /\ step' = [step EXCEPT ![r] = n + 1] /\ pc' = [pc EXCEPT ![r] = "running"]
          /\ mesh' = [mesh EXCEPT ![r] = Append(h, m)]
      BY <2>9 DEF Build, Refer, Done, Then, Now
    <3>2. n <= Len(program) /\ program[n].do = "acquire"
      BY <2>1, <3>1 DEF Alive, BuildInv
    <3>3. x \in Spaces /\ x \notin DOMAIN f BY <2>1, <3>1, <3>2, AcquireResult
    <3>4. e.at = n /\ e.item.hash = KeyOf(program, n, h) BY <2>2
    <3> HIDE DEF e, x, k, j
    <3>5. /\ ref'[r] = With(f, x, e) /\ step'[r] = n + 1 /\ pc'[r] = "running"
          /\ mesh'[r] = Append(h, m)
          /\ \A q \in Rank \ {r} :
               /\ ref'[q] = ref[q] /\ step'[q] = step[q] /\ pc'[q] = pc[q]
               /\ mesh'[q] = mesh[q]
      BY <2>1, <3>1
    <3>6. Versions(program, n + 1, Append(h, m), With(f, program[n].space, e), b, "running")
      BY <2>3, <2>4, <3>1, <3>2, <3>3, <3>4, AcquireVersions DEF x
    <3>7. Versions(program, step'[r], mesh'[r], ref'[r], built'[r], pc'[r])
      BY <3>1, <3>5, <3>6 DEF x
    <3> QED BY <2>1, <3>1, <3>5, <3>7, OneRankVersions
  <2>10. CASE Release(r)
    <3> DEFINE x == program[n].space
    <3>1. /\ pc[r] = "running" /\ n <= Len(program) /\ program[n].do = "release"
          /\ program' = program /\ built' = built
      BY <2>10 DEF Release, At
    <3>2. CacheInv(c, l, f) /\ StepInv(program, n, h, f, "running") BY <2>1, <3>1 DEF Alive
    <3>3. x \in DOMAIN f
      <4>1. program \in Programs /\ n \in 1 .. Len(program)
        BY <2>3, <3>1, <3>2 DEF StepInv
      <4> QED BY <3>1, <3>2, <4>1, Operation DEF StepInv
    <3>4. f[x].item \in DOMAIN l /\ l[f[x].item] = f[x].item.hash
      BY <3>2, <3>3 DEF CacheInv, Refers, Reverses
    <3>5. /\ ref' = [ref EXCEPT ![r] = Without(@, x)]
          /\ step' = [step EXCEPT ![r] = n + 1] /\ pc' = pc
          /\ mesh' = [mesh EXCEPT ![r] = Append(h, m)]
      BY <2>10, <3>4 DEF Release, Expected, Done, Then, Now
    <3>6. /\ ref'[r] = Without(f, x) /\ step'[r] = n + 1 /\ mesh'[r] = Append(h, m)
          /\ \A q \in Rank \ {r} :
               ref'[q] = ref[q] /\ step'[q] = step[q] /\ mesh'[q] = mesh[q]
      BY <2>1, <3>5
    <3>7. Versions(program, n + 1, Append(h, m), Without(f, x), b, "running")
      BY <2>3, <2>4, <3>1, ReleaseVersions
    <3>8. Versions(program, step'[r], mesh'[r], ref'[r], built'[r], pc'[r])
      BY <3>1, <3>5, <3>6, <3>7
    <3> QED BY <2>1, <3>1, <3>5, <3>6, <3>8, OneRankVersions
  <2>11. CASE Exit(r)
    <3>1. /\ pc[r] = "running" /\ n > Len(program) /\ pc' = [pc EXCEPT ![r] = "over"]
          /\ program' = program /\ step' = step /\ mesh' = mesh
          /\ ref' = ref /\ built' = built
      BY <2>11 DEF Exit
    <3>2. pc'[r] = "over" /\ \A q \in Rank \ {r} : pc'[q] = pc[q]
      BY <2>1, <3>1
    <3>3. n = Len(program) + 1 BY <2>3, <3>1
    <3>4. Versions(program, n, h, f, b, "over")
      BY <2>4, <3>1, <3>3 DEF Versions, BuiltByProgram, Reached
    <3>5. Versions(program, step'[r], mesh'[r], ref'[r], built'[r], pc'[r])
      BY <3>1, <3>2, <3>4
    <3> QED BY <2>1, <3>1, <3>2, <3>5, OneRankVersions
  <2> QED BY <1>2, <2>6, <2>7, <2>8, <2>9, <2>10, <2>11 DEF Run
<1> QED BY <1>1, <1>2 DEF Next

(* Two spaces have one dof map when the hashes of their meshes are the     *)
(* same, and their signatures.                                             *)
LEMMA VersionsShare == AliveInv /\ VersionsInv => SharedByMesh
<1> SUFFICES ASSUME AliveInv, VersionsInv, NEW r \in Rank, pc[r] # "over",
                    NEW s \in DOMAIN ref[r], NEW t \in DOMAIN ref[r]
             PROVE  ref[r][s].item = ref[r][t].item
                      <=> /\ mesh[r][ref[r][s].at] = mesh[r][ref[r][t].at]
                          /\ Signature[s] = Signature[t]
  BY DEF SharedByMesh
<1> DEFINE f == ref[r]
           h == mesh[r]
           n == step[r]
           c == cache_[r]
<1>1. /\ h \in Seq(Meshes) /\ Len(h) = n /\ n \in Nat /\ Refers(c, f)
      /\ RefersByMesh(program, n, h, f)
  BY ProgramsAssumption
     DEF AliveInv, StepInv, CacheInv, VersionsInv, Versions, WellFormedProgram
<1> HIDE DEF f, h, n, c
<1>2. ASSUME NEW x \in DOMAIN f
      PROVE  /\ f[x].item.hash = <<Signature[x], HashOf(h[f[x].at])>>
             /\ h[f[x].at] \in Meshes
             /\ c[f[x].item.hash].item = f[x].item
  <2>1. f[x].at \in 1 .. n - 1 BY <1>1 DEF RefersByMesh, Taken
  <2>2. f[x].at \in 1 .. Len(h) BY <1>1, <2>1
  <2> QED BY <1>1, <2>2 DEF RefersByMesh, Refers
<1>3. ASSUME f[s].item = f[t].item, s \in DOMAIN f, t \in DOMAIN f
      PROVE  h[f[s].at] = h[f[t].at] /\ Signature[s] = Signature[t]
  <2>1. HashOf(h[f[s].at]) = HashOf(h[f[t].at]) /\ Signature[s] = Signature[t]
    BY <1>2, <1>3
  <2> QED BY <1>2, <1>3, <2>1 DEF HashOf, Meshes
<1>4. ASSUME h[f[s].at] = h[f[t].at], Signature[s] = Signature[t],
             s \in DOMAIN f, t \in DOMAIN f
      PROVE  f[s].item = f[t].item
  <2>1. f[s].item.hash = f[t].item.hash BY <1>2, <1>4
  <2> QED BY <1>2, <1>4, <2>1
<1> QED BY <1>3, <1>4 DEF f, h

(* The histories of two ranks that tell the same meshes apart.             *)
LEMMA AlikeHistories ==
  ASSUME AliveInv, Alike, NEW r \in Rank, NEW q \in Rank,
         NEW n \in Nat, n <= step[r], n <= step[q]
  PROVE  /\ \A j \in 1 .. n : Missing(program, mesh[r], j) <=> Missing(program, mesh[q], j)
         /\ \A j \in 0 .. n : Misses(program, mesh[r], j) = Misses(program, mesh[q], j)
<1>1. ASSUME NEW i \in Rank
      PROVE  mesh[i] \in Seq(Meshes) /\ Len(mesh[i]) = step[i] /\ step[i] \in Nat
  BY ProgramsAssumption DEF AliveInv, StepInv, WellFormedProgram
<1>2. \A i \in 1 .. n : i \in DOMAIN mesh[r] \cap DOMAIN mesh[q] BY <1>1
<1>3. ApartAlike(mesh[r], mesh[q], n) BY <1>2 DEF Alike, ApartAlike
<1> QED BY <1>3, MissesAlike

LEMMA VersionsAgree == AliveInv /\ VersionsInv => (Alike => BuildsAgree)
<1> SUFFICES ASSUME AliveInv, VersionsInv, Alike, NEW r \in Rank, NEW q \in Rank,
                    NEW i \in DOMAIN built[r] \cap DOMAIN built[q]
             PROVE  built[r][i] = built[q][i]
  BY DEF BuildsAgree
<1> DEFINE at(u) == built[u][i]
<1>1. ASSUME NEW u \in {r, q}
      PROVE  /\ at(u) \in Nat \ {0} /\ at(u) <= step[u] /\ step[u] \in Nat
             /\ Missing(program, mesh[u], at(u))
             /\ Cardinality(Misses(program, mesh[u], at(u))) = i
  <2>1. BuiltByProgram(program, step[u], mesh[u], built[u], pc[u])
    BY DEF VersionsInv, Versions
  <2>2. i \in 1 .. Len(built[u]) BY <2>1 DEF BuiltByProgram
  <2>3. step[u] \in Nat BY ProgramsAssumption DEF AliveInv, StepInv, WellFormedProgram
  <2>4. at(u) \in 1 .. step[u] BY <2>1, <2>2 DEF BuiltByProgram
  <2> QED BY <2>1, <2>2, <2>3, <2>4 DEF BuiltByProgram
<1>2. i \in Nat
  <2>1. built[r] \in Seq(Nat) BY DEF VersionsInv, Versions, BuiltByProgram
  <2> QED BY <2>1
<1> HIDE DEF at
<1>3. ASSUME NEW u \in {r, q}, NEW v \in {r, q}, at(u) < at(v) PROVE FALSE
  <2> DEFINE n == at(u)
  <2>1. n \in Nat /\ n <= step[u] /\ n <= step[v] /\ n \in 0 .. n BY <1>1, <1>3
  <2>2. Misses(program, mesh[u], n) = Misses(program, mesh[v], n)
    BY <2>1, AlikeHistories
  <2>3. Cardinality(Misses(program, mesh[v], n)) = i BY <1>1, <2>2
  <2>4. Cardinality(Misses(program, mesh[v], n)) < Cardinality(Misses(program, mesh[v], at(v)))
    BY <1>1, <1>3, <2>1, MissesGrow
  <2> QED BY <1>1, <1>2, <2>3, <2>4
<1>4. at(r) \in Nat /\ at(q) \in Nat BY <1>1
<1>5. ~(at(r) < at(q)) /\ ~(at(q) < at(r)) BY <1>3
<1> QED BY <1>4, <1>5 DEF at

LEMMA VersionsAwait == AliveInv /\ VersionsInv => (Alike => AwaitsOthers)
<1> SUFFICES ASSUME AliveInv, VersionsInv, Alike, NEW r \in Rank, NEW q \in Rank,
                    pc[r] = "building", Len(built[q]) < Len(built[r])
             PROVE  \/ step[q] < step[r] /\ pc[q] \in {"running", "building"}
                    \/ step[q] = step[r] /\ pc[q] = "running"
  BY DEF AwaitsOthers
<1> DEFINE n == step[r]
           k == Reached(step[q], pc[q])
<1>1. Len(program) \in Nat /\ n \in 1 .. Len(program) /\ step[q] \in 1 .. Len(program) + 1
      /\ pc[q] \in {"running", "building", "over"}
  BY ProgramsAssumption DEF AliveInv, StepInv, BuildInv, WellFormedProgram
<1>2. /\ Len(built[r]) = Cardinality(Misses(program, mesh[r], n))
      /\ Len(built[q]) = Cardinality(Misses(program, mesh[q], k))
      /\ pc[q] = "over" => step[q] = Len(program) + 1
  BY DEF VersionsInv, Versions, BuiltByProgram, Reached
<1>3. k \in Nat /\ k = IF pc[q] = "building" THEN step[q] ELSE step[q] - 1
  BY <1>1 DEF Reached
<1> HIDE DEF k
<1>4. k < n
  <2> SUFFICES ASSUME n <= k PROVE FALSE BY <1>1, <1>3
  <2>1. n \in Nat /\ n <= step[q] /\ n \in 0 .. n BY <1>1, <1>3
  <2>2. Misses(program, mesh[r], n) = Misses(program, mesh[q], n)
    BY <2>1, AlikeHistories
  <2>3. Cardinality(Misses(program, mesh[q], n)) <= Cardinality(Misses(program, mesh[q], k))
    BY <1>3, <2>1, MissesGrow
  <2>4. /\ Cardinality(Misses(program, mesh[q], n)) \in Nat
        /\ Cardinality(Misses(program, mesh[q], k)) \in Nat
    BY <1>3, <2>1, MissesFinite
  <2> QED BY <1>2, <2>2, <2>3, <2>4
<1> HIDE DEF n
<1> QED BY <1>1, <1>2, <1>3, <1>4 DEF n

(* What a rank finds in its cache and what it builds follow from the       *)
(* program and from which meshes its hashes tell apart, whatever they are. *)
THEOREM VersionsInvariant == Spec => []VersionsInv
<1> QED BY NextVersions, CacheInvariant, InitVersions, PTL DEF Spec

(* A space is given the dof map of another just when they have one         *)
(* signature and neither the second nor the size tells their meshes apart. *)
THEOREM Sharing == Spec => []SharedByMesh
<1> QED BY CacheInvariant, VersionsInvariant, VersionsShare, PTL

(* The ranks build the dof maps of the same operations in one order, so    *)
(* the collective calls of a build meet those of the same build, as long   *)
(* as the ranks tell the same meshes apart.                                *)
THEOREM BuildsMeet == Spec => [](Alike => BuildsAgree)
<1> QED BY CacheInvariant, VersionsInvariant, VersionsAgree, PTL

(* As long as they do, a rank in a build waits only for ranks that are     *)
(* behind it in the program and have not ended, so the ranks cannot all be *)
(* waiting.                                                                *)
THEOREM NoneIsStranded == Spec => [](Alike => AwaitsOthers)
<1> QED BY CacheInvariant, VersionsInvariant, VersionsAwait, PTL
================================================================================
