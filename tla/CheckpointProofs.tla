--------------------------- MODULE CheckpointProofs ---------------------------
(***************************************************************************)
(* For any number of ranks, any objects and any sizes: a checkpoint that   *)
(* was closed has no gap and is what the ranks wrote, whatever was in the  *)
(* file before; what a rank loads from it is what that rank wrote; and a   *)
(* careful program keeps the checkpoint it was restarted from.             *)
(***************************************************************************)
EXTENDS Checkpoint, SumsProofs

------------------------------------------------------------------------------
(* Ascending offsets *)

(* What does not descend from one to the next does not descend.            *)
LEMMA Ascends ==
  ASSUME NEW m \in Nat, NEW g, \A k \in 0 .. m : g[k] \in Int,
         \A k \in 0 .. (m - 1) : g[k] <= g[k + 1]
  PROVE  \A a, b \in 0 .. m : a <= b => g[a] <= g[b]
<1> DEFINE S == {b \in Nat : b <= m => \A a \in 0 .. b : g[a] <= g[b]}
<1>1. 0 \in S OBVIOUS
<1>2. ASSUME NEW b \in S PROVE b + 1 \in S
  <2>1. SUFFICES ASSUME b + 1 <= m, NEW a \in 0 .. (b + 1) PROVE g[a] <= g[b + 1]
    OBVIOUS
  <2>2. CASE a = b + 1 BY <2>1, <2>2
  <2>3. CASE a \in 0 .. b
    <3>1. g[a] <= g[b] /\ g[b] <= g[b + 1] BY <2>1, <2>3
    <3>2. g[a] \in Int /\ g[b] \in Int /\ g[b + 1] \in Int BY <2>1, <2>3
    <3> QED BY <3>1, <3>2
  <2> QED BY <2>1, <2>2, <2>3
<1>3. S = Nat BY <1>1, <1>2, SetInduction
<1> QED BY <1>3

(* What lies between the first and the last lies between two neighbours.   *)
LEMMA Between ==
  ASSUME NEW m \in Nat, NEW g, \A k \in 0 .. m : g[k] \in Int,
         NEW b \in Int, g[0] <= b, b < g[m]
  PROVE  \E k \in 0 .. (m - 1) : g[k] <= b /\ b < g[k + 1]
<1> DEFINE S == {k \in Nat : k <= m => g[k] <= b}
<1>1. SUFFICES ASSUME ~ \E k \in 0 .. (m - 1) : g[k] <= b /\ b < g[k + 1] PROVE FALSE
  OBVIOUS
<1>2. 0 \in S OBVIOUS
<1>3. ASSUME NEW k \in S PROVE k + 1 \in S
  <2>1. SUFFICES ASSUME k + 1 <= m PROVE g[k + 1] <= b OBVIOUS
  <2>2. k \in 0 .. (m - 1) /\ g[k] <= b BY <2>1
  <2>3. ~ (b < g[k + 1]) BY <1>1, <2>2
  <2>4. g[k + 1] \in Int BY <2>1
  <2> QED BY <2>3, <2>4
<1>4. S = Nat BY <1>2, <1>3, SetInduction
<1>5. g[m] <= b BY <1>4
<1> QED BY <1>5

(* Pieces of the lengths e, one after the other from 0 on: they do not     *)
(* overlap and leave no gap.                                               *)
Line(m, g, e) ==
  /\ m \in Nat /\ g[0] = 0
  /\ \A k \in 0 .. m : g[k] \in Nat
  /\ \A k \in 0 .. (m - 1) : e[k] \in Nat /\ g[k + 1] = g[k] + e[k]

LEMMA InLine ==
  ASSUME NEW m, NEW g, NEW e, Line(m, g, e)
  PROVE  /\ \A a \in 0 .. (m - 1) : g[a] + e[a] <= g[m]
         /\ \A a, b \in 0 .. (m - 1) : a < b => g[a] + e[a] <= g[b]
         /\ \A x \in Nat : x < g[m] =>
              \E k \in 0 .. (m - 1) : g[k] <= x /\ x < g[k] + e[k]
<1>1. /\ m \in Nat /\ g[0] = 0 /\ \A k \in 0 .. m : g[k] \in Nat
      /\ \A k \in 0 .. (m - 1) : e[k] \in Nat /\ g[k + 1] = g[k] + e[k]
  BY DEF Line
<1>2. \A k \in 0 .. m : g[k] \in Int BY <1>1
<1>3. \A k \in 0 .. (m - 1) : g[k] <= g[k + 1]
  <2>1. SUFFICES ASSUME NEW k \in 0 .. (m - 1) PROVE g[k] <= g[k + 1] OBVIOUS
  <2>2. g[k] \in Nat /\ e[k] \in Nat /\ g[k + 1] = g[k] + e[k] BY <1>1
  <2> QED BY <2>2
<1>4. \A a, b \in 0 .. m : a <= b => g[a] <= g[b] BY <1>1, <1>2, <1>3, Ascends
<1>5. ASSUME NEW a \in 0 .. (m - 1) PROVE g[a] + e[a] <= g[m]
  <2>1. a + 1 \in 0 .. m /\ a + 1 <= m /\ m \in 0 .. m BY <1>1
  <2>2. g[a + 1] <= g[m] BY <1>4, <2>1
  <2> QED BY <1>1, <2>2
<1>6. ASSUME NEW a \in 0 .. (m - 1), NEW b \in 0 .. (m - 1), a < b PROVE g[a] + e[a] <= g[b]
  <2>1. a + 1 \in 0 .. m /\ a + 1 <= b /\ b \in 0 .. m BY <1>1, <1>6
  <2>2. g[a + 1] <= g[b] BY <1>4, <2>1
  <2> QED BY <1>1, <2>2
<1>7. ASSUME NEW x \in Nat, x < g[m]
      PROVE  \E k \in 0 .. (m - 1) : g[k] <= x /\ x < g[k] + e[k]
  <2>1. x \in Int /\ g[0] <= x BY <1>1
  <2>2. \E k \in 0 .. (m - 1) : g[k] <= x /\ x < g[k + 1] BY <1>1, <1>2, <1>7, <2>1, Between
  <2> QED BY <1>1, <2>2
<1> QED BY <1>5, <1>6, <1>7

(* Products of natural numbers grow with their factors.                    *)
LEMMA ProductNat ==
  ASSUME NEW a \in Nat, NEW w \in Nat PROVE a * w \in Nat
OBVIOUS

LEMMA ProductOfSum ==
  ASSUME NEW a \in Nat, NEW c \in Nat, NEW w \in Nat PROVE (a + c) * w = a * w + c * w
OBVIOUS

------------------------------------------------------------------------------
(* Layout *)

LEMMA PartsAre ==
  ASSUME NEW kind \in Kinds, NEW p
  PROVE  /\ Len(Parts(kind, p)) \in 2 .. 5
         /\ Parts(kind, p)[1] = "header"
         /\ \A i \in 2 .. Len(Parts(kind, p)) :
              /\ Parts(kind, p)[i] \in {"coords", "cells", "mapping", "ghosts", "values"}
              /\ Parts(kind, p)[i] # "header"
         /\ \A i, k \in 1 .. Len(Parts(kind, p)) : Parts(kind, p)[i] = Parts(kind, p)[k] => i = k
<1>1. CASE kind # "mesh"
  <2>1. Parts(kind, p) = <<"header", "values">> BY <1>1 DEF Parts
  <2> QED BY <2>1
<1>2. CASE kind = "mesh" /\ p = 1
  <2>1. Parts(kind, p) = <<"header", "coords", "cells">> BY <1>2 DEF Parts
  <2> QED BY <2>1
<1>3. CASE kind = "mesh" /\ p # 1
  <2>1. Parts(kind, p) = <<"header", "coords", "cells", "mapping", "ghosts">>
    BY <1>3 DEF Parts
  <2> QED BY <2>1
<1> QED BY <1>1, <1>2, <1>3

(* An object of the program, and a part of it.                             *)
IsObject(p, kind, name) ==
  /\ program \in Programs /\ p \in Jobs /\ kind \in Kinds /\ name \in Names(kind)
IsPart(p, kind, part) == \E i \in 1 .. Len(Parts(kind, p)) : Parts(kind, p)[i] = part

LEMMA Counted ==
  ASSUME NEW p, NEW kind, NEW name, NEW part, IsObject(p, kind, name), IsPart(p, kind, part)
  PROVE  /\ p \in Nat /\ p > 0
         /\ \A r \in Rank(p) : Count(p, kind, name, part, r) \in Nat
         /\ Width(kind, part) \in Nat /\ Width(kind, part) > 0
         /\ Before(p, kind, name, part, 0) = 0
         /\ \A r \in 0 .. p : Before(p, kind, name, part, r) \in Nat
         /\ \A r \in Rank(p) : Before(p, kind, name, part, r + 1) =
              Before(p, kind, name, part, r) + Count(p, kind, name, part, r)
<1>1. p \in Nat /\ p > 0 BY CheckpointAssumption DEF IsObject
<1>2. Width(kind, part) \in Nat /\ Width(kind, part) > 0
  BY PartsAre, CheckpointAssumption DEF IsObject, IsPart, Width, Sized
<1>3. CASE part = "header" BY <1>1, <1>2, <1>3 DEF Count, Before, Rank
<1>4. CASE part # "header"
  <2> DEFINE f == Sizes[p][kind][name][part]
  <2>1. part \in DataParts(kind, p) BY <1>4, PartsAre DEF IsObject, IsPart, DataParts
  <2>2. PICK j \in DOMAIN program.objects[kind] : program.objects[kind][j] = name
    BY DEF IsObject, Names, Objects
  <2>3. \A r \in Rank(p) : f[r] \in Nat
    BY <2>1, <2>2, CheckpointAssumption DEF IsObject, ProgramOK
  <2>4. \A r \in Rank(p) : Count(p, kind, name, part, r) = f[r] BY <1>4 DEF Count
  <2>5. \A r : Before(p, kind, name, part, r) = SumOf(f, r) BY <1>4 DEF Before
  <2> HIDE DEF f
  <2>6. SumOf(f, 0) = 0 /\ \A r \in Nat : SumOf(f, r + 1) = SumOf(f, r) + f[r]
    BY SumOfRecursion
  <2>7. ASSUME NEW r \in 0 .. p PROVE SumOf(f, r) \in Nat
    <3>1. r \in Nat /\ \A k \in 0 .. (r - 1) : f[k] \in Nat BY <1>1, <2>3, <2>7 DEF Rank
    <3> QED BY <3>1, SumOfType
  <2> QED BY <1>1, <1>2, <2>3, <2>4, <2>5, <2>6, <2>7 DEF Rank
<1> QED BY <1>3, <1>4

(* The bytes of the ranks in a part, one after the other.                  *)
Length(p, kind, name, part, r) == Count(p, kind, name, part, r) * Width(kind, part)

LEMMA RanksInPart ==
  ASSUME NEW p, NEW kind, NEW name, NEW part, IsObject(p, kind, name), IsPart(p, kind, part)
  PROVE  /\ At(p, kind, name, part, 0) = 0
         /\ At(p, kind, name, part, p) = PartSize(p, kind, name, part)
         /\ \A r \in 0 .. p : At(p, kind, name, part, r) \in Nat
         /\ \A r \in Rank(p) :
              /\ Length(p, kind, name, part, r) \in Nat
              /\ At(p, kind, name, part, r + 1) =
                   At(p, kind, name, part, r) + Length(p, kind, name, part, r)
<1> DEFINE w == Width(kind, part)
           B(r) == Before(p, kind, name, part, r)
           C(r) == Count(p, kind, name, part, r)
<1>1. /\ p \in Nat /\ p > 0 /\ w \in Nat /\ B(0) = 0
      /\ \A r \in 0 .. p : B(r) \in Nat
      /\ \A r \in Rank(p) : C(r) \in Nat /\ B(r + 1) = B(r) + C(r)
  BY Counted
<1>2. \A r : At(p, kind, name, part, r) = B(r) * w BY DEF At
<1>3. \A r : Length(p, kind, name, part, r) = C(r) * w BY DEF Length
<1>4. PartSize(p, kind, name, part) = B(p) * w BY DEF PartSize, Total
<1> HIDE DEF w, B, C
<1>5. ASSUME NEW r \in Rank(p)
      PROVE  C(r) * w \in Nat /\ B(r + 1) * w = B(r) * w + C(r) * w
  <2>1. r \in 0 .. p BY <1>1 DEF Rank
  <2>2. B(r) \in Nat /\ C(r) \in Nat /\ B(r + 1) = B(r) + C(r) BY <1>1, <2>1
  <2>3. C(r) * w \in Nat BY <1>1, <2>2, ProductNat
  <2>4. (B(r) + C(r)) * w = B(r) * w + C(r) * w BY <1>1, <2>2, ProductOfSum
  <2> QED BY <2>2, <2>3, <2>4
<1>6. ASSUME NEW r \in 0 .. p PROVE B(r) * w \in Nat BY <1>1, ProductNat
<1>7. B(0) * w = 0 BY <1>1
<1> QED BY <1>2, <1>3, <1>4, <1>5, <1>6, <1>7

(* The parts of an object.                                                 *)
LEMMA PartsInObject ==
  ASSUME NEW p, NEW kind, NEW name, IsObject(p, kind, name)
  PROVE  /\ SizeOfParts(p, kind, name, 0) = 0
         /\ \A k \in 0 .. Len(Parts(kind, p)) : SizeOfParts(p, kind, name, k) \in Nat
         /\ \A k \in 0 .. (Len(Parts(kind, p)) - 1) :
              /\ PartSize(p, kind, name, Parts(kind, p)[k + 1]) \in Nat
              /\ SizeOfParts(p, kind, name, k + 1) =
                   SizeOfParts(p, kind, name, k) + PartSize(p, kind, name, Parts(kind, p)[k + 1])
         /\ SizeOfParts(p, kind, name, 1) = p * SizeOf[kind]
<1> DEFINE l == Len(Parts(kind, p))
           f == [i \in 0 .. (l - 1) |-> PartSize(p, kind, name, Parts(kind, p)[i + 1])]
<1>1. l \in 2 .. 5 /\ Parts(kind, p)[1] = "header" BY PartsAre DEF IsObject
<1>2. ASSUME NEW k \in 0 .. (l - 1) PROVE f[k] \in Nat
  <2>1. IsPart(p, kind, Parts(kind, p)[k + 1]) BY <1>1, <1>2 DEF IsPart
  <2>2. p \in 0 .. p BY CheckpointAssumption DEF IsObject
  <2>3. PartSize(p, kind, name, Parts(kind, p)[k + 1]) \in Nat BY <2>1, <2>2, RanksInPart
  <2> QED BY <2>3
<1>3. \A k : SizeOfParts(p, kind, name, k) = SumOf(f, k) BY DEF SizeOfParts
<1>4. \A k \in 0 .. (l - 1) : f[k] = PartSize(p, kind, name, Parts(kind, p)[k + 1]) OBVIOUS
<1>5. f[0] = p * SizeOf[kind]
  BY <1>1, <1>4 DEF PartSize, Total, Before, Width
<1> HIDE DEF f, l
<1>6. SumOf(f, 0) = 0 /\ \A k \in Nat : SumOf(f, k + 1) = SumOf(f, k) + f[k]
  BY SumOfRecursion
<1>7. ASSUME NEW k \in 0 .. l PROVE SumOf(f, k) \in Nat
  <2>1. k \in Nat /\ \A i \in 0 .. (k - 1) : f[i] \in Nat BY <1>1, <1>2, <1>7
  <2> QED BY <2>1, SumOfType
<1>8. SumOf(f, 1) = p * SizeOf[kind]
  <2>1. 0 \in 0 .. (l - 1) BY <1>1
  <2>2. f[0] \in Nat BY <1>2, <2>1
  <2>3. SumOf(f, 0 + 1) = SumOf(f, 0) + f[0] BY <1>6
  <2> QED BY <1>5, <1>6, <2>2, <2>3
<1>9. ASSUME NEW k \in 0 .. (l - 1)
      PROVE  /\ PartSize(p, kind, name, Parts(kind, p)[k + 1]) \in Nat
             /\ SumOf(f, k + 1) = SumOf(f, k) + PartSize(p, kind, name, Parts(kind, p)[k + 1])
  <2>1. k \in Nat BY <1>1
  <2> QED BY <1>2, <1>4, <1>6, <1>9, <2>1
<1> QED BY <1>3, <1>6, <1>7, <1>8, <1>9 DEF l

(* The objects of a kind.                                                  *)
LEMMA ObjectsAre ==
  ASSUME program \in Programs, NEW kind \in Kinds
  PROVE  /\ Len(Objects(kind)) \in Nat
         /\ DOMAIN Objects(kind) = 1 .. Len(Objects(kind))
         /\ \A j \in 1 .. Len(Objects(kind)) : Objects(kind)[j] \in Names(kind)
         /\ \A name \in Names(kind) : \E j \in 1 .. Len(Objects(kind)) : Objects(kind)[j] = name
         /\ \A j, k \in 1 .. Len(Objects(kind)) : Objects(kind)[j] = Objects(kind)[k] => j = k
<1>1. ProgramOK(program) BY CheckpointAssumption
<1>2. Objects(kind) \in Seq(STRING) BY <1>1 DEF ProgramOK, Objects
<1>3. DOMAIN Objects(kind) = 1 .. Len(Objects(kind)) /\ Len(Objects(kind)) \in Nat BY <1>2
<1> QED BY <1>1, <1>3 DEF ProgramOK, Objects, Names

LEMMA ObjectsInKind ==
  ASSUME program \in Programs, NEW p \in Jobs, NEW kind \in Kinds
  PROVE  /\ SizeOfObjects(p, kind, 0) = 0
         /\ \A k \in 0 .. Len(Objects(kind)) : SizeOfObjects(p, kind, k) \in Nat
         /\ \A k \in 0 .. (Len(Objects(kind)) - 1) :
              /\ SizeOfObject(p, kind, Objects(kind)[k + 1]) \in Nat
              /\ SizeOfObjects(p, kind, k + 1) =
                   SizeOfObjects(p, kind, k) + SizeOfObject(p, kind, Objects(kind)[k + 1])
         /\ SizeOfKind(p, kind) \in Nat
<1> DEFINE l == Len(Objects(kind))
           f == [i \in 0 .. (l - 1) |-> SizeOfObject(p, kind, Objects(kind)[i + 1])]
<1>1. l \in Nat /\ \A j \in 1 .. l : Objects(kind)[j] \in Names(kind) BY ObjectsAre
<1>2. ASSUME NEW k \in 0 .. (l - 1) PROVE f[k] \in Nat
  <2>1. IsObject(p, kind, Objects(kind)[k + 1]) BY <1>1, <1>2 DEF IsObject
  <2>2. Len(Parts(kind, p)) \in 0 .. Len(Parts(kind, p)) BY PartsAre
  <2>3. SizeOfObject(p, kind, Objects(kind)[k + 1]) \in Nat
    BY <2>1, <2>2, PartsInObject DEF SizeOfObject
  <2> QED BY <2>3
<1>3. \A k : SizeOfObjects(p, kind, k) = SumOf(f, k) BY DEF SizeOfObjects
<1>4. \A k \in 0 .. (l - 1) : f[k] = SizeOfObject(p, kind, Objects(kind)[k + 1]) OBVIOUS
<1> HIDE DEF f, l
<1>6. SumOf(f, 0) = 0 /\ \A k \in Nat : SumOf(f, k + 1) = SumOf(f, k) + f[k]
  BY SumOfRecursion
<1>7. ASSUME NEW k \in 0 .. l PROVE SumOf(f, k) \in Nat
  <2>1. k \in Nat /\ \A i \in 0 .. (k - 1) : f[i] \in Nat BY <1>1, <1>2, <1>7
  <2> QED BY <2>1, SumOfType
<1>9. ASSUME NEW k \in 0 .. (l - 1)
      PROVE  /\ SizeOfObject(p, kind, Objects(kind)[k + 1]) \in Nat
             /\ SumOf(f, k + 1) = SumOf(f, k) + SizeOfObject(p, kind, Objects(kind)[k + 1])
  <2>1. k \in Nat BY <1>1
  <2> QED BY <1>2, <1>4, <1>6, <1>9, <2>1
<1>10. l \in 0 .. l BY <1>1
<1>11. SizeOfKind(p, kind) \in Nat BY <1>3, <1>7, <1>10 DEF SizeOfKind, l
<1> QED BY <1>3, <1>6, <1>7, <1>9, <1>11 DEF l

(* The ranks in a part, the parts in an object and the objects of a kind   *)
(* stand in line.                                                          *)
RankLine(p, kind, name, part) ==
  Line(p, [r \in 0 .. p |-> At(p, kind, name, part, r)],
       [r \in 0 .. (p - 1) |-> Length(p, kind, name, part, r)])

PartLine(p, kind, name) ==
  Line(Len(Parts(kind, p)), [k \in 0 .. Len(Parts(kind, p)) |-> SizeOfParts(p, kind, name, k)],
       [k \in 0 .. (Len(Parts(kind, p)) - 1) |-> PartSize(p, kind, name, Parts(kind, p)[k + 1])])

ObjectLine(p, kind) ==
  Line(Len(Objects(kind)), [k \in 0 .. Len(Objects(kind)) |-> SizeOfObjects(p, kind, k)],
       [k \in 0 .. (Len(Objects(kind)) - 1) |-> SizeOfObject(p, kind, Objects(kind)[k + 1])])

LEMMA RanksInLine ==
  ASSUME NEW p, NEW kind, NEW name, NEW part, IsObject(p, kind, name), IsPart(p, kind, part)
  PROVE  RankLine(p, kind, name, part)
<1> DEFINE g == [r \in 0 .. p |-> At(p, kind, name, part, r)]
           e == [r \in 0 .. (p - 1) |-> Length(p, kind, name, part, r)]
<1>1. p \in Nat BY CheckpointAssumption DEF IsObject
<1>2. g[0] = 0 BY <1>1, RanksInPart
<1>3. ASSUME NEW r \in 0 .. p PROVE g[r] \in Nat
  <2>1. At(p, kind, name, part, r) \in Nat BY RanksInPart
  <2> QED BY <2>1
<1>4. ASSUME NEW r \in 0 .. (p - 1) PROVE e[r] \in Nat /\ g[r + 1] = g[r] + e[r]
  <2>1. r \in Rank(p) /\ r \in 0 .. p /\ r + 1 \in 0 .. p BY <1>1 DEF Rank
  <2>2. /\ Length(p, kind, name, part, r) \in Nat
        /\ At(p, kind, name, part, r + 1) = At(p, kind, name, part, r) + Length(p, kind, name, part, r)
    BY <2>1, RanksInPart
  <2> QED BY <2>1, <2>2
<1> HIDE DEF g, e
<1>5. Line(p, g, e) BY <1>1, <1>2, <1>3, <1>4 DEF Line
<1> QED BY <1>5 DEF RankLine, g, e

LEMMA PartsInLine ==
  ASSUME NEW p, NEW kind, NEW name, IsObject(p, kind, name)
  PROVE  PartLine(p, kind, name)
<1> DEFINE l == Len(Parts(kind, p))
           g == [k \in 0 .. l |-> SizeOfParts(p, kind, name, k)]
           e == [k \in 0 .. (l - 1) |-> PartSize(p, kind, name, Parts(kind, p)[k + 1])]
<1>1. l \in Nat BY PartsAre DEF IsObject
<1>2. g[0] = 0 BY <1>1, PartsInObject
<1>3. ASSUME NEW k \in 0 .. l PROVE g[k] \in Nat
  <2>1. SizeOfParts(p, kind, name, k) \in Nat BY PartsInObject
  <2> QED BY <2>1
<1>4. ASSUME NEW k \in 0 .. (l - 1) PROVE e[k] \in Nat /\ g[k + 1] = g[k] + e[k]
  <2>1. k \in 0 .. l /\ k + 1 \in 0 .. l BY <1>1
  <2>2. /\ PartSize(p, kind, name, Parts(kind, p)[k + 1]) \in Nat
        /\ SizeOfParts(p, kind, name, k + 1) =
             SizeOfParts(p, kind, name, k) + PartSize(p, kind, name, Parts(kind, p)[k + 1])
    BY PartsInObject
  <2> QED BY <2>1, <2>2
<1> HIDE DEF g, e, l
<1>5. Line(l, g, e) BY <1>1, <1>2, <1>3, <1>4 DEF Line
<1> QED BY <1>5 DEF PartLine, g, e, l

LEMMA ObjectsInLine ==
  ASSUME program \in Programs, NEW p \in Jobs, NEW kind \in Kinds
  PROVE  ObjectLine(p, kind)
<1> DEFINE l == Len(Objects(kind))
           g == [k \in 0 .. l |-> SizeOfObjects(p, kind, k)]
           e == [k \in 0 .. (l - 1) |-> SizeOfObject(p, kind, Objects(kind)[k + 1])]
<1>1. l \in Nat BY ObjectsAre
<1>2. g[0] = 0 BY <1>1, ObjectsInKind
<1>3. ASSUME NEW k \in 0 .. l PROVE g[k] \in Nat
  <2>1. SizeOfObjects(p, kind, k) \in Nat BY ObjectsInKind
  <2> QED BY <2>1
<1>4. ASSUME NEW k \in 0 .. (l - 1) PROVE e[k] \in Nat /\ g[k + 1] = g[k] + e[k]
  <2>1. k \in 0 .. l /\ k + 1 \in 0 .. l BY <1>1
  <2>2. /\ SizeOfObject(p, kind, Objects(kind)[k + 1]) \in Nat
        /\ SizeOfObjects(p, kind, k + 1) =
             SizeOfObjects(p, kind, k) + SizeOfObject(p, kind, Objects(kind)[k + 1])
    BY ObjectsInKind
  <2> QED BY <2>1, <2>2
<1> HIDE DEF g, e, l
<1>5. Line(l, g, e) BY <1>1, <1>2, <1>3, <1>4 DEF Line
<1> QED BY <1>5 DEF ObjectLine, g, e, l

(* What that says of the operators themselves.                             *)
LEMMA RankPlaces ==
  ASSUME NEW p, NEW kind, NEW name, NEW part, IsObject(p, kind, name), IsPart(p, kind, part)
  PROVE  /\ \A r \in Rank(p) :
              At(p, kind, name, part, r) + Length(p, kind, name, part, r)
                <= PartSize(p, kind, name, part)
         /\ \A r, q \in Rank(p) : r < q =>
              At(p, kind, name, part, r) + Length(p, kind, name, part, r)
                <= At(p, kind, name, part, q)
         /\ \A x \in Nat : x < PartSize(p, kind, name, part) =>
              \E r \in Rank(p) :
                /\ At(p, kind, name, part, r) <= x
                /\ x < At(p, kind, name, part, r) + Length(p, kind, name, part, r)
<1> DEFINE g == [r \in 0 .. p |-> At(p, kind, name, part, r)]
           e == [r \in 0 .. (p - 1) |-> Length(p, kind, name, part, r)]
<1>1. p \in Nat BY CheckpointAssumption DEF IsObject
<1>2. Line(p, g, e) BY RanksInLine DEF RankLine
<1>3. g[p] = PartSize(p, kind, name, part) BY <1>1, RanksInPart
<1>4. \A r \in Rank(p) : /\ g[r] = At(p, kind, name, part, r)
                          /\ e[r] = Length(p, kind, name, part, r)
  BY <1>1 DEF Rank
<1> HIDE DEF g, e
<1>5. /\ \A a \in 0 .. (p - 1) : g[a] + e[a] <= g[p]
      /\ \A a, b \in 0 .. (p - 1) : a < b => g[a] + e[a] <= g[b]
      /\ \A x \in Nat : x < g[p] => \E k \in 0 .. (p - 1) : g[k] <= x /\ x < g[k] + e[k]
  BY <1>2, InLine
<1> QED BY <1>3, <1>4, <1>5 DEF Rank

LEMMA PartPlaces ==
  ASSUME NEW p, NEW kind, NEW name, IsObject(p, kind, name)
  PROVE  LET l == Len(Parts(kind, p))
             Size(k) == PartSize(p, kind, name, Parts(kind, p)[k + 1])
         IN  /\ \A k \in 0 .. (l - 1) :
                  SizeOfParts(p, kind, name, k) + Size(k) <= SizeOfObject(p, kind, name)
             /\ \A k, m \in 0 .. (l - 1) : k < m =>
                  SizeOfParts(p, kind, name, k) + Size(k) <= SizeOfParts(p, kind, name, m)
             /\ \A x \in Nat : x < SizeOfObject(p, kind, name) =>
                  \E k \in 0 .. (l - 1) :
                    SizeOfParts(p, kind, name, k) <= x /\ x < SizeOfParts(p, kind, name, k) + Size(k)
<1> DEFINE l == Len(Parts(kind, p))
           Size(k) == PartSize(p, kind, name, Parts(kind, p)[k + 1])
           g == [k \in 0 .. l |-> SizeOfParts(p, kind, name, k)]
           e == [k \in 0 .. (l - 1) |-> Size(k)]
<1>1. l \in Nat BY PartsAre DEF IsObject
<1>2. Line(l, g, e) BY PartsInLine DEF PartLine
<1>3. g[l] = SizeOfObject(p, kind, name) BY <1>1 DEF SizeOfObject
<1>4. \A k \in 0 .. (l - 1) : g[k] = SizeOfParts(p, kind, name, k) /\ e[k] = Size(k)
  BY <1>1
<1> HIDE DEF g, e, l, Size
<1>5. /\ \A a \in 0 .. (l - 1) : g[a] + e[a] <= g[l]
      /\ \A a, b \in 0 .. (l - 1) : a < b => g[a] + e[a] <= g[b]
      /\ \A x \in Nat : x < g[l] => \E k \in 0 .. (l - 1) : g[k] <= x /\ x < g[k] + e[k]
  BY <1>2, InLine
<1>6. /\ \A k \in 0 .. (l - 1) : SizeOfParts(p, kind, name, k) + Size(k) <= SizeOfObject(p, kind, name)
      /\ \A k, m \in 0 .. (l - 1) : k < m =>
           SizeOfParts(p, kind, name, k) + Size(k) <= SizeOfParts(p, kind, name, m)
      /\ \A x \in Nat : x < SizeOfObject(p, kind, name) =>
           \E k \in 0 .. (l - 1) :
             SizeOfParts(p, kind, name, k) <= x /\ x < SizeOfParts(p, kind, name, k) + Size(k)
  BY <1>3, <1>4, <1>5
<1> QED BY <1>6 DEF l, Size

LEMMA ObjectPlaces ==
  ASSUME program \in Programs, NEW p \in Jobs, NEW kind \in Kinds
  PROVE  LET l == Len(Objects(kind))
             Size(k) == SizeOfObject(p, kind, Objects(kind)[k + 1])
         IN  /\ \A k \in 0 .. (l - 1) :
                  SizeOfObjects(p, kind, k) + Size(k) <= SizeOfKind(p, kind)
             /\ \A k, m \in 0 .. (l - 1) : k < m =>
                  SizeOfObjects(p, kind, k) + Size(k) <= SizeOfObjects(p, kind, m)
             /\ \A x \in Nat : x < SizeOfKind(p, kind) =>
                  \E k \in 0 .. (l - 1) :
                    SizeOfObjects(p, kind, k) <= x /\ x < SizeOfObjects(p, kind, k) + Size(k)
<1> DEFINE l == Len(Objects(kind))
           Size(k) == SizeOfObject(p, kind, Objects(kind)[k + 1])
           g == [k \in 0 .. l |-> SizeOfObjects(p, kind, k)]
           e == [k \in 0 .. (l - 1) |-> Size(k)]
<1>1. l \in Nat BY ObjectsAre
<1>2. Line(l, g, e) BY ObjectsInLine DEF ObjectLine
<1>3. g[l] = SizeOfKind(p, kind) BY <1>1 DEF SizeOfKind
<1>4. \A k \in 0 .. (l - 1) : g[k] = SizeOfObjects(p, kind, k) /\ e[k] = Size(k)
  BY <1>1
<1> HIDE DEF g, e, l, Size
<1>5. /\ \A a \in 0 .. (l - 1) : g[a] + e[a] <= g[l]
      /\ \A a, b \in 0 .. (l - 1) : a < b => g[a] + e[a] <= g[b]
      /\ \A x \in Nat : x < g[l] => \E k \in 0 .. (l - 1) : g[k] <= x /\ x < g[k] + e[k]
  BY <1>2, InLine
<1>6. /\ \A k \in 0 .. (l - 1) : SizeOfObjects(p, kind, k) + Size(k) <= SizeOfKind(p, kind)
      /\ \A k, m \in 0 .. (l - 1) : k < m =>
           SizeOfObjects(p, kind, k) + Size(k) <= SizeOfObjects(p, kind, m)
      /\ \A x \in Nat : x < SizeOfKind(p, kind) =>
           \E k \in 0 .. (l - 1) :
             SizeOfObjects(p, kind, k) <= x /\ x < SizeOfObjects(p, kind, k) + Size(k)
  BY <1>3, <1>4, <1>5
<1> QED BY <1>6 DEF l, Size

(* Where the sections begin, and where the last one ends.                  *)
SectionStart(p, id, s) ==
  CASE s = 0 -> 0
    [] s = 1 -> Offset("mesh", p, id)
    [] s = 2 -> Offset("function", p, id)
    [] s = 3 -> Offset("vector", p, id)
    [] s = 4 -> Offset("vector", p, id) + SizeOfKind(p, "vector")

LEMMA SectionsInFile ==
  ASSUME program \in Programs, NEW p \in Jobs, NEW id \in Ids
  PROVE  /\ SectionStart(p, id, 1) = SizeOf.checkpoint + SizeOf.uint + ParamSize[id]
         /\ SizeOf.checkpoint \in Nat /\ SizeOf.checkpoint > 0
         /\ SizeOf.uint \in Nat /\ SizeOf.uint > 0
         /\ ParamSize[id] \in Nat /\ ParamSize[id] > 0
         /\ \A s \in 1 .. 4 : SectionStart(p, id, s) \in Nat
         /\ \A s \in 1 .. 3 :
              /\ Sections[s] \in Kinds
              /\ SectionStart(p, id, s) = Offset(Sections[s], p, id)
              /\ SectionStart(p, id, s + 1) = SectionStart(p, id, s) + SizeOfKind(p, Sections[s])
<1>1. \A kind \in Kinds : SizeOfKind(p, kind) \in Nat BY ObjectsInKind
<1>2. /\ SizeOf.checkpoint \in Nat /\ SizeOf.checkpoint > 0
      /\ SizeOf.uint \in Nat /\ SizeOf.uint > 0
  BY CheckpointAssumption DEF Sized
<1>3. ParamSize[id] \in Nat /\ ParamSize[id] > 0
  BY CheckpointAssumption DEF ProgramOK, Ids
<1>4. /\ SizeOfKind(p, "mesh") \in Nat /\ SizeOfKind(p, "function") \in Nat
      /\ SizeOfKind(p, "vector") \in Nat
  BY <1>1 DEF Kinds
<1>5. Sections[1] = "mesh" /\ Sections[2] = "function" /\ Sections[3] = "vector" BY DEF Sections
<1>6. SectionStart(p, id, 1) = SizeOf.checkpoint + SizeOf.uint + ParamSize[id]
  BY <1>2, <1>3 DEF SectionStart, Offset
<1>7. SectionStart(p, id, 1) = Offset("mesh", p, id) BY DEF SectionStart
<1>8. SectionStart(p, id, 2) = Offset("function", p, id) BY DEF SectionStart
<1>9. SectionStart(p, id, 3) = Offset("vector", p, id) BY DEF SectionStart
<1>10. SectionStart(p, id, 4) = SectionStart(p, id, 3) + SizeOfKind(p, "vector")
  BY DEF SectionStart
<1>11. SectionStart(p, id, 2) = SectionStart(p, id, 1) + SizeOfKind(p, "mesh")
  BY <1>7, <1>8 DEF Offset, SizeOfMeshes
<1>12. SectionStart(p, id, 3) = SectionStart(p, id, 2) + SizeOfKind(p, "function")
  BY <1>8, <1>9 DEF Offset, SizeOfMeshes
<1> HIDE DEF SectionStart
<1>13. \A s \in 1 .. 4 : SectionStart(p, id, s) \in Nat
  <2>1. SectionStart(p, id, 1) \in Nat BY <1>2, <1>3, <1>6
  <2>2. SectionStart(p, id, 2) \in Nat BY <1>4, <1>11, <2>1
  <2>3. SectionStart(p, id, 3) \in Nat BY <1>4, <1>12, <2>2
  <2>4. SectionStart(p, id, 4) \in Nat BY <1>4, <1>10, <2>3
  <2> QED BY <2>1, <2>2, <2>3, <2>4
<1>14. \A s \in 1 .. 3 : s = 1 \/ s = 2 \/ s = 3 OBVIOUS
<1>15. ASSUME NEW s \in 1 .. 3
       PROVE  /\ Sections[s] \in Kinds
              /\ SectionStart(p, id, s) = Offset(Sections[s], p, id)
              /\ SectionStart(p, id, s + 1) = SectionStart(p, id, s) + SizeOfKind(p, Sections[s])
  <2>1. CASE s = 1 BY <1>5, <1>7, <1>11, <2>1 DEF Kinds
  <2>2. CASE s = 2 BY <1>5, <1>8, <1>12, <2>2 DEF Kinds
  <2>3. CASE s = 3 BY <1>5, <1>9, <1>10, <2>3 DEF Kinds
  <2> QED BY <1>14, <2>1, <2>2, <2>3
<1> QED BY <1>2, <1>3, <1>6, <1>13, <1>15

------------------------------------------------------------------------------
(* Pieces *)

(* The j-th object of section s, and its i-th part.                        *)
NameAt(s, j) == Objects(Sections[s])[j]
PartAt(p, s, i) == Parts(Sections[s], p)[i]

IsPiece(p, s, j, i) ==
  /\ s \in 1 .. 3 /\ j \in 1 .. Len(Objects(Sections[s])) /\ i \in 1 .. Len(Parts(Sections[s], p))

(* Where byte_offset stands before the i-th part of the j-th object.       *)
Start(p, id, s, j, i) ==
  SectionStart(p, id, s) + SizeOfObjects(p, Sections[s], j - 1)
    + SizeOfParts(p, Sections[s], NameAt(s, j), i - 1)

PieceAt(p, s, j, i, r) == At(p, Sections[s], NameAt(s, j), PartAt(p, s, i), r)
PieceStart(p, id, s, j, i, r) == Start(p, id, s, j, i) + PieceAt(p, s, j, i, r)
PieceLength(p, s, j, i, r) == Length(p, Sections[s], NameAt(s, j), PartAt(p, s, i), r)
PieceEnd(p, id, s, j, i, r) == PieceStart(p, id, s, j, i, r) + PieceLength(p, s, j, i, r)

(* What is written there at time t.                                        *)
Piece(p, s, j, i, r, t) == PartOf(p, Sections[s], NameAt(s, j), PartAt(p, s, i), r, t)

LEMMA PieceIs ==
  ASSUME program \in Programs, NEW p \in Jobs, NEW s, NEW j, NEW i, IsPiece(p, s, j, i)
  PROVE  /\ Sections[s] \in Kinds
         /\ IsObject(p, Sections[s], NameAt(s, j))
         /\ IsPart(p, Sections[s], PartAt(p, s, i))
         /\ Len(Objects(Sections[s])) \in Nat /\ Len(Parts(Sections[s], p)) \in Nat
         /\ p \in Nat /\ p > 0
<1>1. Sections[s] \in Kinds
  <2>1. s = 1 \/ s = 2 \/ s = 3 BY DEF IsPiece
  <2> QED BY <2>1 DEF Sections, Kinds
<1>2. NameAt(s, j) \in Names(Sections[s]) /\ Len(Objects(Sections[s])) \in Nat
  BY <1>1, ObjectsAre DEF IsPiece, NameAt
<1>3. Len(Parts(Sections[s], p)) \in Nat BY <1>1, PartsAre
<1>4. p \in Nat /\ p > 0 BY CheckpointAssumption
<1> QED BY <1>1, <1>2, <1>3, <1>4 DEF IsPiece, IsObject, IsPart, PartAt

(* A piece lies in its part, the part in its object, the object in its     *)
(* section.                                                                *)
LEMMA Nested ==
  ASSUME program \in Programs, NEW p \in Jobs, NEW id \in Ids,
         NEW s, NEW j, NEW i, IsPiece(p, s, j, i), NEW r \in Rank(p)
  PROVE  LET kind == Sections[s]
             name == NameAt(s, j)
         IN  /\ PieceAt(p, s, j, i, r) \in Nat /\ PieceLength(p, s, j, i, r) \in Nat
             /\ PieceAt(p, s, j, i, r) + PieceLength(p, s, j, i, r)
                  <= PartSize(p, kind, name, PartAt(p, s, i))
             /\ SizeOfParts(p, kind, name, i - 1) \in Nat
             /\ PartSize(p, kind, name, PartAt(p, s, i)) \in Nat
             /\ SizeOfParts(p, kind, name, i - 1) + PartSize(p, kind, name, PartAt(p, s, i))
                  = SizeOfParts(p, kind, name, i)
             /\ SizeOfParts(p, kind, name, i) <= SizeOfObject(p, kind, name)
             /\ SizeOfObject(p, kind, name) \in Nat
             /\ SizeOfObjects(p, kind, j - 1) \in Nat
             /\ SizeOfObjects(p, kind, j - 1) + SizeOfObject(p, kind, name)
                  = SizeOfObjects(p, kind, j)
             /\ SizeOfObjects(p, kind, j) <= SizeOfKind(p, kind)
             /\ SectionStart(p, id, s) \in Nat
             /\ SectionStart(p, id, s) + SizeOfKind(p, kind) = SectionStart(p, id, s + 1)
<1> DEFINE kind == Sections[s]
           name == NameAt(s, j)
           part == PartAt(p, s, i)
<1>1. /\ kind \in Kinds /\ IsObject(p, kind, name) /\ IsPart(p, kind, part)
      /\ p \in Nat /\ p > 0
      /\ Len(Objects(kind)) \in Nat /\ Len(Parts(kind, p)) \in Nat
  BY PieceIs
<1>2. /\ PieceAt(p, s, j, i, r) = At(p, kind, name, part, r)
      /\ PieceLength(p, s, j, i, r) = Length(p, kind, name, part, r)
  BY DEF PieceAt, PieceLength
<1>3. part = Parts(kind, p)[(i - 1) + 1] /\ i - 1 \in 0 .. (Len(Parts(kind, p)) - 1)
  BY <1>1 DEF PartAt, IsPiece
<1>4. name = Objects(kind)[(j - 1) + 1] /\ j - 1 \in 0 .. (Len(Objects(kind)) - 1)
  BY <1>1 DEF NameAt, IsPiece
<1>5. s \in 1 .. 3 BY DEF IsPiece
<1>6. i \in 1 .. Len(Parts(kind, p)) /\ j \in 1 .. Len(Objects(kind)) BY DEF IsPiece
<1> HIDE DEF kind, name, part
<1>7. /\ At(p, kind, name, part, r) \in Nat /\ Length(p, kind, name, part, r) \in Nat
      /\ At(p, kind, name, part, r) + Length(p, kind, name, part, r) <= PartSize(p, kind, name, part)
  <2>1. r \in 0 .. p BY <1>1 DEF Rank
  <2> QED BY <1>1, <2>1, RanksInPart, RankPlaces
<1>8. /\ SizeOfParts(p, kind, name, i - 1) \in Nat /\ PartSize(p, kind, name, part) \in Nat
      /\ SizeOfParts(p, kind, name, i) = SizeOfParts(p, kind, name, i - 1) + PartSize(p, kind, name, part)
      /\ SizeOfParts(p, kind, name, i) <= SizeOfObject(p, kind, name)
      /\ SizeOfObject(p, kind, name) \in Nat
  <2>1. /\ i - 1 \in 0 .. Len(Parts(kind, p)) /\ (i - 1) + 1 = i
        /\ Len(Parts(kind, p)) \in 0 .. Len(Parts(kind, p))
    BY <1>1, <1>6
  <2>2. /\ SizeOfParts(p, kind, name, i - 1) \in Nat
        /\ PartSize(p, kind, name, Parts(kind, p)[(i - 1) + 1]) \in Nat
        /\ SizeOfParts(p, kind, name, (i - 1) + 1) = SizeOfParts(p, kind, name, i - 1)
             + PartSize(p, kind, name, Parts(kind, p)[(i - 1) + 1])
    BY <1>1, <1>3, <2>1, PartsInObject
  <2>3. SizeOfParts(p, kind, name, i - 1) + PartSize(p, kind, name, Parts(kind, p)[(i - 1) + 1])
          <= SizeOfObject(p, kind, name)
    BY <1>1, <1>3, PartPlaces
  <2>4. SizeOfObject(p, kind, name) \in Nat BY <1>1, <2>1, PartsInObject DEF SizeOfObject
  <2> QED BY <1>3, <2>1, <2>2, <2>3, <2>4
<1>9. /\ SizeOfObjects(p, kind, j - 1) \in Nat
      /\ SizeOfObjects(p, kind, j) = SizeOfObjects(p, kind, j - 1) + SizeOfObject(p, kind, name)
      /\ SizeOfObjects(p, kind, j) <= SizeOfKind(p, kind)
  <2>1. j - 1 \in 0 .. Len(Objects(kind)) /\ (j - 1) + 1 = j BY <1>1, <1>6
  <2>2. /\ SizeOfObjects(p, kind, j - 1) \in Nat
        /\ SizeOfObjects(p, kind, (j - 1) + 1) = SizeOfObjects(p, kind, j - 1)
             + SizeOfObject(p, kind, Objects(kind)[(j - 1) + 1])
    BY <1>1, <1>4, <2>1, ObjectsInKind
  <2>3. SizeOfObjects(p, kind, j - 1) + SizeOfObject(p, kind, Objects(kind)[(j - 1) + 1])
          <= SizeOfKind(p, kind)
    BY <1>1, <1>4, ObjectPlaces
  <2> QED BY <1>4, <2>1, <2>2, <2>3
<1>10. /\ SectionStart(p, id, s) \in Nat
       /\ SectionStart(p, id, s + 1) = SectionStart(p, id, s) + SizeOfKind(p, kind)
  BY <1>5, SectionsInFile DEF kind
<1> QED BY <1>2, <1>7, <1>8, <1>9, <1>10 DEF kind, name, part

(* The order in which a rank writes.                                       *)
Precedes(s, j, i, s2, j2, i2) ==
  s < s2 \/ (s = s2 /\ (j < j2 \/ (j = j2 /\ i < i2)))

(* Behind the front, and before the end of the file.                       *)
LEMMA Within ==
  ASSUME program \in Programs, NEW p \in Jobs, NEW id \in Ids,
         NEW s, NEW j, NEW i, IsPiece(p, s, j, i), NEW r \in Rank(p)
  PROVE  /\ Start(p, id, s, j, i) \in Nat /\ PieceStart(p, id, s, j, i, r) \in Nat
         /\ PieceEnd(p, id, s, j, i, r) \in Nat
         /\ SectionStart(p, id, s) <= Start(p, id, s, j, i)
         /\ Start(p, id, s, j, i) <= PieceStart(p, id, s, j, i, r)
         /\ PieceStart(p, id, s, j, i, r) <= PieceEnd(p, id, s, j, i, r)
         /\ PieceEnd(p, id, s, j, i, r)
              <= Start(p, id, s, j, i) + PartSize(p, Sections[s], NameAt(s, j), PartAt(p, s, i))
         /\ PieceEnd(p, id, s, j, i, r) <= SectionStart(p, id, s + 1)
<1> DEFINE kind == Sections[s]
           name == NameAt(s, j)
           a == SectionStart(p, id, s)
           o == SizeOfObjects(p, kind, j - 1)
           q == SizeOfParts(p, kind, name, i - 1)
           size == PartSize(p, kind, name, PartAt(p, s, i))
           from == PieceAt(p, s, j, i, r)
           length == PieceLength(p, s, j, i, r)
<1>1. /\ from \in Nat /\ length \in Nat /\ from + length <= size
      /\ q \in Nat /\ size \in Nat /\ q + size <= SizeOfObject(p, kind, name)
      /\ SizeOfObject(p, kind, name) \in Nat
      /\ o \in Nat /\ o + SizeOfObject(p, kind, name) <= SizeOfKind(p, kind)
      /\ a \in Nat /\ a + SizeOfKind(p, kind) = SectionStart(p, id, s + 1)
  BY Nested
<1>2. SizeOfKind(p, kind) \in Nat BY PieceIs, ObjectsInKind
<1>3. /\ Start(p, id, s, j, i) = a + o + q
      /\ PieceStart(p, id, s, j, i, r) = a + o + q + from
      /\ PieceEnd(p, id, s, j, i, r) = a + o + q + from + length
  BY DEF Start, PieceStart, PieceEnd
<1> HIDE DEF a, o, q, size, from, length, kind, name
<1>4. /\ Start(p, id, s, j, i) \in Nat /\ PieceStart(p, id, s, j, i, r) \in Nat
      /\ PieceEnd(p, id, s, j, i, r) \in Nat
      /\ a <= Start(p, id, s, j, i)
      /\ Start(p, id, s, j, i) <= PieceStart(p, id, s, j, i, r)
      /\ PieceStart(p, id, s, j, i, r) <= PieceEnd(p, id, s, j, i, r)
      /\ PieceEnd(p, id, s, j, i, r) <= Start(p, id, s, j, i) + size
      /\ PieceEnd(p, id, s, j, i, r) <= SectionStart(p, id, s + 1)
  BY <1>1, <1>2, <1>3
<1> QED BY <1>4 DEF a, size, kind, name

LEMMA SectionsAscend ==
  ASSUME program \in Programs, NEW p \in Jobs, NEW id \in Ids
  PROVE  \A s, t \in 1 .. 4 : s <= t => SectionStart(p, id, s) <= SectionStart(p, id, t)
<1>1. \A s \in 1 .. 4 : SectionStart(p, id, s) \in Nat BY SectionsInFile
<1>2. ASSUME NEW s \in 1 .. 3 PROVE SectionStart(p, id, s) <= SectionStart(p, id, s + 1)
  <2>1. /\ Sections[s] \in Kinds /\ s \in 1 .. 4
        /\ SectionStart(p, id, s + 1) = SectionStart(p, id, s) + SizeOfKind(p, Sections[s])
    BY SectionsInFile
  <2>2. SizeOfKind(p, Sections[s]) \in Nat BY <2>1, ObjectsInKind
  <2> QED BY <1>1, <2>1, <2>2
<1>3. /\ SectionStart(p, id, 1) <= SectionStart(p, id, 2)
      /\ SectionStart(p, id, 2) <= SectionStart(p, id, 3)
      /\ SectionStart(p, id, 3) <= SectionStart(p, id, 4)
  <2>1. SectionStart(p, id, 1) <= SectionStart(p, id, 1 + 1) BY <1>2
  <2>2. SectionStart(p, id, 2) <= SectionStart(p, id, 2 + 1) BY <1>2
  <2>3. SectionStart(p, id, 3) <= SectionStart(p, id, 3 + 1) BY <1>2
  <2> QED BY <2>1, <2>2, <2>3
<1> HIDE DEF SectionStart
<1> QED BY <1>1, <1>3

(* What is written earlier stands before what is written later.            *)
LEMMA InOrder ==
  ASSUME program \in Programs, NEW p \in Jobs, NEW id \in Ids,
         NEW s, NEW j, NEW i, IsPiece(p, s, j, i), NEW r \in Rank(p),
         NEW s2, NEW j2, NEW i2, IsPiece(p, s2, j2, i2), NEW q \in Rank(p),
         Precedes(s, j, i, s2, j2, i2)
  PROVE  PieceEnd(p, id, s, j, i, r) <= PieceStart(p, id, s2, j2, i2, q)
<1>1. /\ Start(p, id, s2, j2, i2) \in Nat /\ PieceStart(p, id, s2, j2, i2, q) \in Nat
      /\ Start(p, id, s2, j2, i2) <= PieceStart(p, id, s2, j2, i2, q)
      /\ SectionStart(p, id, s2) <= Start(p, id, s2, j2, i2)
  BY Within
<1>2. /\ PieceEnd(p, id, s, j, i, r) \in Nat
      /\ PieceEnd(p, id, s, j, i, r)
           <= Start(p, id, s, j, i) + PartSize(p, Sections[s], NameAt(s, j), PartAt(p, s, i))
      /\ PieceEnd(p, id, s, j, i, r) <= SectionStart(p, id, s + 1)
      /\ Start(p, id, s, j, i) \in Nat
  BY Within
<1>3. s \in 1 .. 3 /\ s2 \in 1 .. 3 BY DEF IsPiece
<1>4. CASE s < s2
  <2>1. SectionStart(p, id, s + 1) <= SectionStart(p, id, s2) BY <1>3, <1>4, SectionsAscend
  <2>2. SectionStart(p, id, s + 1) \in Nat /\ SectionStart(p, id, s2) \in Nat
    BY <1>3, SectionsInFile
  <2> QED BY <1>1, <1>2, <2>1, <2>2
<1>5. CASE s = s2 /\ j < j2
  <2>6. Sections[s] \in Kinds /\ Len(Objects(Sections[s])) \in Nat BY PieceIs
  <2>1. /\ Sections[s] \in Kinds /\ j - 1 \in 0 .. (Len(Objects(Sections[s])) - 1)
        /\ j2 - 1 \in 0 .. (Len(Objects(Sections[s])) - 1) /\ j - 1 < j2 - 1
        /\ (j - 1) + 1 = j
    BY <1>5, <2>6 DEF IsPiece
  <2>2. SizeOfObjects(p, Sections[s], j - 1) + SizeOfObject(p, Sections[s], NameAt(s, j))
          <= SizeOfObjects(p, Sections[s], j2 - 1)
    BY <2>1, ObjectPlaces DEF NameAt
  <2>3. Start(p, id, s, j, i) + PartSize(p, Sections[s], NameAt(s, j), PartAt(p, s, i))
          <= SectionStart(p, id, s) + SizeOfObjects(p, Sections[s], j - 1)
               + SizeOfObject(p, Sections[s], NameAt(s, j))
    BY Nested DEF Start
  <2>4. /\ SizeOfParts(p, Sections[s2], NameAt(s2, j2), i2 - 1) \in Nat
        /\ SizeOfObjects(p, Sections[s2], j2 - 1) \in Nat
        /\ SectionStart(p, id, s2) \in Nat
        /\ SizeOfObjects(p, Sections[s], j - 1) \in Nat
        /\ SizeOfObject(p, Sections[s], NameAt(s, j)) \in Nat
        /\ PartSize(p, Sections[s], NameAt(s, j), PartAt(p, s, i)) \in Nat
    BY Nested
  <2>5. SectionStart(p, id, s2) + SizeOfObjects(p, Sections[s2], j2 - 1) <= Start(p, id, s2, j2, i2)
    BY <2>4 DEF Start
  <2> QED BY <1>1, <1>2, <1>5, <2>2, <2>3, <2>4, <2>5
<1>6. CASE s = s2 /\ j = j2 /\ i < i2
  <2>5. IsObject(p, Sections[s], NameAt(s, j)) /\ Len(Parts(Sections[s], p)) \in Nat BY PieceIs
  <2>1. /\ IsObject(p, Sections[s], NameAt(s, j)) /\ i - 1 \in 0 .. (Len(Parts(Sections[s], p)) - 1)
        /\ i2 - 1 \in 0 .. (Len(Parts(Sections[s], p)) - 1) /\ i - 1 < i2 - 1
        /\ (i - 1) + 1 = i
    BY <1>6, <2>5 DEF IsPiece
  <2>2. SizeOfParts(p, Sections[s], NameAt(s, j), i - 1)
          + PartSize(p, Sections[s], NameAt(s, j), PartAt(p, s, i))
          <= SizeOfParts(p, Sections[s], NameAt(s, j), i2 - 1)
    BY <2>1, PartPlaces DEF PartAt
  <2>3. /\ SizeOfParts(p, Sections[s2], NameAt(s2, j2), i2 - 1) \in Nat
        /\ SizeOfParts(p, Sections[s], NameAt(s, j), i - 1) \in Nat
        /\ SizeOfObjects(p, Sections[s], j - 1) \in Nat
        /\ SectionStart(p, id, s) \in Nat
        /\ PartSize(p, Sections[s], NameAt(s, j), PartAt(p, s, i)) \in Nat
    BY Nested
  <2>4. Start(p, id, s, j, i) + PartSize(p, Sections[s], NameAt(s, j), PartAt(p, s, i))
          <= Start(p, id, s2, j2, i2)
    BY <1>6, <2>2, <2>3 DEF Start
  <2> QED BY <1>1, <1>2, <2>3, <2>4
<1> QED BY <1>4, <1>5, <1>6 DEF Precedes

(* No two pieces overlap, whoever writes them.                             *)
LEMMA Apart ==
  ASSUME program \in Programs, NEW p \in Jobs, NEW id \in Ids,
         NEW s, NEW j, NEW i, IsPiece(p, s, j, i), NEW r \in Rank(p),
         NEW s2, NEW j2, NEW i2, IsPiece(p, s2, j2, i2), NEW q \in Rank(p),
         ~ (s = s2 /\ j = j2 /\ i = i2 /\ r = q)
  PROVE  \/ PieceEnd(p, id, s, j, i, r) <= PieceStart(p, id, s2, j2, i2, q)
         \/ PieceEnd(p, id, s2, j2, i2, q) <= PieceStart(p, id, s, j, i, r)
<1>1. CASE Precedes(s, j, i, s2, j2, i2) BY <1>1, InOrder
<1>2. CASE Precedes(s2, j2, i2, s, j, i) BY <1>2, InOrder
<1>3. /\ s \in Int /\ s2 \in Int /\ j \in Int /\ j2 \in Int /\ i \in Int /\ i2 \in Int
  <2>1. /\ Len(Objects(Sections[s])) \in Nat /\ Len(Parts(Sections[s], p)) \in Nat
        /\ Len(Objects(Sections[s2])) \in Nat /\ Len(Parts(Sections[s2], p)) \in Nat
    BY PieceIs
  <2> QED BY <2>1 DEF IsPiece
<1>4. CASE s = s2 /\ j = j2 /\ i = i2
  <2>1. r # q /\ r \in Int /\ q \in Int BY <1>4, PieceIs DEF Rank
  <2>2. IsObject(p, Sections[s], NameAt(s, j)) /\ IsPart(p, Sections[s], PartAt(p, s, i)) BY PieceIs
  <2>3. Start(p, id, s, j, i) \in Nat BY Within
  <2>4. /\ PieceAt(p, s, j, i, r) \in Nat /\ PieceLength(p, s, j, i, r) \in Nat
        /\ PieceAt(p, s, j, i, q) \in Nat /\ PieceLength(p, s, j, i, q) \in Nat
    BY Nested
  <2>5. CASE r < q
    <3>1. PieceAt(p, s, j, i, r) + PieceLength(p, s, j, i, r) <= PieceAt(p, s, j, i, q)
      BY <2>2, <2>5, RankPlaces DEF PieceAt, PieceLength
    <3> QED BY <1>4, <2>3, <2>4, <3>1 DEF PieceEnd, PieceStart
  <2>6. CASE q < r
    <3>1. PieceAt(p, s, j, i, q) + PieceLength(p, s, j, i, q) <= PieceAt(p, s, j, i, r)
      BY <2>2, <2>6, RankPlaces DEF PieceAt, PieceLength
    <3> QED BY <1>4, <2>3, <2>4, <3>1 DEF PieceEnd, PieceStart
  <2> QED BY <2>1, <2>5, <2>6
<1> QED BY <1>1, <1>2, <1>3, <1>4 DEF Precedes

(* Every byte behind the front belongs to a piece.                         *)
LEMMA Covered ==
  ASSUME program \in Programs, NEW p \in Jobs, NEW id \in Ids,
         NEW b \in Nat, SectionStart(p, id, 1) <= b, b < SectionStart(p, id, 4)
  PROVE  \E s, j, i : \E r \in Rank(p) :
           /\ IsPiece(p, s, j, i)
           /\ PieceStart(p, id, s, j, i, r) <= b /\ b < PieceEnd(p, id, s, j, i, r)
<1>1. PICK s \in 1 .. 3 : SectionStart(p, id, s) <= b /\ b < SectionStart(p, id, s + 1)
  <2>1. /\ SectionStart(p, id, 1) \in Nat /\ SectionStart(p, id, 2) \in Nat
        /\ SectionStart(p, id, 3) \in Nat /\ SectionStart(p, id, 4) \in Nat
    BY SectionsInFile
  <2>2. CASE b < SectionStart(p, id, 2)
    <3>1. SectionStart(p, id, 1) <= b /\ b < SectionStart(p, id, 1 + 1) BY <2>2
    <3> QED BY <3>1
  <2>3. CASE SectionStart(p, id, 2) <= b /\ b < SectionStart(p, id, 3)
    <3>1. SectionStart(p, id, 2) <= b /\ b < SectionStart(p, id, 2 + 1) BY <2>3
    <3> QED BY <3>1
  <2>4. CASE SectionStart(p, id, 3) <= b
    <3>1. SectionStart(p, id, 3) <= b /\ b < SectionStart(p, id, 3 + 1) BY <2>4
    <3> QED BY <3>1
  <2> QED BY <2>1, <2>2, <2>3, <2>4
<1> DEFINE kind == Sections[s]
           x1 == b - SectionStart(p, id, s)
<1>2. /\ kind \in Kinds /\ SectionStart(p, id, s) \in Nat
      /\ SectionStart(p, id, s + 1) = SectionStart(p, id, s) + SizeOfKind(p, kind)
  BY SectionsInFile
<1>3. SizeOfKind(p, kind) \in Nat BY <1>2, ObjectsInKind
<1>4. x1 \in Nat /\ x1 < SizeOfKind(p, kind) BY <1>1, <1>2, <1>3
<1> HIDE DEF x1
<1>5. PICK k \in 0 .. (Len(Objects(kind)) - 1) :
        /\ SizeOfObjects(p, kind, k) <= x1
        /\ x1 < SizeOfObjects(p, kind, k) + SizeOfObject(p, kind, Objects(kind)[k + 1])
  <2>1. \A x \in Nat : x < SizeOfKind(p, kind) =>
          \E k \in 0 .. (Len(Objects(kind)) - 1) :
            /\ SizeOfObjects(p, kind, k) <= x
            /\ x < SizeOfObjects(p, kind, k) + SizeOfObject(p, kind, Objects(kind)[k + 1])
    BY <1>2, ObjectPlaces
  <2> QED BY <1>4, <2>1
<1> DEFINE j == k + 1
           name == NameAt(s, j)
           x2 == x1 - SizeOfObjects(p, kind, k)
<1>6. /\ Len(Objects(kind)) \in Nat /\ j \in 1 .. Len(Objects(kind)) /\ k = j - 1
      /\ IsObject(p, kind, name) /\ SizeOfObjects(p, kind, k) \in Nat
      /\ SizeOfObject(p, kind, name) \in Nat
  <2>1. Len(Objects(kind)) \in Nat BY <1>2, ObjectsAre
  <2>2. j \in 1 .. Len(Objects(kind)) /\ k = j - 1 /\ k \in 0 .. Len(Objects(kind)) BY <2>1
  <2>3. name \in Names(kind) BY <1>2, <2>2, ObjectsAre DEF NameAt
  <2>4. SizeOfObjects(p, kind, k) \in Nat BY <1>2, <2>2, ObjectsInKind
  <2>5. SizeOfObject(p, kind, name) \in Nat BY <1>2, ObjectsInKind DEF NameAt
  <2> QED BY <1>2, <2>1, <2>2, <2>3, <2>4, <2>5 DEF IsObject
<1>7. x2 \in Nat /\ x2 < SizeOfObject(p, kind, name) BY <1>4, <1>5, <1>6 DEF NameAt
<1> HIDE DEF x2, j
<1>8. PICK m \in 0 .. (Len(Parts(kind, p)) - 1) :
        /\ SizeOfParts(p, kind, name, m) <= x2
        /\ x2 < SizeOfParts(p, kind, name, m) + PartSize(p, kind, name, Parts(kind, p)[m + 1])
  <2>1. \A x \in Nat : x < SizeOfObject(p, kind, name) =>
          \E m \in 0 .. (Len(Parts(kind, p)) - 1) :
            /\ SizeOfParts(p, kind, name, m) <= x
            /\ x < SizeOfParts(p, kind, name, m) + PartSize(p, kind, name, Parts(kind, p)[m + 1])
    BY <1>6, PartPlaces
  <2> QED BY <1>7, <2>1
<1> DEFINE i == m + 1
           part == PartAt(p, s, i)
           x3 == x2 - SizeOfParts(p, kind, name, m)
<1>9. /\ Len(Parts(kind, p)) \in Nat /\ i \in 1 .. Len(Parts(kind, p)) /\ m = i - 1
      /\ IsPart(p, kind, part) /\ SizeOfParts(p, kind, name, m) \in Nat
      /\ PartSize(p, kind, name, part) \in Nat
  <2>1. Len(Parts(kind, p)) \in Nat BY <1>2, PartsAre
  <2>2. i \in 1 .. Len(Parts(kind, p)) /\ m = i - 1 /\ m \in 0 .. Len(Parts(kind, p)) BY <2>1
  <2>3. IsPart(p, kind, part) BY <2>2 DEF IsPart, PartAt
  <2>4. SizeOfParts(p, kind, name, m) \in Nat BY <1>6, <2>2, PartsInObject
  <2>5. PartSize(p, kind, name, part) \in Nat BY <1>6, PartsInObject DEF PartAt
  <2> QED BY <2>1, <2>2, <2>3, <2>4, <2>5
<1>10. x3 \in Nat /\ x3 < PartSize(p, kind, name, part) BY <1>7, <1>8, <1>9 DEF PartAt
<1> HIDE DEF x3, i, name, part
<1>11. PICK r \in Rank(p) :
         /\ At(p, kind, name, part, r) <= x3
         /\ x3 < At(p, kind, name, part, r) + Length(p, kind, name, part, r)
  <2>1. \A x \in Nat : x < PartSize(p, kind, name, part) =>
          \E r \in Rank(p) :
            /\ At(p, kind, name, part, r) <= x
            /\ x < At(p, kind, name, part, r) + Length(p, kind, name, part, r)
    BY <1>6, <1>9, RankPlaces
  <2> QED BY <1>10, <2>1
<1>12. IsPiece(p, s, j, i) BY <1>6, <1>9 DEF IsPiece, kind
<1>13. /\ PieceAt(p, s, j, i, r) = At(p, kind, name, part, r)
       /\ PieceLength(p, s, j, i, r) = Length(p, kind, name, part, r)
  BY DEF PieceAt, PieceLength, name, part
<1>14. PieceAt(p, s, j, i, r) \in Nat /\ PieceLength(p, s, j, i, r) \in Nat BY <1>12, Nested
<1>15. Start(p, id, s, j, i) = SectionStart(p, id, s) + SizeOfObjects(p, kind, k)
         + SizeOfParts(p, kind, name, m)
  BY <1>6, <1>9 DEF Start, name
<1>16. b = Start(p, id, s, j, i) + x3
  <2>1. b = SectionStart(p, id, s) + x1 BY <1>2 DEF x1
  <2>2. x1 = SizeOfObjects(p, kind, k) + x2 BY <1>4, <1>6 DEF x2
  <2>3. x2 = SizeOfParts(p, kind, name, m) + x3 BY <1>7, <1>9 DEF x3
  <2>5. /\ SectionStart(p, id, s) \in Nat /\ SizeOfObjects(p, kind, k) \in Nat
        /\ SizeOfParts(p, kind, name, m) \in Nat /\ x1 \in Nat /\ x2 \in Nat /\ x3 \in Nat
    BY <1>2, <1>4, <1>6, <1>7, <1>9, <1>10
  <2>6. b = SectionStart(p, id, s) + (SizeOfObjects(p, kind, k) + x2) BY <2>1, <2>2
  <2>7. b = SectionStart(p, id, s) + (SizeOfObjects(p, kind, k) + (SizeOfParts(p, kind, name, m) + x3))
    BY <2>3, <2>6
  <2>8. b = SectionStart(p, id, s) + SizeOfObjects(p, kind, k) + SizeOfParts(p, kind, name, m) + x3
    BY <2>5, <2>7
  <2> QED BY <1>15, <2>8
<1>17. Start(p, id, s, j, i) \in Nat BY <1>2, <1>6, <1>9, <1>15
<1>18. PieceStart(p, id, s, j, i, r) <= b /\ b < PieceEnd(p, id, s, j, i, r)
  BY <1>10, <1>11, <1>13, <1>14, <1>16, <1>17 DEF PieceStart, PieceEnd
<1> QED BY <1>12, <1>18

------------------------------------------------------------------------------
(* The invariant *)

(* The bytes stand in the file from an offset on.                          *)
Holds(file, from, bytes) ==
  \A k \in 1 .. Len(bytes) : from + k - 1 \in DOMAIN file /\ file[from + k - 1] = bytes[k]

FrontStart(id, i) ==
  CASE i = 1 -> 0
    [] i = 2 -> SizeOf.checkpoint
    [] i = 3 -> SizeOf.checkpoint + SizeOf.uint
    [] i = 4 -> SizeOf.checkpoint + SizeOf.uint + ParamSize[id]

FrontHolds(file, p, id, t, i) == Holds(file, FrontStart(id, i), Front(p, id, t)[i])
PieceHolds(file, p, id, t, s, j, i, r) ==
  Holds(file, PieceStart(p, id, s, j, i, r), Piece(p, s, j, i, r, t))

(* All of what p ranks write at time t.                                    *)
Whole(file, p, id, t) ==
  /\ \A i \in 1 .. 3 : FrontHolds(file, p, id, t, i)
  /\ \A s, j, i : IsPiece(p, s, j, i) => \A r \in Rank(p) : PieceHolds(file, p, id, t, s, j, i, r)

(* A rank is at a piece of the front, at a part of an object, or at the    *)
(* end of a section; its byte_offset is where this begins.                 *)
OnPath(p, id, x) ==
  /\ x.section \in 0 .. 3 /\ x.object \in Nat /\ x.part \in Nat
  /\ x.section = 0 =>
       x.object = 1 /\ x.part \in 1 .. 3 /\ x.offset = FrontStart(id, x.part)
  /\ x.section # 0 =>
       \/ /\ IsPiece(p, x.section, x.object, x.part)
          /\ x.offset = Start(p, id, x.section, x.object, x.part)
       \/ /\ x.object = Len(Objects(Sections[x.section])) + 1 /\ x.part = 1
          /\ x.offset = SectionStart(p, id, x.section + 1)

FrontPast(x, i) == x.section # 0 \/ i < x.part
Past(x, s, j, i) == Precedes(s, j, i, x.section, x.object, x.part)

(* What the ranks have passed stands in the file.                          *)
Progress(file, p, id, t, r, x) ==
  /\ OnPath(p, id, x)
  /\ \A i \in 1 .. 3 : FrontPast(x, i) => FrontHolds(file, p, id, t, i)
  /\ \A s, j, i : IsPiece(p, s, j, i) /\ Past(x, s, j, i) => PieceHolds(file, p, id, t, s, j, i, r)

TypeInv ==
  /\ program \in Programs /\ procs \in Jobs
  /\ phase \in {"running", "writing", "down"}
  /\ now \in 0 .. MaxTime /\ n \in Nat
  /\ DOMAIN fs = Ids /\ DOMAIN next = Rank(procs)
  /\ complete \in [Ids -> -1 .. MaxTime]
  /\ phase = "writing" => writing \in Ids /\ got = None /\ complete[writing] = -1
  /\ phase = "down" => got = None /\ origin = None
  /\ phase # "writing" => next = Begin(procs)
  /\ got # None => got.id \in Ids /\ got.kind \in Kinds \cup {"header"}

WritingInv ==
  phase = "writing" =>
    \A r \in Rank(procs) : Progress(fs[writing], procs, writing, now, r, next[r])

ClosedInv ==
  \A i \in Ids : complete[i] # -1 => \E p \in Jobs : Whole(fs[i], p, i, complete[i])

(* The header of a file, as far as there is one, is that of a checkpoint   *)
(* of its id.                                                              *)
HeaderByte(id, b) == {<< <<"checkpoint", p, id, t>>, b + 1>> : p \in Jobs, t \in 0 .. MaxTime}
HeaderOK(file, id) ==
  \A b \in DOMAIN file : b \in 0 .. (SizeOf.checkpoint - 1) => file[b] \in HeaderByte(id, b)
HeaderInv == \A i \in Ids : HeaderOK(fs[i], i)

(* The counter of a careful program is past the checkpoint it was          *)
(* restarted from.                                                         *)
OriginInv ==
  program.careful /\ origin # None =>
    /\ origin.id \in Ids /\ n > origin.id
    /\ complete[origin.id] = origin.t
    /\ phase = "writing" => writing > origin.id

CheckpointInv == TypeInv /\ WritingInv /\ ClosedInv /\ HeaderInv /\ OriginInv

------------------------------------------------------------------------------
(* Bytes *)

(* What was written stands in the file.                                    *)
LEMMA HoldsWritten ==
  ASSUME NEW file, NEW from \in Int, NEW bytes, Len(bytes) \in Nat
  PROVE  Holds(Written(file, from, bytes), from, bytes)
<1> DEFINE l == Len(bytes)
           D == DOMAIN file \cup from .. (from + l - 1)
           w == Written(file, from, bytes)
<1>1. /\ DOMAIN w = D
      /\ \A b \in D : w[b] = IF b \in from .. (from + l - 1) THEN bytes[b - from + 1] ELSE file[b]
  BY DEF Written
<1> HIDE DEF w
<1>2. ASSUME NEW k \in 1 .. l PROVE from + k - 1 \in DOMAIN w /\ w[from + k - 1] = bytes[k]
  <2>1. from + k - 1 \in from .. (from + l - 1) /\ (from + k - 1) - from + 1 = k OBVIOUS
  <2>2. from + k - 1 \in D BY <2>1
  <2> HIDE DEF D
  <2> QED BY <1>1, <2>1, <2>2
<1> QED BY <1>2 DEF Holds, w

(* What stood elsewhere still does.                                        *)
LEMMA KeptElsewhere ==
  ASSUME NEW file, NEW from \in Int, NEW bytes, Len(bytes) \in Nat,
         NEW b \in DOMAIN file, b \in Int, b < from \/ from + Len(bytes) <= b
  PROVE  b \in DOMAIN Written(file, from, bytes) /\ Written(file, from, bytes)[b] = file[b]
BY DEF Written

LEMMA HoldsKept ==
  ASSUME NEW file, NEW from \in Int, NEW bytes, Len(bytes) \in Nat,
         NEW a \in Int, NEW old, Len(old) \in Nat, Holds(file, a, old),
         a + Len(old) <= from \/ from + Len(bytes) <= a
  PROVE  Holds(Written(file, from, bytes), a, old)
<1> DEFINE w == Written(file, from, bytes)
<1>1. ASSUME NEW k \in 1 .. Len(old)
      PROVE  a + k - 1 \in DOMAIN w /\ w[a + k - 1] = old[k]
  <2>1. a + k - 1 \in DOMAIN file /\ file[a + k - 1] = old[k] BY DEF Holds
  <2>2. a + k - 1 \in Int /\ (a + k - 1 < from \/ from + Len(bytes) <= a + k - 1) OBVIOUS
  <2> QED BY <2>1, <2>2, KeptElsewhere
<1> HIDE DEF w
<1> QED BY <1>1 DEF Holds, w

(* What stands in a file is read there.                                    *)
LEMMA HeldIsRead ==
  ASSUME NEW file, NEW from \in Int, NEW bytes, NEW size \in Nat,
         bytes = [k \in 1 .. size |-> bytes[k]], Len(bytes) = size, Holds(file, from, bytes)
  PROVE  ReadAt(file, from, size) = bytes
<1>1. \A k \in 1 .. size : from + k - 1 \in DOMAIN file /\ file[from + k - 1] = bytes[k]
  BY DEF Holds
<1>2. ReadAt(file, from, size) = [k \in 1 .. size |-> bytes[k]] BY <1>1 DEF ReadAt
<1> QED BY <1>2

LEMMA BytesAre ==
  ASSUME NEW what, NEW size \in Nat
  PROVE  /\ Len(Bytes(what, size)) = size
         /\ Bytes(what, size) = [k \in 1 .. size |-> Bytes(what, size)[k]]
         /\ \A k \in 1 .. size : Bytes(what, size)[k] = <<what, k>>
BY DEF Bytes

(* The pieces of the front, and where they stand.                          *)
LEMMA FrontIs ==
  ASSUME NEW p \in Jobs, NEW id \in Ids, NEW t, program \in Programs, NEW i \in 1 .. 3
  PROVE  /\ Len(Front(p, id, t)[i]) \in Nat
         /\ FrontStart(id, i) \in Nat /\ FrontStart(id, i + 1) \in Nat
         /\ FrontStart(id, i + 1) = FrontStart(id, i) + Len(Front(p, id, t)[i])
         /\ FrontStart(id, i + 1) <= SectionStart(p, id, 1)
         /\ FrontStart(id, 4) = SectionStart(p, id, 1)
<1>1. /\ SectionStart(p, id, 1) = SizeOf.checkpoint + SizeOf.uint + ParamSize[id]
      /\ SizeOf.checkpoint \in Nat /\ SizeOf.uint \in Nat /\ ParamSize[id] \in Nat
  BY SectionsInFile
<1>2. /\ Len(Front(p, id, t)[1]) = SizeOf.checkpoint
      /\ Len(Front(p, id, t)[2]) = SizeOf.uint
      /\ Len(Front(p, id, t)[3]) = ParamSize[id]
  BY <1>1, BytesAre DEF Front
<1>3. /\ FrontStart(id, 1) = 0 /\ FrontStart(id, 2) = SizeOf.checkpoint
      /\ FrontStart(id, 3) = SizeOf.checkpoint + SizeOf.uint
      /\ FrontStart(id, 4) = SizeOf.checkpoint + SizeOf.uint + ParamSize[id]
  BY DEF FrontStart
<1>4. i = 1 \/ i = 2 \/ i = 3 OBVIOUS
<1> HIDE DEF FrontStart, Front
<1>5. CASE i = 1 BY <1>1, <1>2, <1>3, <1>5
<1>6. CASE i = 2 BY <1>1, <1>2, <1>3, <1>6
<1>7. CASE i = 3
  <2>1. Len(Front(p, id, t)[i]) = ParamSize[id] /\ i + 1 = 4 BY <1>2, <1>7
  <2> QED BY <1>1, <1>3, <1>7, <2>1
<1> QED BY <1>4, <1>5, <1>6, <1>7

LEMMA FrontApart ==
  ASSUME NEW p \in Jobs, NEW id \in Ids, NEW t, program \in Programs,
         NEW i \in 1 .. 3, NEW k \in 1 .. 3, i # k
  PROVE  \/ FrontStart(id, i) + Len(Front(p, id, t)[i]) <= FrontStart(id, k)
         \/ FrontStart(id, k) + Len(Front(p, id, t)[k]) <= FrontStart(id, i)
<1>1. /\ FrontStart(id, 1) \in Nat /\ FrontStart(id, 2) \in Nat /\ FrontStart(id, 3) \in Nat
      /\ Len(Front(p, id, t)[1]) \in Nat /\ Len(Front(p, id, t)[2]) \in Nat
      /\ Len(Front(p, id, t)[3]) \in Nat
  BY FrontIs
<1>2. /\ FrontStart(id, 1 + 1) = FrontStart(id, 1) + Len(Front(p, id, t)[1])
      /\ FrontStart(id, 2 + 1) = FrontStart(id, 2) + Len(Front(p, id, t)[2])
  BY FrontIs
<1>3. /\ i = 1 \/ i = 2 \/ i = 3
      /\ k = 1 \/ k = 2 \/ k = 3
  OBVIOUS
<1> HIDE DEF FrontStart, Front
<1> QED BY <1>1, <1>2, <1>3

(* What is written of a part, byte by byte.                                *)
LEMMA PieceBytes ==
  ASSUME program \in Programs, NEW p \in Jobs, NEW s, NEW j, NEW i, IsPiece(p, s, j, i),
         NEW r \in Rank(p), NEW t
  PROVE  /\ PieceLength(p, s, j, i, r) \in Nat
         /\ Len(Piece(p, s, j, i, r, t)) = PieceLength(p, s, j, i, r)
         /\ Piece(p, s, j, i, r, t) =
              [k \in 1 .. PieceLength(p, s, j, i, r) |-> Piece(p, s, j, i, r, t)[k]]
         /\ \A k \in 1 .. PieceLength(p, s, j, i, r) :
              Piece(p, s, j, i, r, t)[k] =
                IF PartAt(p, s, i) = "header"
                THEN << <<Sections[s], NameAt(s, j), "header", p, r, t>>, k>>
                ELSE <<Sections[s], NameAt(s, j), PartAt(p, s, i), PieceAt(p, s, j, i, r) + k, t>>
<1> DEFINE kind == Sections[s]
           name == NameAt(s, j)
           part == PartAt(p, s, i)
<1>1. IsObject(p, kind, name) /\ IsPart(p, kind, part) BY PieceIs
<1>2. Length(p, kind, name, part, r) \in Nat BY <1>1, RanksInPart
<1>3. /\ PieceLength(p, s, j, i, r) = Length(p, kind, name, part, r)
      /\ PieceAt(p, s, j, i, r) = At(p, kind, name, part, r)
      /\ Piece(p, s, j, i, r, t) = PartOf(p, kind, name, part, r, t)
  BY DEF PieceLength, PieceAt, Piece
<1>4. CASE part = "header"
  <2>1. Length(p, kind, name, part, r) = SizeOf[kind]
    <3>1. Width(kind, part) \in Nat BY <1>1, Counted
    <3>2. Width(kind, part) = SizeOf[kind] /\ Count(p, kind, name, part, r) = 1
      BY <1>4 DEF Width, Count
    <3> QED BY <3>1, <3>2 DEF Length
  <2>2. PartOf(p, kind, name, part, r, t) = Bytes(<<kind, name, "header", p, r, t>>, SizeOf[kind])
    BY <1>4 DEF PartOf, HeaderOf
  <2> HIDE DEF kind, name, part
  <2>4. SizeOf[kind] \in Nat BY <1>2, <2>1
  <2>5. LET b == Bytes(<<kind, name, "header", p, r, t>>, SizeOf[kind])
        IN  /\ Len(b) = SizeOf[kind] /\ b = [k \in 1 .. SizeOf[kind] |-> b[k]]
            /\ \A k \in 1 .. SizeOf[kind] : b[k] = << <<kind, name, "header", p, r, t>>, k>>
    BY <2>4, BytesAre
  <2>3. /\ Len(PartOf(p, kind, name, part, r, t)) = Length(p, kind, name, part, r)
        /\ PartOf(p, kind, name, part, r, t) =
             [k \in 1 .. Length(p, kind, name, part, r) |-> PartOf(p, kind, name, part, r, t)[k]]
        /\ \A k \in 1 .. Length(p, kind, name, part, r) :
             PartOf(p, kind, name, part, r, t)[k] = << <<kind, name, "header", p, r, t>>, k>>
    BY <2>1, <2>2, <2>5
  <2> QED BY <1>2, <1>3, <1>4, <2>3 DEF kind, name, part
<1>5. CASE part # "header"
  <2> DEFINE l == Length(p, kind, name, part, r)
  <2>1. PartOf(p, kind, name, part, r, t) =
          [k \in 1 .. l |-> <<kind, name, part, At(p, kind, name, part, r) + k, t>>]
    BY <1>5 DEF PartOf, DataOf, Length
  <2> HIDE DEF kind, name, part, l
  <2>2. l \in Nat BY <1>2 DEF l
  <2>3. /\ Len(PartOf(p, kind, name, part, r, t)) = l
        /\ PartOf(p, kind, name, part, r, t) =
             [k \in 1 .. l |-> PartOf(p, kind, name, part, r, t)[k]]
        /\ \A k \in 1 .. l :
             PartOf(p, kind, name, part, r, t)[k] =
               <<kind, name, part, At(p, kind, name, part, r) + k, t>>
    BY <2>1, <2>2
  <2> QED BY <1>3, <1>5, <2>2, <2>3 DEF kind, name, part, l
<1> QED BY <1>4, <1>5

------------------------------------------------------------------------------
(* The way of a rank through the file *)

LEMMA OnPathEnd ==
  ASSUME NEW p, NEW id, NEW x, x.section \in 1 .. 3, Len(Objects(Sections[x.section])) \in Nat,
         x.object = Len(Objects(Sections[x.section])) + 1, x.part = 1,
         x.offset = SectionStart(p, id, x.section + 1)
  PROVE  OnPath(p, id, x)
BY DEF OnPath

LEMMA OnPathPiece ==
  ASSUME NEW p, NEW id, NEW x, x.object \in Nat, x.part \in Nat,
         IsPiece(p, x.section, x.object, x.part),
         x.offset = Start(p, id, x.section, x.object, x.part)
  PROVE  OnPath(p, id, x)
<1>1. x.section \in 1 .. 3 BY DEF IsPiece
<1> QED BY <1>1 DEF OnPath

(* A rank that comes to the j-th object of a section, or to its end.       *)
LEMMA Arrives ==
  ASSUME program \in Programs, NEW p \in Jobs, NEW id \in Ids, NEW s \in 1 .. 3,
         NEW j \in 1 .. (Len(Objects(Sections[s])) + 1)
  PROVE  OnPath(p, id, [section |-> s, object |-> j, part |-> 1,
                        offset |-> SectionStart(p, id, s) + SizeOfObjects(p, Sections[s], j - 1)])
<1> DEFINE kind == Sections[s]
           l == Len(Objects(kind))
           o == SectionStart(p, id, s) + SizeOfObjects(p, kind, j - 1)
           x == [section |-> s, object |-> j, part |-> 1, offset |-> o]
<1>1. /\ kind \in Kinds /\ SectionStart(p, id, s) \in Nat
      /\ SectionStart(p, id, s + 1) = SectionStart(p, id, s) + SizeOfKind(p, kind)
  BY SectionsInFile
<1>2. l \in Nat BY <1>1, ObjectsAre
<1>3. SizeOfObjects(p, kind, j - 1) \in Nat
  <2>1. j - 1 \in 0 .. l BY <1>2
  <2> QED BY <1>1, <2>1, ObjectsInKind
<1>4. /\ x.section = s /\ x.object = j /\ x.part = 1 /\ x.offset = o /\ j \in Nat BY <1>2
<1>5. ASSUME j = l + 1 PROVE OnPath(p, id, x)
  <2>1. j - 1 = l BY <1>2, <1>5
  <2>2. o = SectionStart(p, id, s + 1) BY <1>1, <2>1 DEF SizeOfKind
  <2> HIDE DEF x, o
  <2>3. /\ x.section \in 1 .. 3 /\ x.part = 1 /\ Len(Objects(Sections[x.section])) \in Nat
        /\ x.object = Len(Objects(Sections[x.section])) + 1
        /\ x.offset = SectionStart(p, id, x.section + 1)
    BY <1>2, <1>4, <1>5, <2>2
  <2> QED BY <2>3, OnPathEnd
<1>6. ASSUME j \in 1 .. l PROVE OnPath(p, id, x)
  <2>1. Len(Parts(kind, p)) \in 2 .. 5 /\ 1 \in 1 .. Len(Parts(kind, p))
    <3>1. Len(Parts(kind, p)) \in 2 .. 5 BY <1>1, PartsAre
    <3>2. \A q \in 2 .. 5 : 1 \in 1 .. q OBVIOUS
    <3> QED BY <3>1, <3>2
  <2>2. IsPiece(p, s, j, 1)
    <3>1. j \in 1 .. Len(Objects(Sections[s])) /\ 1 \in 1 .. Len(Parts(Sections[s], p))
      BY <1>6, <2>1
    <3> QED BY <3>1 DEF IsPiece
  <2>3. SizeOfParts(p, kind, NameAt(s, j), 0) = 0 BY <2>2, PieceIs, PartsInObject
  <2>4. Start(p, id, s, j, 1) = o + SizeOfParts(p, kind, NameAt(s, j), 1 - 1) BY DEF Start
  <2>5. o \in Nat BY <1>1, <1>3
  <2> HIDE DEF x, o
  <2>6. x.offset = Start(p, id, s, j, 1) BY <1>4, <2>3, <2>4, <2>5
  <2>7. x.object \in Nat /\ x.part \in Nat /\ IsPiece(p, x.section, x.object, x.part)
        /\ x.offset = Start(p, id, x.section, x.object, x.part)
    BY <1>4, <2>2, <2>6
  <2> QED BY <2>7, OnPathPiece
<1>7. j = l + 1 \/ j \in 1 .. l BY <1>2
<1> HIDE DEF x, o
<1>8. OnPath(p, id, x) BY <1>5, <1>6, <1>7
<1> QED BY <1>8 DEF x, o

(* The part that follows a part, or the object that follows the last.      *)
Follows(p, id, s, j, i) ==
  LET last == i = Len(Parts(Sections[s], p))
  IN  [section |-> s,
       object |-> IF last THEN j + 1 ELSE j,
       part |-> IF last THEN 1 ELSE i + 1,
       offset |-> Start(p, id, s, j, i) + PartSize(p, Sections[s], NameAt(s, j), PartAt(p, s, i))]

LEMMA Onwards ==
  ASSUME program \in Programs, NEW p \in Jobs, NEW id \in Ids,
         NEW s, NEW j, NEW i, IsPiece(p, s, j, i)
  PROVE  OnPath(p, id, Follows(p, id, s, j, i))
<1> DEFINE kind == Sections[s]
           name == NameAt(s, j)
           size == PartSize(p, kind, name, PartAt(p, s, i))
           x == Follows(p, id, s, j, i)
<1>1. /\ kind \in Kinds /\ Len(Objects(kind)) \in Nat /\ Len(Parts(kind, p)) \in Nat
      /\ p \in Nat /\ p > 0
  BY PieceIs
<1>2. s \in 1 .. 3 /\ j \in 1 .. Len(Objects(kind)) /\ i \in 1 .. Len(Parts(kind, p)) BY DEF IsPiece
<1>3. /\ SizeOfParts(p, kind, name, i - 1) \in Nat /\ size \in Nat
      /\ SizeOfParts(p, kind, name, i - 1) + size = SizeOfParts(p, kind, name, i)
      /\ SizeOfObjects(p, kind, j - 1) \in Nat
      /\ SizeOfObject(p, kind, name) \in Nat
      /\ SizeOfObjects(p, kind, j - 1) + SizeOfObject(p, kind, name) = SizeOfObjects(p, kind, j)
      /\ SectionStart(p, id, s) \in Nat
  <2>1. 0 \in Rank(p) BY <1>1 DEF Rank
  <2> QED BY <2>1, Nested
<1>4. Start(p, id, s, j, i) + size =
        SectionStart(p, id, s) + SizeOfObjects(p, kind, j - 1) + SizeOfParts(p, kind, name, i)
  <2>1. Start(p, id, s, j, i) = SectionStart(p, id, s) + SizeOfObjects(p, kind, j - 1)
          + SizeOfParts(p, kind, name, i - 1)
    BY DEF Start
  <2> HIDE DEF kind, name, size
  <2> QED BY <1>3, <2>1
<1>5. CASE i = Len(Parts(kind, p))
  <2>1. SizeOfParts(p, kind, name, i) = SizeOfObject(p, kind, name) BY <1>5 DEF SizeOfObject
  <2>2. Start(p, id, s, j, i) + size = SectionStart(p, id, s) + SizeOfObjects(p, kind, j)
    <3> HIDE DEF kind, name, size
    <3> QED BY <1>3, <1>4, <2>1
  <2>3. j + 1 \in 1 .. (Len(Objects(kind)) + 1) /\ (j + 1) - 1 = j BY <1>1, <1>2
  <2>4. x = [section |-> s, object |-> j + 1, part |-> 1,
             offset |-> SectionStart(p, id, s) + SizeOfObjects(p, kind, (j + 1) - 1)]
    BY <1>5, <2>2, <2>3 DEF Follows
  <2>5. OnPath(p, id, [section |-> s, object |-> j + 1, part |-> 1,
                       offset |-> SectionStart(p, id, s) + SizeOfObjects(p, kind, (j + 1) - 1)])
    BY <1>2, <2>3, Arrives
  <2> QED BY <2>4, <2>5
<1>6. ASSUME i # Len(Parts(kind, p)) PROVE OnPath(p, id, x)
  <2>1. i + 1 \in 1 .. Len(Parts(kind, p)) /\ (i + 1) - 1 = i BY <1>1, <1>2, <1>6
  <2>2. IsPiece(p, s, j, i + 1) BY <1>2, <2>1 DEF IsPiece
  <2>3. Start(p, id, s, j, i + 1) = SectionStart(p, id, s) + SizeOfObjects(p, kind, j - 1)
          + SizeOfParts(p, kind, name, (i + 1) - 1)
    BY DEF Start
  <2>4. /\ x.section = s /\ x.object = j /\ x.part = i + 1
        /\ x.offset = Start(p, id, s, j, i) + size
    BY <1>6 DEF Follows
  <2>5. j \in Nat /\ i + 1 \in Nat /\ s # 0 BY <1>1, <1>2
  <2> HIDE DEF x
  <2>6. x.object \in Nat /\ x.part \in Nat /\ IsPiece(p, x.section, x.object, x.part)
    BY <2>2, <2>4, <2>5
  <2>7. x.offset = Start(p, id, x.section, x.object, x.part) BY <1>4, <2>1, <2>3, <2>4
  <2> QED BY <2>6, <2>7, OnPathPiece
<1> QED BY <1>5, <1>6

(* Nothing is passed over.                                                 *)
LEMMA NothingSkipped ==
  ASSUME program \in Programs, NEW p \in Jobs, NEW id \in Ids,
         NEW s, NEW j, NEW i, IsPiece(p, s, j, i),
         NEW s2, NEW j2, NEW i2, IsPiece(p, s2, j2, i2),
         Past(Follows(p, id, s, j, i), s2, j2, i2)
  PROVE  Precedes(s2, j2, i2, s, j, i) \/ (s2 = s /\ j2 = j /\ i2 = i)
<1> DEFINE x == Follows(p, id, s, j, i)
<1>1. /\ Len(Objects(Sections[s])) \in Nat /\ Len(Parts(Sections[s], p)) \in Nat
      /\ Len(Objects(Sections[s2])) \in Nat /\ Len(Parts(Sections[s2], p)) \in Nat
  BY PieceIs
<1>2. /\ s \in Int /\ s2 \in Int /\ j \in Int /\ j2 \in Int /\ i \in Int /\ i2 \in Int
      /\ i2 <= Len(Parts(Sections[s2], p)) /\ 1 <= i2
  BY <1>1 DEF IsPiece
<1>3. /\ x.section = s
      /\ i = Len(Parts(Sections[s], p)) => x.object = j + 1 /\ x.part = 1
      /\ i # Len(Parts(Sections[s], p)) => x.object = j /\ x.part = i + 1
  BY DEF Follows
<1>4. s2 < x.section \/ (s2 = x.section /\ (j2 < x.object \/ (j2 = x.object /\ i2 < x.part)))
  BY DEF Past, Precedes
<1> HIDE DEF x
<1>5. CASE i = Len(Parts(Sections[s], p)) BY <1>1, <1>2, <1>3, <1>4, <1>5 DEF Precedes
<1>6. CASE i # Len(Parts(Sections[s], p)) BY <1>1, <1>2, <1>3, <1>4, <1>6 DEF Precedes
<1> QED BY <1>5, <1>6

(* A rank at the end of a section has passed all of it.                    *)
LEMMA SectionPassed ==
  ASSUME program \in Programs, NEW p \in Jobs, NEW s, NEW j, NEW i, IsPiece(p, s, j, i),
         NEW x, x.section \in 1 .. 3, x.object \in Nat,
         x.object > Len(Objects(Sections[x.section])), s <= x.section
  PROVE  Past(x, s, j, i)
<1>1. Len(Objects(Sections[s])) \in Nat BY PieceIs
<1>2. s \in 1 .. 3 /\ j \in 1 .. Len(Objects(Sections[s])) BY DEF IsPiece
<1> QED BY <1>1, <1>2 DEF Past, Precedes

------------------------------------------------------------------------------
(* The program never changes *)

LEMMA LayoutFixed ==
  ASSUME program' = program
  PROVE  /\ Ids' = Ids
         /\ \A kind : Objects(kind)' = Objects(kind)
         /\ \A p, kind, k : SizeOfObjects(p, kind, k)' = SizeOfObjects(p, kind, k)
         /\ \A p, kind : SizeOfKind(p, kind)' = SizeOfKind(p, kind)
         /\ \A p, id, s : SectionStart(p, id, s)' = SectionStart(p, id, s)
         /\ \A s, j : NameAt(s, j)' = NameAt(s, j)
         /\ \A p, s, j, i : IsPiece(p, s, j, i)' <=> IsPiece(p, s, j, i)
<1>1. Ids' = Ids BY DEF Ids
<1>2. \A kind : Objects(kind)' = Objects(kind) BY DEF Objects
<1>3. \A p, kind, k : SizeOfObjects(p, kind, k)' = SizeOfObjects(p, kind, k)
  BY <1>2 DEF SizeOfObjects
<1>4. \A p, kind : SizeOfKind(p, kind)' = SizeOfKind(p, kind) BY <1>2, <1>3 DEF SizeOfKind
<1>5. \A p : SizeOfMeshes(p)' = SizeOfMeshes(p) BY <1>4 DEF SizeOfMeshes
<1>6. \A kind, p, id : Offset(kind, p, id)' = Offset(kind, p, id) BY <1>4, <1>5 DEF Offset
<1>7. \A p, id, s : SectionStart(p, id, s)' = SectionStart(p, id, s)
  BY <1>4, <1>6 DEF SectionStart
<1>8. \A s, j : NameAt(s, j)' = NameAt(s, j) BY <1>2 DEF NameAt
<1>9. \A p, s, j, i : IsPiece(p, s, j, i)' <=> IsPiece(p, s, j, i) BY <1>2 DEF IsPiece
<1> QED BY <1>1, <1>2, <1>3, <1>4, <1>7, <1>8, <1>9

LEMMA ContentsFixed ==
  ASSUME program' = program
  PROVE  /\ \A file, p, id, t, s, j, i, r :
              PieceHolds(file, p, id, t, s, j, i, r)' <=> PieceHolds(file, p, id, t, s, j, i, r)
         /\ \A file, p, id, t : Whole(file, p, id, t)' <=> Whole(file, p, id, t)
         /\ \A p, id, x : OnPath(p, id, x)' <=> OnPath(p, id, x)
         /\ \A file, p, id, t, r, x :
              Progress(file, p, id, t, r, x)' <=> Progress(file, p, id, t, r, x)
<1>1. \A p, id, s, j, i : Start(p, id, s, j, i)' = Start(p, id, s, j, i)
  BY LayoutFixed DEF Start
<1>2. \A p, s, j, i, r : PieceAt(p, s, j, i, r)' = PieceAt(p, s, j, i, r)
  BY LayoutFixed DEF PieceAt
<1>3. \A p, id, s, j, i, r : PieceStart(p, id, s, j, i, r)' = PieceStart(p, id, s, j, i, r)
  BY <1>1, <1>2 DEF PieceStart
<1>4. \A p, s, j, i, r, t : Piece(p, s, j, i, r, t)' = Piece(p, s, j, i, r, t)
  BY LayoutFixed DEF Piece
<1>5. \A file, p, id, t, s, j, i, r :
        PieceHolds(file, p, id, t, s, j, i, r)' <=> PieceHolds(file, p, id, t, s, j, i, r)
  BY <1>3, <1>4 DEF PieceHolds
<1>6. \A file, p, id, t : Whole(file, p, id, t)' <=> Whole(file, p, id, t)
  BY <1>5, LayoutFixed DEF Whole
<1>7. \A p, id, x : OnPath(p, id, x)' <=> OnPath(p, id, x) BY <1>1, LayoutFixed DEF OnPath
<1>8. \A file, p, id, t, r, x :
        Progress(file, p, id, t, r, x)' <=> Progress(file, p, id, t, r, x)
  BY <1>5, <1>7, LayoutFixed DEF Progress
<1> QED BY <1>5, <1>6, <1>7, <1>8

(* A rank that has written nothing.                                        *)
LEMMA AtBegin ==
  ASSUME NEW p \in Jobs, NEW id, NEW file, NEW t, NEW r \in Rank(p)
  PROVE  Progress(file, p, id, t, r, Begin(p)[r])
<1> DEFINE x == Begin(p)[r]
<1>1. x.section = 0 /\ x.object = 1 /\ x.part = 1 /\ x.offset = 0 BY DEF Begin
<1> HIDE DEF x
<1>2. FrontStart(id, 1) = 0 BY DEF FrontStart
<1>3. OnPath(p, id, x) BY <1>1, <1>2 DEF OnPath
<1>4. \A i \in 1 .. 3 : ~FrontPast(x, i) BY <1>1 DEF FrontPast
<1>5. \A s, j, i : ~(IsPiece(p, s, j, i) /\ Past(x, s, j, i)) BY <1>1 DEF IsPiece, Past, Precedes
<1>6. Progress(file, p, id, t, r, x) BY <1>3, <1>4, <1>5 DEF Progress
<1> QED BY <1>6 DEF x

------------------------------------------------------------------------------
(* What one rank writes leaves alone what another wrote *)

Keeps(file, w, p, id, t) ==
  /\ \A i \in 1 .. 3 : FrontHolds(file, p, id, t, i) => FrontHolds(w, p, id, t, i)
  /\ \A s, j, i : \A r \in Rank(p) :
       IsPiece(p, s, j, i) /\ PieceHolds(file, p, id, t, s, j, i, r)
         => PieceHolds(w, p, id, t, s, j, i, r)

LEMMA FrontWritten ==
  ASSUME program \in Programs, NEW p \in Jobs, NEW id \in Ids, NEW t, NEW file, NEW i \in 1 .. 3
  PROVE  LET w == Written(file, FrontStart(id, i), Front(p, id, t)[i])
         IN  FrontHolds(w, p, id, t, i) /\ Keeps(file, w, p, id, t)
<1> DEFINE bytes == Front(p, id, t)[i]
           w == Written(file, FrontStart(id, i), bytes)
<1>1. /\ Len(bytes) \in Nat /\ FrontStart(id, i) \in Int /\ FrontStart(id, i) \in Nat
      /\ FrontStart(id, i) + Len(bytes) <= SectionStart(p, id, 1)
  BY FrontIs
<1> HIDE DEF bytes
<1>2. Holds(w, FrontStart(id, i), bytes) BY <1>1, HoldsWritten
<1>3. FrontHolds(w, p, id, t, i) BY <1>2 DEF FrontHolds, bytes
<1>4. ASSUME NEW k \in 1 .. 3, FrontHolds(file, p, id, t, k) PROVE FrontHolds(w, p, id, t, k)
  <2>1. CASE k = i BY <1>3, <2>1
  <2>2. CASE k # i
    <3>1. \/ FrontStart(id, k) + Len(Front(p, id, t)[k]) <= FrontStart(id, i)
          \/ FrontStart(id, i) + Len(bytes) <= FrontStart(id, k)
      BY <2>2, FrontApart DEF bytes
    <3>2. FrontStart(id, k) \in Int /\ Len(Front(p, id, t)[k]) \in Nat BY FrontIs
    <3>3. Holds(file, FrontStart(id, k), Front(p, id, t)[k]) BY <1>4 DEF FrontHolds
    <3>4. Holds(w, FrontStart(id, k), Front(p, id, t)[k]) BY <1>1, <3>1, <3>2, <3>3, HoldsKept
    <3> QED BY <3>4 DEF FrontHolds
  <2> QED BY <2>1, <2>2
<1>5. ASSUME NEW s, NEW j, NEW k, NEW r \in Rank(p), IsPiece(p, s, j, k),
             PieceHolds(file, p, id, t, s, j, k, r)
      PROVE  PieceHolds(w, p, id, t, s, j, k, r)
  <2> DEFINE old == Piece(p, s, j, k, r, t)
             a == PieceStart(p, id, s, j, k, r)
  <2>1. Len(old) \in Nat BY <1>5, PieceBytes
  <2>2. a \in Int /\ SectionStart(p, id, s) <= a /\ SectionStart(p, id, s) \in Nat
    <3>1. /\ a \in Nat /\ Start(p, id, s, j, k) \in Nat
          /\ SectionStart(p, id, s) <= Start(p, id, s, j, k) /\ Start(p, id, s, j, k) <= a
      BY <1>5, Within
    <3>2. SectionStart(p, id, s) \in Nat BY <1>5, Nested
    <3> QED BY <3>1, <3>2
  <2>3. SectionStart(p, id, 1) <= SectionStart(p, id, s) /\ SectionStart(p, id, 1) \in Nat
    <3>1. s \in 1 .. 4 /\ 1 \in 1 .. 4 /\ 1 <= s BY <1>5 DEF IsPiece
    <3> QED BY <3>1, SectionsAscend, SectionsInFile
  <2>4. Holds(file, a, old) BY <1>5 DEF PieceHolds
  <2> HIDE DEF old, a
  <2>5. FrontStart(id, i) + Len(bytes) <= a BY <1>1, <2>2, <2>3
  <2>6. Holds(w, a, old) BY <1>1, <2>1, <2>2, <2>4, <2>5, HoldsKept
  <2> QED BY <2>6 DEF PieceHolds, old, a
<1> HIDE DEF w
<1>6. Keeps(file, w, p, id, t) BY <1>4, <1>5 DEF Keeps
<1> QED BY <1>3, <1>6 DEF w, bytes

LEMMA PieceWritten ==
  ASSUME program \in Programs, NEW p \in Jobs, NEW id \in Ids, NEW t, NEW file,
         NEW s, NEW j, NEW i, IsPiece(p, s, j, i), NEW r \in Rank(p)
  PROVE  LET w == Written(file, PieceStart(p, id, s, j, i, r), Piece(p, s, j, i, r, t))
         IN  PieceHolds(w, p, id, t, s, j, i, r) /\ Keeps(file, w, p, id, t)
<1> DEFINE bytes == Piece(p, s, j, i, r, t)
           from == PieceStart(p, id, s, j, i, r)
           w == Written(file, from, bytes)
<1>1. /\ Len(bytes) \in Nat /\ from \in Int /\ from + Len(bytes) = PieceEnd(p, id, s, j, i, r)
  <2>1. Len(bytes) = PieceLength(p, s, j, i, r) /\ PieceLength(p, s, j, i, r) \in Nat BY PieceBytes
  <2>2. from \in Nat BY Within
  <2> QED BY <2>1, <2>2 DEF PieceEnd
<1>7. SectionStart(p, id, 1) <= from /\ SectionStart(p, id, 1) \in Nat
  <2>1. /\ from \in Nat /\ Start(p, id, s, j, i) \in Nat
        /\ SectionStart(p, id, s) <= Start(p, id, s, j, i) /\ Start(p, id, s, j, i) <= from
    BY Within
  <2>2. SectionStart(p, id, s) \in Nat BY Nested
  <2>3. s \in 1 .. 4 /\ 1 \in 1 .. 4 /\ 1 <= s BY DEF IsPiece
  <2>4. SectionStart(p, id, 1) <= SectionStart(p, id, s) /\ SectionStart(p, id, 1) \in Nat
    BY <2>3, SectionsAscend, SectionsInFile
  <2> QED BY <2>1, <2>2, <2>4
<1> HIDE DEF bytes, from
<1>2. Holds(w, from, bytes) BY <1>1, HoldsWritten
<1>3. PieceHolds(w, p, id, t, s, j, i, r) BY <1>2 DEF PieceHolds, bytes, from
<1>4. ASSUME NEW k \in 1 .. 3, FrontHolds(file, p, id, t, k) PROVE FrontHolds(w, p, id, t, k)
  <2>1. /\ FrontStart(id, k) \in Int /\ Len(Front(p, id, t)[k]) \in Nat
        /\ FrontStart(id, k) + Len(Front(p, id, t)[k]) <= SectionStart(p, id, 1)
    BY FrontIs
  <2>2. FrontStart(id, k) + Len(Front(p, id, t)[k]) <= from BY <1>1, <1>7, <2>1
  <2>3. Holds(file, FrontStart(id, k), Front(p, id, t)[k]) BY <1>4 DEF FrontHolds
  <2>4. Holds(w, FrontStart(id, k), Front(p, id, t)[k]) BY <1>1, <2>1, <2>2, <2>3, HoldsKept
  <2> QED BY <2>4 DEF FrontHolds
<1>5. ASSUME NEW s2, NEW j2, NEW k, NEW q \in Rank(p), IsPiece(p, s2, j2, k),
             PieceHolds(file, p, id, t, s2, j2, k, q)
      PROVE  PieceHolds(w, p, id, t, s2, j2, k, q)
  <2>1. CASE s2 = s /\ j2 = j /\ k = i /\ q = r BY <1>3, <2>1
  <2>2. CASE ~ (s2 = s /\ j2 = j /\ k = i /\ q = r)
    <3> DEFINE old == Piece(p, s2, j2, k, q, t)
               a == PieceStart(p, id, s2, j2, k, q)
    <3>1. \/ PieceEnd(p, id, s2, j2, k, q) <= PieceStart(p, id, s, j, i, r)
          \/ PieceEnd(p, id, s, j, i, r) <= a
      BY <1>5, <2>2, Apart
    <3>2. Len(old) \in Nat /\ a \in Int /\ a + Len(old) = PieceEnd(p, id, s2, j2, k, q)
      <4>1. Len(old) = PieceLength(p, s2, j2, k, q) /\ PieceLength(p, s2, j2, k, q) \in Nat
        BY <1>5, PieceBytes
      <4>2. a \in Nat BY <1>5, Within
      <4> QED BY <4>1, <4>2 DEF PieceEnd
    <3>3. Holds(file, a, old) BY <1>5 DEF PieceHolds
    <3> HIDE DEF old, a
    <3>4. a + Len(old) <= from \/ from + Len(bytes) <= a BY <1>1, <3>1, <3>2 DEF from
    <3>5. Holds(w, a, old) BY <1>1, <3>2, <3>3, <3>4, HoldsKept
    <3> QED BY <3>5 DEF PieceHolds, old, a
  <2> QED BY <2>1, <2>2
<1> HIDE DEF w
<1>6. Keeps(file, w, p, id, t) BY <1>4, <1>5 DEF Keeps
<1> QED BY <1>3, <1>6 DEF w, bytes, from

LEMMA ProgressKept ==
  ASSUME NEW p, NEW id, NEW t, NEW file, NEW w, Keeps(file, w, p, id, t),
         NEW r \in Rank(p), NEW x, Progress(file, p, id, t, r, x)
  PROVE  Progress(w, p, id, t, r, x)
<1>1. /\ OnPath(p, id, x)
      /\ \A i \in 1 .. 3 : FrontPast(x, i) => FrontHolds(file, p, id, t, i)
      /\ \A s, j, i : IsPiece(p, s, j, i) /\ Past(x, s, j, i) => PieceHolds(file, p, id, t, s, j, i, r)
  BY DEF Progress
<1>2. \A i \in 1 .. 3 : FrontPast(x, i) => FrontHolds(w, p, id, t, i) BY <1>1 DEF Keeps
<1>3. \A s, j, i : IsPiece(p, s, j, i) /\ Past(x, s, j, i) => PieceHolds(w, p, id, t, s, j, i, r)
  BY <1>1 DEF Keeps
<1> QED BY <1>1, <1>2, <1>3 DEF Progress

(* The header stays that of a checkpoint of the file's id.                 *)
LEMMA HeaderWritten ==
  ASSUME program \in Programs, NEW p \in Jobs, NEW id \in Ids, NEW t \in 0 .. MaxTime, NEW file,
         NEW i \in 1 .. 3, HeaderOK(file, id)
  PROVE  HeaderOK(Written(file, FrontStart(id, i), Front(p, id, t)[i]), id)
<1> DEFINE bytes == Front(p, id, t)[i]
           from == FrontStart(id, i)
           w == Written(file, from, bytes)
           size == SizeOf.checkpoint
<1>1. Len(bytes) \in Nat /\ from \in Nat BY FrontIs
<1>2. size \in Nat BY SectionsInFile
<1>3. CASE i = 1
  <2>1. bytes = Bytes(<<"checkpoint", p, id, t>>, size) /\ from = 0 BY <1>3 DEF Front, FrontStart
  <2>2. Len(bytes) = size /\ \A k \in 1 .. size : bytes[k] = << <<"checkpoint", p, id, t>>, k>>
    BY <1>2, <2>1, BytesAre
  <2> HIDE DEF bytes, from, size
  <2>3. Holds(w, from, bytes) BY <1>1, HoldsWritten
  <2>4. ASSUME NEW b \in 0 .. (size - 1) PROVE w[b] \in HeaderByte(id, b)
    <3>1. b + 1 \in 1 .. size /\ from + (b + 1) - 1 = b BY <1>2, <2>1
    <3> HIDE DEF w
    <3>2. w[from + (b + 1) - 1] = bytes[b + 1] BY <2>2, <2>3, <3>1 DEF Holds
    <3>3. w[b] = << <<"checkpoint", p, id, t>>, b + 1>> BY <2>2, <3>1, <3>2
    <3> QED BY <3>3 DEF HeaderByte
  <2> HIDE DEF w
  <2>5. HeaderOK(w, id) BY <2>4 DEF HeaderOK, size
  <2> QED BY <2>5 DEF w, bytes, from
<1>4. CASE i # 1
  <2>1. size <= from
    <3>1. SizeOf.uint \in Nat BY SectionsInFile
    <3>2. i = 2 \/ i = 3 BY <1>4
    <3>3. FrontStart(id, 2) = size /\ FrontStart(id, 3) = size + SizeOf.uint BY DEF FrontStart
    <3> QED BY <1>2, <3>1, <3>2, <3>3
  <2> HIDE DEF bytes, from, size
  <2>2. ASSUME NEW b \in DOMAIN w, b \in 0 .. (size - 1) PROVE w[b] \in HeaderByte(id, b)
    <3>1. b < from /\ b \in Int BY <1>1, <1>2, <2>1, <2>2
    <3>2. DOMAIN w = DOMAIN file \cup from .. (from + Len(bytes) - 1) BY DEF Written
    <3>3. b \in DOMAIN file BY <1>1, <2>2, <3>1, <3>2
    <3>4. w[b] = file[b] BY <1>1, <3>1, <3>3, KeptElsewhere
    <3> QED BY <2>2, <3>3, <3>4 DEF HeaderOK, size
  <2> HIDE DEF w
  <2>5. HeaderOK(w, id) BY <2>2 DEF HeaderOK, size
  <2> QED BY <2>5 DEF w, bytes, from
<1> QED BY <1>3, <1>4

LEMMA HeaderLeft ==
  ASSUME NEW id, NEW file, HeaderOK(file, id), NEW from \in Int, NEW bytes, Len(bytes) \in Nat,
         SizeOf.checkpoint \in Nat, SizeOf.checkpoint <= from
  PROVE  HeaderOK(Written(file, from, bytes), id)
<1> DEFINE w == Written(file, from, bytes)
           size == SizeOf.checkpoint
<1>1. ASSUME NEW b \in DOMAIN w, b \in 0 .. (size - 1) PROVE w[b] \in HeaderByte(id, b)
  <2> HIDE DEF size
  <2>1. b < from /\ b \in Int BY <1>1 DEF size
  <2>2. DOMAIN w = DOMAIN file \cup from .. (from + Len(bytes) - 1) BY DEF Written
  <2>3. b \in DOMAIN file BY <2>1, <2>2
  <2>4. w[b] = file[b] BY <2>1, <2>3, KeptElsewhere
  <2> QED BY <1>1, <2>3, <2>4 DEF HeaderOK, size
<1> HIDE DEF w
<1>2. HeaderOK(w, id) BY <1>1 DEF HeaderOK
<1> QED BY <1>2 DEF w

------------------------------------------------------------------------------
(* The steps *)

LEMMA ClosedKept ==
  ASSUME program' = program, ClosedInv,
         \A i \in Ids : complete'[i] # -1 => complete'[i] = complete[i] /\ fs'[i] = fs[i]
  PROVE  ClosedInv'
<1>1. Ids' = Ids BY LayoutFixed
<1>2. ASSUME NEW i \in Ids, complete'[i] # -1
      PROVE  \E p \in Jobs : Whole(fs[i], p, i, complete[i])'
  <2>1. complete'[i] = complete[i] /\ fs'[i] = fs[i] BY <1>2
  <2>2. PICK p \in Jobs : Whole(fs[i], p, i, complete[i]) BY <1>2, <2>1 DEF ClosedInv
  <2>3. Whole(fs'[i], p, i, complete'[i]) BY <2>1, <2>2
  <2> QED BY <2>3, ContentsFixed
<1> QED BY <1>1, <1>2 DEF ClosedInv

LEMMA HeaderKept ==
  ASSUME program' = program, HeaderInv, \A i \in Ids : HeaderOK(fs'[i], i)
  PROVE  HeaderInv'
<1>1. Ids' = Ids BY LayoutFixed
<1> QED BY <1>1 DEF HeaderInv, HeaderOK, HeaderByte

LEMMA OriginFixed ==
  ASSUME program' = program, n' = n, origin' = origin, complete' = complete,
         phase' = phase, writing' = writing, OriginInv
  PROVE  OriginInv'
BY LayoutFixed DEF OriginInv

(* While a file is written.                                                *)
LEMMA WritingStep ==
  ASSUME CheckpointInv, phase = "writing", NEW r \in Rank(procs), NEW w, NEW x,
         DOMAIN fs' = Ids, \A i \in Ids : fs'[i] = IF i = writing THEN w ELSE fs[i],
         next' = [next EXCEPT ![r] = x],
         Keeps(fs[writing], w, procs, writing, now), HeaderOK(w, writing),
         Progress(w, procs, writing, now, r, x),
         UNCHANGED <<program, procs, runs, phase, now, n, writing, got, complete, origin>>
  PROVE  CheckpointInv'
<1>1. TypeInv /\ WritingInv /\ ClosedInv /\ HeaderInv /\ OriginInv BY DEF CheckpointInv
<1>2. /\ writing \in Ids /\ complete[writing] = -1 /\ DOMAIN fs = Ids
      /\ DOMAIN next = Rank(procs) /\ complete \in [Ids -> -1 .. MaxTime]
  BY <1>1 DEF TypeInv
<1>3. TypeInv' BY <1>1, <1>2, LayoutFixed DEF TypeInv
<1>4. WritingInv'
  <2>1. ASSUME NEW q \in Rank(procs)
        PROVE  Progress(fs[writing], procs, writing, now, q, next[q])'
    <3>1. fs'[writing] = w BY <1>2
    <3>2. Progress(w, procs, writing, now, q, next'[q])
      <4>1. CASE q = r
        <5>1. next'[q] = x BY <1>2, <4>1
        <5> QED BY <4>1, <5>1
      <4>2. CASE q # r
        <5>1. next'[q] = next[q] BY <1>2, <4>2
        <5>2. Progress(fs[writing], procs, writing, now, q, next[q]) BY <1>1 DEF WritingInv
        <5>3. Progress(w, procs, writing, now, q, next[q]) BY <5>2, ProgressKept
        <5> QED BY <5>1, <5>3
      <4> QED BY <4>1, <4>2
    <3>3. Progress(fs'[writing'], procs', writing', now', q, next'[q]) BY <3>1, <3>2
    <3> QED BY <3>3, ContentsFixed
  <2> QED BY <2>1 DEF WritingInv
<1>5. ClosedInv'
  <2>1. \A i \in Ids : complete'[i] # -1 => complete'[i] = complete[i] /\ fs'[i] = fs[i]
    BY <1>2
  <2> QED BY <1>1, <2>1, ClosedKept
<1>6. HeaderInv'
  <2>1. \A i \in Ids : HeaderOK(fs'[i], i)
    <3>1. ASSUME NEW i \in Ids PROVE HeaderOK(fs'[i], i)
      <4>1. HeaderOK(fs[i], i) BY <1>1 DEF HeaderInv
      <4>2. i = writing => fs'[i] = w BY <1>2
      <4>3. i # writing => fs'[i] = fs[i] BY <1>2
      <4> QED BY <4>1, <4>2, <4>3
    <3> QED BY <3>1
  <2> QED BY <1>1, <2>1, HeaderKept
<1>7. OriginInv' BY <1>1, OriginFixed
<1> QED BY <1>3, <1>4, <1>5, <1>6, <1>7 DEF CheckpointInv

LEMMA WriteFrontStep ==
  ASSUME CheckpointInv, NEW r \in Rank(procs), WriteFront(r) PROVE CheckpointInv'
<1> DEFINE x == next[r]
           bytes == Front(procs, writing, now)[x.part]
           file == fs[writing]
           w == Written(file, x.offset, bytes)
           y == [section |-> IF x.part < 3 THEN 0 ELSE 1, object |-> 1,
                 part |-> IF x.part < 3 THEN x.part + 1 ELSE 1, offset |-> x.offset + Len(bytes)]
<1>1. /\ phase = "writing" /\ x.section = 0
      /\ fs' = [fs EXCEPT ![writing] = w] /\ next' = [next EXCEPT ![r] = y]
      /\ UNCHANGED <<program, procs, runs, phase, now, n, writing, got, complete, origin>>
  BY DEF WriteFront
<1>2. /\ TypeInv /\ program \in Programs /\ procs \in Jobs /\ writing \in Ids
      /\ now \in 0 .. MaxTime /\ HeaderOK(file, writing)
  BY <1>1 DEF CheckpointInv, TypeInv, HeaderInv
<1>3. Progress(file, procs, writing, now, r, x) BY <1>1 DEF CheckpointInv, WritingInv
<1>4. OnPath(procs, writing, x) BY <1>3 DEF Progress
<1>5. x.object = 1 /\ x.part \in 1 .. 3 /\ x.offset = FrontStart(writing, x.part)
  BY <1>1, <1>4 DEF OnPath
<1>6. /\ FrontHolds(w, procs, writing, now, x.part)
      /\ Keeps(file, w, procs, writing, now)
  BY <1>2, <1>5, FrontWritten
<1>7. HeaderOK(w, writing) BY <1>2, <1>5, HeaderWritten
<1>8. x.offset + Len(bytes) = FrontStart(writing, x.part + 1)
  <2> HIDE DEF x
  <2>1. FrontStart(writing, x.part + 1) = FrontStart(writing, x.part) + Len(bytes)
    BY <1>2, <1>5, FrontIs
  <2> QED BY <1>5, <2>1
<1>9. FrontStart(writing, 4) = SectionStart(procs, writing, 1) BY <1>2, <1>5, FrontIs
<1>10. Progress(w, procs, writing, now, r, x) BY <1>3, <1>6, ProgressKept
<1> HIDE DEF w, bytes, file
<1>11. OnPath(procs, writing, y)
  <2>1. CASE x.part < 3
    <3>1. /\ y.section = 0 /\ y.object = 1 /\ y.part = x.part + 1
          /\ y.offset = FrontStart(writing, x.part + 1)
      BY <1>8, <2>1
    <3>2. x.part + 1 \in 1 .. 3 BY <1>5, <2>1
    <3> HIDE DEF y
    <3> QED BY <3>1, <3>2 DEF OnPath
  <2>2. CASE ~(x.part < 3)
    <3>1. x.part = 3 BY <1>5, <2>2
    <3>2. y = [section |-> 1, object |-> 1, part |-> 1, offset |-> SectionStart(procs, writing, 1)]
      BY <1>8, <1>9, <3>1
    <3>3. Sections[1] \in Kinds /\ SectionStart(procs, writing, 1) \in Nat BY <1>2, SectionsInFile
    <3>4. Len(Objects(Sections[1])) \in Nat /\ SizeOfObjects(procs, Sections[1], 0) = 0
      BY <1>2, <3>3, ObjectsAre, ObjectsInKind
    <3>5. 1 \in 1 .. (Len(Objects(Sections[1])) + 1) /\ 1 \in 1 .. 3 /\ 1 - 1 = 0 BY <3>4
    <3>6. OnPath(procs, writing, [section |-> 1, object |-> 1, part |-> 1,
            offset |-> SectionStart(procs, writing, 1) + SizeOfObjects(procs, Sections[1], 1 - 1)])
      BY <1>2, <3>5, Arrives
    <3>7. SectionStart(procs, writing, 1) + SizeOfObjects(procs, Sections[1], 1 - 1)
            = SectionStart(procs, writing, 1)
      BY <3>3, <3>4, <3>5
    <3> QED BY <3>2, <3>6, <3>7
  <2> QED BY <2>1, <2>2
<1>12. ASSUME NEW i \in 1 .. 3, FrontPast(y, i) PROVE FrontHolds(w, procs, writing, now, i)
  <2>1. i < x.part \/ i = x.part BY <1>5, <1>12 DEF FrontPast
  <2>2. CASE i < x.part
    <3>1. FrontPast(x, i) BY <2>2 DEF FrontPast
    <3> QED BY <1>10, <3>1 DEF Progress
  <2> QED BY <1>6, <2>1, <2>2
<1>13. ASSUME NEW s, NEW j, NEW i, IsPiece(procs, s, j, i), Past(y, s, j, i) PROVE FALSE
  <2>1. Len(Objects(Sections[s])) \in Nat /\ Len(Parts(Sections[s], procs)) \in Nat
    BY <1>2, <1>13, PieceIs
  <2>2. s \in 1 .. 3 /\ j \in Nat /\ i \in Nat /\ 1 <= j /\ 1 <= i BY <1>13, <2>1 DEF IsPiece
  <2>3. y.section \in 0 .. 1 /\ y.object = 1 /\ (y.section = 1 => y.part = 1) OBVIOUS
  <2>4. s < y.section \/ (s = y.section /\ (j < y.object \/ (j = y.object /\ i < y.part)))
    BY <1>13 DEF Past, Precedes
  <2> HIDE DEF y
  <2> QED BY <2>2, <2>3, <2>4
<1> HIDE DEF y
<1>14. Progress(w, procs, writing, now, r, y) BY <1>11, <1>12, <1>13 DEF Progress
<1>15. DOMAIN fs' = Ids /\ \A i \in Ids : fs'[i] = IF i = writing THEN w ELSE fs[i]
  BY <1>1, <1>2 DEF TypeInv
<1> QED BY <1>1, <1>6, <1>7, <1>14, <1>15, WritingStep DEF file

LEMMA WritePieceStep ==
  ASSUME CheckpointInv, NEW r \in Rank(procs), WritePiece(r) PROVE CheckpointInv'
<1> DEFINE x == next[r]
           s == x.section
           j == x.object
           i == x.part
           file == fs[writing]
           from == x.offset + At(procs, Sections[s], NameAt(s, j), PartAt(procs, s, i), r)
           w == Written(file, from, Piece(procs, s, j, i, r, now))
           y == [section |-> s,
                 object |-> IF i = Len(Parts(Sections[s], procs)) THEN j + 1 ELSE j,
                 part |-> IF i = Len(Parts(Sections[s], procs)) THEN 1 ELSE i + 1,
                 offset |-> x.offset + PartSize(procs, Sections[s], NameAt(s, j), PartAt(procs, s, i))]
<1>1. /\ phase = "writing" /\ s # 0 /\ j <= Len(Objects(Sections[s]))
      /\ fs' = [fs EXCEPT ![writing] = w] /\ next' = [next EXCEPT ![r] = y]
      /\ UNCHANGED <<program, procs, runs, phase, now, n, writing, got, complete, origin>>
  BY DEF WritePiece, NameAt, PartAt, Piece
<1>2. /\ TypeInv /\ program \in Programs /\ procs \in Jobs /\ writing \in Ids
      /\ now \in 0 .. MaxTime /\ HeaderOK(file, writing)
  BY <1>1 DEF CheckpointInv, TypeInv, HeaderInv
<1>3. Progress(file, procs, writing, now, r, x) BY <1>1 DEF CheckpointInv, WritingInv
<1>4. OnPath(procs, writing, x) BY <1>3 DEF Progress
<1>5. IsPiece(procs, s, j, i) /\ x.offset = Start(procs, writing, s, j, i)
  <2>1. s \in 1 .. 3 BY <1>1, <1>4 DEF OnPath
  <2>2. Sections[s] \in Kinds BY <1>2, <2>1, SectionsInFile
  <2>3. Len(Objects(Sections[s])) \in Nat BY <1>2, <2>2, ObjectsAre
  <2>4. j # Len(Objects(Sections[s])) + 1 BY <1>1, <2>3
  <2> QED BY <1>1, <1>4, <2>4 DEF OnPath
<1>6. from = PieceStart(procs, writing, s, j, i, r) BY <1>5 DEF PieceStart, PieceAt
<1>7. y = Follows(procs, writing, s, j, i) BY <1>5 DEF Follows
<1> HIDE DEF x, from, y, file
<1>8. PieceHolds(w, procs, writing, now, s, j, i, r) /\ Keeps(file, w, procs, writing, now)
  BY <1>2, <1>5, <1>6, PieceWritten
<1>9. HeaderOK(w, writing)
  <2>1. /\ SizeOf.checkpoint \in Nat /\ SizeOf.uint \in Nat /\ ParamSize[writing] \in Nat
        /\ SectionStart(procs, writing, 1) = SizeOf.checkpoint + SizeOf.uint + ParamSize[writing]
    BY <1>2, SectionsInFile
  <2>2. /\ from \in Nat /\ Start(procs, writing, s, j, i) \in Nat
        /\ SectionStart(procs, writing, s) <= Start(procs, writing, s, j, i)
        /\ Start(procs, writing, s, j, i) <= from
    BY <1>2, <1>5, <1>6, Within
  <2>3. s \in 1 .. 4 /\ 1 \in 1 .. 4 /\ 1 <= s BY <1>5 DEF IsPiece
  <2>4. /\ SectionStart(procs, writing, 1) <= SectionStart(procs, writing, s)
        /\ SectionStart(procs, writing, s) \in Nat
    BY <1>2, <2>3, SectionsAscend, SectionsInFile
  <2>5. SizeOf.checkpoint <= from BY <2>1, <2>2, <2>4
  <2>6. Len(Piece(procs, s, j, i, r, now)) \in Nat BY <1>2, <1>5, PieceBytes
  <2> QED BY <1>2, <2>1, <2>2, <2>5, <2>6, HeaderLeft
<1>10. Progress(w, procs, writing, now, r, x) BY <1>3, <1>8, ProgressKept
<1> HIDE DEF w
<1>11. OnPath(procs, writing, y) BY <1>2, <1>5, <1>7, Onwards
<1>12. ASSUME NEW k \in 1 .. 3 PROVE FrontHolds(w, procs, writing, now, k)
  <2>1. FrontPast(x, k) BY <1>1 DEF FrontPast
  <2> QED BY <1>10, <2>1 DEF Progress
<1>13. ASSUME NEW s2, NEW j2, NEW i2, IsPiece(procs, s2, j2, i2), Past(y, s2, j2, i2)
       PROVE  PieceHolds(w, procs, writing, now, s2, j2, i2, r)
  <2>1. Precedes(s2, j2, i2, s, j, i) \/ (s2 = s /\ j2 = j /\ i2 = i)
    BY <1>2, <1>5, <1>7, <1>13, NothingSkipped
  <2>2. CASE Precedes(s2, j2, i2, s, j, i)
    <3>1. Past(x, s2, j2, i2) BY <2>2 DEF Past
    <3> QED BY <1>10, <1>13, <3>1 DEF Progress
  <2> QED BY <1>8, <2>1, <2>2
<1>14. Progress(w, procs, writing, now, r, y) BY <1>11, <1>12, <1>13 DEF Progress
<1>15. DOMAIN fs' = Ids /\ \A k \in Ids : fs'[k] = IF k = writing THEN w ELSE fs[k]
  BY <1>1, <1>2 DEF TypeInv
<1> QED BY <1>1, <1>8, <1>9, <1>14, <1>15, WritingStep DEF file

LEMMA NextSectionStep ==
  ASSUME CheckpointInv, NEW r \in Rank(procs), NextSection(r) PROVE CheckpointInv'
<1> DEFINE x == next[r]
           s == x.section
           file == fs[writing]
           y == [section |-> s + 1, object |-> 1, part |-> 1, offset |-> x.offset]
<1>1. /\ phase = "writing" /\ s # 0 /\ x.object > Len(Objects(Sections[s])) /\ s < 3
      /\ next' = [next EXCEPT ![r] = y] /\ fs' = fs
      /\ UNCHANGED <<program, procs, runs, phase, now, n, writing, got, complete, origin>>
  BY DEF NextSection, AtEnd
<1>2. /\ TypeInv /\ program \in Programs /\ procs \in Jobs /\ writing \in Ids
      /\ DOMAIN fs = Ids /\ HeaderOK(file, writing)
  BY <1>1 DEF CheckpointInv, TypeInv, HeaderInv
<1>3. Progress(file, procs, writing, now, r, x) BY <1>1 DEF CheckpointInv, WritingInv
<1>4. OnPath(procs, writing, x) BY <1>3 DEF Progress
<1>5. s \in 1 .. 2 /\ x.object \in Nat BY <1>1, <1>4 DEF OnPath
<1>6. x.offset = SectionStart(procs, writing, s + 1)
  <2>1. Sections[s] \in Kinds BY <1>2, <1>5, SectionsInFile
  <2>2. Len(Objects(Sections[s])) \in Nat BY <1>2, <2>1, ObjectsAre
  <2>3. ~IsPiece(procs, s, x.object, x.part) BY <1>1, <2>2 DEF IsPiece
  <2> QED BY <1>1, <1>4, <2>3 DEF OnPath
<1>7. OnPath(procs, writing, y)
  <2>1. /\ s + 1 \in 1 .. 3 /\ Sections[s + 1] \in Kinds
        /\ SectionStart(procs, writing, s + 1) \in Nat
    <3>1. s + 1 \in 1 .. 3 /\ s + 1 \in 1 .. 4 BY <1>5
    <3> QED BY <1>2, <3>1, SectionsInFile
  <2>2. Len(Objects(Sections[s + 1])) \in Nat /\ SizeOfObjects(procs, Sections[s + 1], 0) = 0
    BY <1>2, <2>1, ObjectsAre, ObjectsInKind
  <2>3. 1 \in 1 .. (Len(Objects(Sections[s + 1])) + 1) /\ 1 - 1 = 0 BY <2>2
  <2>4. OnPath(procs, writing, [section |-> s + 1, object |-> 1, part |-> 1,
          offset |-> SectionStart(procs, writing, s + 1)
                       + SizeOfObjects(procs, Sections[s + 1], 1 - 1)])
    BY <1>2, <2>1, <2>3, Arrives
  <2>5. SectionStart(procs, writing, s + 1) + SizeOfObjects(procs, Sections[s + 1], 1 - 1) = x.offset
    BY <1>6, <2>1, <2>2, <2>3
  <2> QED BY <2>4, <2>5
<1>8. ASSUME NEW i \in 1 .. 3 PROVE FrontHolds(file, procs, writing, now, i)
  <2>1. FrontPast(x, i) BY <1>1 DEF FrontPast
  <2> QED BY <1>3, <2>1 DEF Progress
<1>9. ASSUME NEW s2, NEW j2, NEW i2, IsPiece(procs, s2, j2, i2), Past(y, s2, j2, i2)
      PROVE  PieceHolds(file, procs, writing, now, s2, j2, i2, r)
  <2>1. Len(Objects(Sections[s2])) \in Nat /\ Len(Parts(Sections[s2], procs)) \in Nat
    BY <1>2, <1>9, PieceIs
  <2>2. s2 \in 1 .. 3 /\ j2 \in Nat /\ i2 \in Nat /\ 1 <= j2 /\ 1 <= i2
    BY <1>9, <2>1 DEF IsPiece
  <2>3. y.section = s + 1 /\ y.object = 1 /\ y.part = 1 OBVIOUS
  <2>4. s2 < y.section \/ (s2 = y.section /\ (j2 < y.object \/ (j2 = y.object /\ i2 < y.part)))
    BY <1>9 DEF Past, Precedes
  <2> HIDE DEF y, x
  <2>5. s2 <= s BY <1>5, <2>2, <2>3, <2>4
  <2>6. s \in 1 .. 3 BY <1>5
  <2>7. Past(x, s2, j2, i2) BY <1>1, <1>2, <1>5, <1>9, <2>5, <2>6, SectionPassed
  <2> QED BY <1>3, <1>9, <2>7 DEF Progress
<1> HIDE DEF y
<1>10. Progress(file, procs, writing, now, r, y) BY <1>7, <1>8, <1>9 DEF Progress
<1>11. Keeps(file, file, procs, writing, now) BY DEF Keeps
<1>12. DOMAIN fs' = Ids /\ \A i \in Ids : fs'[i] = IF i = writing THEN file ELSE fs[i]
  BY <1>1, <1>2
<1> QED BY <1>1, <1>2, <1>10, <1>11, <1>12, WritingStep

LEMMA CloseFileStep ==
  ASSUME CheckpointInv, CloseFile PROVE CheckpointInv'
<1>1. /\ phase = "writing" /\ phase' = "running"
      /\ \A r \in Rank(procs) : AtEnd(r) /\ next[r].section = 3
      /\ complete' = [complete EXCEPT ![writing] = now] /\ writing' = -1
      /\ next' = Begin(procs)
      /\ UNCHANGED <<program, procs, runs, now, n, fs, got, origin>>
  BY DEF CloseFile
<1>2. TypeInv /\ WritingInv /\ ClosedInv /\ HeaderInv /\ OriginInv BY DEF CheckpointInv
<1>3. /\ program \in Programs /\ procs \in Jobs /\ writing \in Ids
      /\ now \in 0 .. MaxTime /\ complete \in [Ids -> -1 .. MaxTime] /\ complete[writing] = -1
  BY <1>1, <1>2 DEF TypeInv
<1>4. TypeInv'
  <2>1. complete' \in [Ids -> -1 .. MaxTime] BY <1>1, <1>3, CheckpointAssumption
  <2>2. DOMAIN next' = Rank(procs) BY <1>1 DEF Begin
  <2> QED BY <1>1, <1>2, <2>1, <2>2, LayoutFixed DEF TypeInv
<1>5. WritingInv' BY <1>1 DEF WritingInv
<1>6. ClosedInv'
  <2>1. ASSUME NEW r \in Rank(procs)
        PROVE  /\ \A i \in 1 .. 3 : FrontHolds(fs[writing], procs, writing, now, i)
               /\ \A s, j, i : IsPiece(procs, s, j, i) =>
                    PieceHolds(fs[writing], procs, writing, now, s, j, i, r)
    <3> DEFINE x == next[r]
    <3>1. Progress(fs[writing], procs, writing, now, r, x) BY <1>1, <1>2 DEF WritingInv
    <3>2. x.section = 3 /\ x.object > Len(Objects(Sections[x.section])) BY <1>1 DEF AtEnd
    <3>3. OnPath(procs, writing, x) BY <3>1 DEF Progress
    <3>4. x.object \in Nat BY <3>3 DEF OnPath
    <3> HIDE DEF x
    <3>5. \A i \in 1 .. 3 : FrontPast(x, i) BY <3>2 DEF FrontPast
    <3>6. ASSUME NEW s, NEW j, NEW i, IsPiece(procs, s, j, i) PROVE Past(x, s, j, i)
      <4>1. s \in 1 .. 3 /\ x.section \in 1 .. 3 /\ s <= x.section BY <3>2, <3>6 DEF IsPiece
      <4> QED BY <1>3, <3>2, <3>4, <3>6, <4>1, SectionPassed
    <3> QED BY <3>1, <3>5, <3>6 DEF Progress
  <2>2. Rank(procs) # {} BY <1>3, CheckpointAssumption DEF Rank
  <2>3. Whole(fs[writing], procs, writing, now) BY <2>1, <2>2 DEF Whole
  <2>4. ASSUME NEW i \in Ids, complete'[i] # -1
        PROVE  \E p \in Jobs : Whole(fs[i], p, i, complete[i])'
    <3>1. CASE i = writing
      <4>1. complete'[i] = now BY <1>1, <1>3, <3>1
      <4>2. Whole(fs'[i], procs, i, complete'[i]) BY <1>1, <2>3, <3>1, <4>1
      <4> QED BY <1>1, <1>3, <4>2, ContentsFixed
    <3>2. CASE i # writing
      <4>1. complete'[i] = complete[i] BY <1>1, <1>3, <3>2
      <4>2. PICK p \in Jobs : Whole(fs[i], p, i, complete[i]) BY <1>2, <2>4, <4>1 DEF ClosedInv
      <4>3. Whole(fs'[i], p, i, complete'[i]) BY <1>1, <4>1, <4>2
      <4> QED BY <1>1, <4>3, ContentsFixed
    <3> QED BY <3>1, <3>2
  <2>5. Ids' = Ids BY <1>1, LayoutFixed
  <2> QED BY <2>4, <2>5 DEF ClosedInv
<1>7. HeaderInv'
  <2>1. \A i \in Ids : HeaderOK(fs'[i], i) BY <1>1, <1>2 DEF HeaderInv
  <2> QED BY <1>1, <1>2, <2>1, HeaderKept
<1>8. OriginInv'
  <2>1. Ids' = Ids BY <1>1, LayoutFixed
  <2>2. Ids \subseteq Int BY DEF Ids
  <2> QED BY <1>1, <1>2, <1>3, <2>1, <2>2 DEF OriginInv
<1> QED BY <1>4, <1>5, <1>6, <1>7, <1>8 DEF CheckpointInv

LEMMA StartWriteStep ==
  ASSUME CheckpointInv, StartWrite PROVE CheckpointInv'
<1>1. /\ phase = "running" /\ n \in Ids /\ phase' = "writing" /\ writing' = n /\ n' = n + 1
      /\ complete' = [complete EXCEPT ![n] = -1] /\ got' = None
      /\ UNCHANGED <<program, procs, runs, now, fs, next, origin>>
  BY DEF StartWrite, NextId
<1>2. TypeInv /\ WritingInv /\ ClosedInv /\ HeaderInv /\ OriginInv BY DEF CheckpointInv
<1>3. /\ complete \in [Ids -> -1 .. MaxTime] /\ next = Begin(procs) /\ n \in Nat /\ procs \in Jobs
  BY <1>1, <1>2 DEF TypeInv
<1>4. Ids' = Ids BY <1>1, LayoutFixed
<1>5. TypeInv'
  <2>1. complete' \in [Ids -> -1 .. MaxTime] /\ complete'[n] = -1
    BY <1>1, <1>3, CheckpointAssumption
  <2>2. n' \in Nat BY <1>1, <1>3
  <2> QED BY <1>1, <1>2, <1>4, <2>1, <2>2 DEF TypeInv
<1>6. WritingInv'
  <2>1. ASSUME NEW q \in Rank(procs)
        PROVE  Progress(fs[writing], procs, writing, now, q, next[q])'
    <3>1. Progress(fs'[writing'], procs', writing', now', q, next'[q])
      BY <1>1, <1>3, AtBegin
    <3> QED BY <1>1, <3>1, ContentsFixed
  <2> QED BY <1>1, <2>1 DEF WritingInv
<1>7. ClosedInv'
  <2>1. \A i \in Ids : complete'[i] # -1 => complete'[i] = complete[i] /\ fs'[i] = fs[i]
    BY <1>1, <1>3
  <2> QED BY <1>1, <1>2, <2>1, ClosedKept
<1>8. HeaderInv'
  <2>1. \A i \in Ids : HeaderOK(fs'[i], i) BY <1>1, <1>2 DEF HeaderInv
  <2> QED BY <1>1, <1>2, <2>1, HeaderKept
<1>9. OriginInv'
  <2>1. SUFFICES ASSUME program.careful, origin # None
                 PROVE  /\ origin.id \in Ids /\ n' > origin.id
                        /\ complete'[origin.id] = origin.t
                        /\ writing' > origin.id
    BY <1>1, <1>4 DEF OriginInv
  <2>2. origin.id \in Ids /\ n > origin.id /\ complete[origin.id] = origin.t
    BY <1>2, <2>1 DEF OriginInv
  <2>3. origin.id \in Int /\ n \in Int BY <1>3, <2>2 DEF Ids
  <2>4. complete'[origin.id] = complete[origin.id] BY <1>1, <1>3, <2>2, <2>3
  <2> QED BY <1>1, <2>2, <2>3, <2>4
<1> QED BY <1>5, <1>6, <1>7, <1>8, <1>9 DEF CheckpointInv

(* The header of a file names its id.                                      *)
LEMMA HeaderNamesFile ==
  ASSUME program \in Programs, NEW i, NEW file, HeaderOK(file, i), NEW h \in Opened(file)
  PROVE  h.id = i /\ h \in Headers
<1> DEFINE size == SizeOf.checkpoint
<1>1. /\ h \in Headers
      /\ ReadAt(file, 0, size) = Bytes(<<"checkpoint", h.p, h.id, h.t>>, size)
  BY DEF Opened
<1>2. size \in Nat /\ size > 0 BY CheckpointAssumption DEF Sized
<1> HIDE DEF size
<1>3. 1 \in 1 .. size /\ 0 + 1 - 1 = 0 /\ 0 \in 0 .. (size - 1) BY <1>2
<1>4. Bytes(<<"checkpoint", h.p, h.id, h.t>>, size)[1] = << <<"checkpoint", h.p, h.id, h.t>>, 1>>
  BY <1>2, <1>3, BytesAre
<1>5. ReadAt(file, 0, size)[1] = IF 0 \in DOMAIN file THEN file[0] ELSE Hole
  BY <1>3 DEF ReadAt
<1>6. << <<"checkpoint", h.p, h.id, h.t>>, 1>> # Hole
  <2>1. Len(<< <<"checkpoint", h.p, h.id, h.t>>, 1>>) = 2 /\ Len(Hole) = 1 BY DEF Hole
  <2> QED BY <2>1
<1>7. 0 \in DOMAIN file /\ file[0] = << <<"checkpoint", h.p, h.id, h.t>>, 1>>
  BY <1>1, <1>4, <1>5, <1>6
<1>8. file[0] \in HeaderByte(i, 0) BY <1>3, <1>7 DEF HeaderOK, size
<1>9. PICK p \in Jobs, t \in 0 .. MaxTime : file[0] = << <<"checkpoint", p, i, t>>, 0 + 1>>
  BY <1>8 DEF HeaderByte
<1>10. << <<"checkpoint", h.p, h.id, h.t>>, 1>>[1] = << <<"checkpoint", p, i, t>>, 0 + 1>>[1]
  BY <1>7, <1>9
<1>11. <<"checkpoint", h.p, h.id, h.t>> = <<"checkpoint", p, i, t>> BY <1>10
<1>12. h.id = i BY <1>11
<1> QED BY <1>1, <1>12

LEMMA HeaderFound ==
  ASSUME program \in Programs, NEW i, NEW file, HeaderOK(file, i), Opened(file) # {}
  PROVE  Header(file) \in Opened(file) /\ Header(file).id = i /\ Header(file) \in Headers
<1>1. Header(file) \in Opened(file) BY DEF Header
<1> QED BY <1>1, HeaderNamesFile

LEMMA FailStep ==
  ASSUME CheckpointInv, Fail PROVE CheckpointInv'
<1>1. /\ phase' = "down" /\ writing' = -1 /\ next' = Begin(procs) /\ got' = None /\ origin' = None
      /\ UNCHANGED <<program, procs, runs, now, n, fs, complete>>
  BY DEF Fail
<1>2. TypeInv /\ ClosedInv /\ HeaderInv BY DEF CheckpointInv
<1>3. TypeInv'
  <2>1. DOMAIN next' = Rank(procs) BY <1>1 DEF Begin
  <2> QED BY <1>1, <1>2, <2>1, LayoutFixed DEF TypeInv
<1>4. WritingInv' BY <1>1 DEF WritingInv
<1>5. ClosedInv'
  <2>1. \A i \in Ids : complete'[i] # -1 => complete'[i] = complete[i] /\ fs'[i] = fs[i] BY <1>1
  <2> QED BY <1>1, <1>2, <2>1, ClosedKept
<1>6. HeaderInv'
  <2>1. \A i \in Ids : HeaderOK(fs'[i], i) BY <1>1, <1>2 DEF HeaderInv
  <2> QED BY <1>1, <1>2, <2>1, HeaderKept
<1>7. OriginInv' BY <1>1 DEF OriginInv
<1> QED BY <1>3, <1>4, <1>5, <1>6, <1>7 DEF CheckpointInv

(* While the program runs and writes nothing.                              *)
LEMMA RunningStep ==
  ASSUME CheckpointInv, UNCHANGED <<program, procs, fs, writing, next, complete>>,
         phase' = phase, phase = "running", now' \in 0 .. MaxTime, n' \in Nat,
         got' # None => got'.id \in Ids /\ got'.kind \in Kinds \cup {"header"},
         OriginInv'
  PROVE  CheckpointInv'
<1>1. TypeInv /\ ClosedInv /\ HeaderInv BY DEF CheckpointInv
<1>2. TypeInv' BY <1>1, LayoutFixed DEF TypeInv
<1>3. WritingInv' BY DEF WritingInv
<1>4. ClosedInv'
  <2>1. \A i \in Ids : complete'[i] # -1 => complete'[i] = complete[i] /\ fs'[i] = fs[i] OBVIOUS
  <2> QED BY <1>1, <2>1, ClosedKept
<1>5. HeaderInv'
  <2>1. \A i \in Ids : HeaderOK(fs'[i], i) BY <1>1 DEF HeaderInv
  <2> QED BY <1>1, <2>1, HeaderKept
<1> QED BY <1>2, <1>3, <1>4, <1>5 DEF CheckpointInv

LEMMA RestartStep ==
  ASSUME CheckpointInv, Restart PROVE CheckpointInv'
<1>1. /\ phase = "down" /\ phase' = "running" /\ procs' \in Jobs /\ next' = Begin(procs') /\ n' = 0
      /\ UNCHANGED <<program, now, fs, writing, got, complete, origin>>
  BY DEF Restart
<1>2. TypeInv /\ ClosedInv /\ HeaderInv BY DEF CheckpointInv
<1>3. TypeInv'
  <2>1. DOMAIN next' = Rank(procs') BY <1>1 DEF Begin
  <2>2. got = None /\ origin = None BY <1>1, <1>2 DEF TypeInv
  <2> QED BY <1>1, <1>2, <2>1, <2>2, LayoutFixed DEF TypeInv
<1>4. WritingInv' BY <1>1 DEF WritingInv
<1>5. ClosedInv'
  <2>1. \A i \in Ids : complete'[i] # -1 => complete'[i] = complete[i] /\ fs'[i] = fs[i] BY <1>1
  <2> QED BY <1>1, <1>2, <2>1, ClosedKept
<1>6. HeaderInv'
  <2>1. \A i \in Ids : HeaderOK(fs'[i], i) BY <1>1, <1>2 DEF HeaderInv
  <2> QED BY <1>1, <1>2, <2>1, HeaderKept
<1>7. OriginInv' BY <1>1, <1>2 DEF OriginInv, TypeInv
<1> QED BY <1>3, <1>4, <1>5, <1>6, <1>7 DEF CheckpointInv

LEMMA LoadParametersystemStep ==
  ASSUME CheckpointInv, NEW i \in Ids, LoadParametersystem(i) PROVE CheckpointInv'
<1> DEFINE h == Header(fs[i])
<1>1. CASE Fail BY <1>1, FailStep
<1>2. CASE ~Fail
  <2>1. /\ phase = "running" /\ Opened(fs[i]) # {}
        /\ n' = IF program.careful THEN h.id + 1 ELSE h.id
        /\ now' = h.t /\ origin' = [id |-> i, t |-> complete[i]] /\ got' = None
        /\ UNCHANGED <<program, procs, runs, phase, fs, writing, next, complete>>
    BY <1>2 DEF LoadParametersystem, IdRead
  <2>2. TypeInv /\ HeaderInv BY DEF CheckpointInv
  <2>3. program \in Programs /\ i \in Nat BY <2>2 DEF TypeInv, Ids
  <2>4. HeaderOK(fs[i], i) BY <2>2 DEF HeaderInv
  <2>5. h.id = i /\ h \in Headers BY <2>1, <2>3, <2>4, HeaderFound
  <2>6. h.t \in 0 .. MaxTime BY <2>5 DEF Headers
  <2> HIDE DEF h
  <2>7. n' \in Nat /\ (program.careful => n' > i) BY <2>1, <2>3, <2>5
  <2>8. OriginInv' BY <2>1, <2>7, LayoutFixed DEF OriginInv
  <2> QED BY <2>1, <2>6, <2>7, <2>8, RunningStep
<1> QED BY <1>1, <1>2

LEMMA LoadStep ==
  ASSUME CheckpointInv, NEW i \in Ids, NEW kind \in Kinds, NEW names, Load(i, kind, names)
  PROVE  CheckpointInv'
<1>1. CASE Fail BY <1>1, FailStep
<1>2. CASE ~Fail
  <2>1. /\ phase = "running" /\ got'.id = i /\ got'.kind = kind
        /\ UNCHANGED <<program, procs, runs, phase, now, n, fs, writing, next, complete, origin>>
    BY <1>2 DEF Load
  <2>2. TypeInv /\ OriginInv BY DEF CheckpointInv
  <2>3. now \in 0 .. MaxTime /\ n \in Nat BY <2>2 DEF TypeInv
  <2>4. OriginInv' BY <2>1, <2>2, OriginFixed
  <2> QED BY <2>1, <2>3, <2>4, RunningStep
<1> QED BY <1>1, <1>2

LEMMA LoadHeaderStep ==
  ASSUME CheckpointInv, NEW i \in Ids, LoadHeader(i)
  PROVE  CheckpointInv'
<1>1. CASE Fail BY <1>1, FailStep
<1>2. CASE ~Fail
  <2>1. /\ phase = "running" /\ got'.id = i /\ got'.kind = "header"
        /\ UNCHANGED <<program, procs, runs, phase, now, n, fs, writing, next, complete, origin>>
    BY <1>2 DEF LoadHeader
  <2>2. TypeInv /\ OriginInv BY DEF CheckpointInv
  <2>3. now \in 0 .. MaxTime /\ n \in Nat BY <2>2 DEF TypeInv
  <2>4. OriginInv' BY <2>1, <2>2, OriginFixed
  <2> QED BY <2>1, <2>3, <2>4, RunningStep
<1> QED BY <1>1, <1>2

LEMMA ComputeStep ==
  ASSUME CheckpointInv, Compute PROVE CheckpointInv'
<1>1. /\ phase = "running" /\ now < MaxTime /\ now' = now + 1 /\ got' = None
      /\ UNCHANGED <<program, procs, runs, phase, n, fs, writing, next, complete, origin>>
  BY DEF Compute
<1>2. TypeInv /\ OriginInv BY DEF CheckpointInv
<1>3. now' \in 0 .. MaxTime /\ n \in Nat BY <1>1, <1>2, CheckpointAssumption DEF TypeInv
<1>4. OriginInv' BY <1>1, <1>2, OriginFixed
<1> QED BY <1>1, <1>3, <1>4, RunningStep

LEMMA ResetCounterStep ==
  ASSUME CheckpointInv, ResetCounter PROVE CheckpointInv'
<1>1. /\ phase = "running" /\ ~program.careful /\ n' = 0
      /\ UNCHANGED <<program, procs, runs, phase, now, fs, writing, next, got, complete, origin>>
  BY DEF ResetCounter
<1>2. TypeInv BY DEF CheckpointInv
<1>3. /\ now \in 0 .. MaxTime
      /\ got # None => got.id \in Ids /\ got.kind \in Kinds \cup {"header"}
  BY <1>2 DEF TypeInv
<1>4. OriginInv' BY <1>1 DEF OriginInv
<1> QED BY <1>1, <1>3, <1>4, RunningStep

LEMMA CheckpointInit == Init => CheckpointInv
<1>1. SUFFICES ASSUME Init PROVE CheckpointInv OBVIOUS
<1>2. TypeInv
  <2>1. DOMAIN next = Rank(procs) BY <1>1 DEF Init, Begin
  <2>2. complete \in [Ids -> -1 .. MaxTime] BY <1>1, CheckpointAssumption DEF Init
  <2>3. 0 \in 0 .. MaxTime BY CheckpointAssumption
  <2> QED BY <1>1, <2>1, <2>2, <2>3 DEF Init, TypeInv
<1>3. WritingInv BY <1>1 DEF Init, WritingInv
<1>4. ClosedInv BY <1>1 DEF Init, ClosedInv
<1>5. HeaderInv
  <2>1. \A i \in Ids : DOMAIN fs[i] = {} BY <1>1 DEF Init
  <2> QED BY <2>1 DEF HeaderInv, HeaderOK
<1>6. OriginInv BY <1>1 DEF Init, OriginInv
<1> QED BY <1>2, <1>3, <1>4, <1>5, <1>6 DEF CheckpointInv

LEMMA CheckpointStep == CheckpointInv /\ [Next]_vars => CheckpointInv'
<1>1. SUFFICES ASSUME CheckpointInv, [Next]_vars PROVE CheckpointInv' OBVIOUS
<1>2. CASE Compute BY <1>1, <1>2, ComputeStep
<1>3. CASE StartWrite BY <1>1, <1>3, StartWriteStep
<1>4. CASE CloseFile BY <1>1, <1>4, CloseFileStep
<1>5. CASE Crash
  <2>1. Fail BY <1>5 DEF Crash, Fail
  <2> QED BY <1>1, <2>1, FailStep
<1>6. CASE Restart BY <1>1, <1>6, RestartStep
<1>7. CASE ResetCounter BY <1>1, <1>7, ResetCounterStep
<1>8. ASSUME NEW r \in Rank(procs), WriteFront(r) PROVE CheckpointInv' BY <1>1, <1>8, WriteFrontStep
<1>9. ASSUME NEW r \in Rank(procs), WritePiece(r) PROVE CheckpointInv' BY <1>1, <1>9, WritePieceStep
<1>10. ASSUME NEW r \in Rank(procs), NextSection(r) PROVE CheckpointInv'
  BY <1>1, <1>10, NextSectionStep
<1>11. ASSUME NEW i \in Ids, LoadParametersystem(i) PROVE CheckpointInv'
  BY <1>1, <1>11, LoadParametersystemStep
<1>12. ASSUME NEW i \in Ids, LoadHeader(i) PROVE CheckpointInv' BY <1>1, <1>12, LoadHeaderStep
<1>13. ASSUME NEW i \in Ids, NEW kind \in Kinds, NEW names, Load(i, kind, names) PROVE CheckpointInv'
  BY <1>1, <1>13, LoadStep
<1>14. CASE UNCHANGED vars
  <2>1. TypeInv /\ WritingInv /\ ClosedInv /\ HeaderInv /\ OriginInv BY <1>1 DEF CheckpointInv
  <2>2. /\ program' = program /\ procs' = procs /\ phase' = phase /\ now' = now /\ n' = n
        /\ fs' = fs /\ writing' = writing /\ next' = next /\ got' = got
        /\ complete' = complete /\ origin' = origin
    BY <1>14 DEF vars
  <2>3. TypeInv' BY <2>1, <2>2, LayoutFixed DEF TypeInv
  <2>4. WritingInv'
    <3>1. ASSUME phase = "writing", NEW q \in Rank(procs)
          PROVE  Progress(fs[writing], procs, writing, now, q, next[q])'
      <4>1. Progress(fs'[writing'], procs', writing', now', q, next'[q])
        BY <2>1, <2>2, <3>1 DEF WritingInv
      <4> QED BY <2>2, <4>1, ContentsFixed
    <3> QED BY <2>2, <3>1 DEF WritingInv
  <2>5. ClosedInv'
    <3>1. \A i \in Ids : complete'[i] # -1 => complete'[i] = complete[i] /\ fs'[i] = fs[i] BY <2>2
    <3> QED BY <2>1, <2>2, <3>1, ClosedKept
  <2>6. HeaderInv'
    <3>1. \A i \in Ids : HeaderOK(fs'[i], i) BY <2>1, <2>2 DEF HeaderInv
    <3> QED BY <2>1, <2>2, <3>1, HeaderKept
  <2>7. OriginInv' BY <2>1, <2>2, OriginFixed
  <2> QED BY <2>3, <2>4, <2>5, <2>6, <2>7 DEF CheckpointInv
<1> QED BY <1>1, <1>2, <1>3, <1>4, <1>5, <1>6, <1>7, <1>8, <1>9, <1>10, <1>11, <1>12, <1>13, <1>14
        DEF Next

(* In every reachable state: what each rank has passed while a file is     *)
(* written stands in the file, at the offset every rank computed for       *)
(* itself; a closed file holds all of what some number of ranks wrote at   *)
(* one time; and the counter of a careful program is past the checkpoint   *)
(* it was restarted from.                                                  *)
THEOREM CheckpointInvariant == Spec => []CheckpointInv
BY CheckpointInit, CheckpointStep, PTL DEF Spec

(* The checkpoint a careful program was restarted from stays as it was, so *)
(* that the program can be restarted from it again after a crash in the    *)
(* middle of the next write.                                               *)
THEOREM OriginIsKept == Spec => []OriginKept
<1>1. CheckpointInv => OriginKept BY DEF CheckpointInv, OriginInv, OriginKept
<1> QED BY <1>1, CheckpointInvariant, PTL

------------------------------------------------------------------------------
(* A closed file *)

LEMMA BytesDiffer ==
  ASSUME NEW a, NEW c, NEW size \in Nat, size > 0, Bytes(a, size) = Bytes(c, size)
  PROVE  a = c
<1>1. 1 \in 1 .. size OBVIOUS
<1>2. Bytes(a, size)[1] = <<a, 1>> /\ Bytes(c, size)[1] = <<c, 1>> BY <1>1, BytesAre
<1>3. <<a, 1>> = <<c, 1>> BY <1>2
<1>4. <<a, 1>>[1] = <<c, 1>>[1] BY <1>3
<1> QED BY <1>4

LEMMA HeldByte ==
  ASSUME NEW file, NEW from \in Int, NEW bytes, Len(bytes) \in Nat, Holds(file, from, bytes),
         NEW b \in Int, from <= b, b < from + Len(bytes)
  PROVE  b \in DOMAIN file /\ b - from + 1 \in 1 .. Len(bytes) /\ file[b] = bytes[b - from + 1]
<1>1. b - from + 1 \in 1 .. Len(bytes) /\ from + (b - from + 1) - 1 = b OBVIOUS
<1>2. /\ from + (b - from + 1) - 1 \in DOMAIN file
      /\ file[from + (b - from + 1) - 1] = bytes[b - from + 1]
  BY <1>1 DEF Holds
<1> QED BY <1>1, <1>2

(* It has one header.                                                      *)
LEMMA WholeOpens ==
  ASSUME program \in Programs, NEW p \in Jobs, NEW id \in Ids, NEW t \in 0 .. MaxTime, NEW file,
         Whole(file, p, id, t)
  PROVE  /\ Header(file) = [p |-> p, id |-> id, t |-> t]
         /\ Header(file).p = p /\ Header(file).id = id /\ Header(file).t = t
<1> DEFINE size == SizeOf.checkpoint
           bytes == Bytes(<<"checkpoint", p, id, t>>, size)
           h == [p |-> p, id |-> id, t |-> t]
<1>1. size \in Nat /\ size > 0 BY CheckpointAssumption DEF Sized
<1>2. Holds(file, 0, bytes)
  <2>1. FrontHolds(file, p, id, t, 1) BY DEF Whole
  <2>2. FrontStart(id, 1) = 0 /\ Front(p, id, t)[1] = bytes BY DEF FrontStart, Front
  <2> HIDE DEF bytes
  <2> QED BY <2>1, <2>2 DEF FrontHolds
<1> HIDE DEF size
<1>3. Len(bytes) = size /\ bytes = [k \in 1 .. size |-> bytes[k]] BY <1>1, BytesAre
<1>4. ReadAt(file, 0, size) = bytes
  <2> HIDE DEF bytes
  <2> QED BY <1>1, <1>2, <1>3, HeldIsRead
<1>5. h \in Headers /\ h.p = p /\ h.id = id /\ h.t = t BY DEF Headers
<1>6. h \in Opened(file)
  <2> HIDE DEF h
  <2> QED BY <1>4, <1>5 DEF Opened, size
<1>7. ASSUME NEW g \in Opened(file) PROVE g = h
  <2>1. g \in Headers /\ ReadAt(file, 0, size) = Bytes(<<"checkpoint", g.p, g.id, g.t>>, size)
    BY <1>7 DEF Opened, size
  <2>2. Bytes(<<"checkpoint", g.p, g.id, g.t>>, size) = Bytes(<<"checkpoint", p, id, t>>, size)
    BY <1>4, <2>1
  <2>3. <<"checkpoint", g.p, g.id, g.t>> = <<"checkpoint", p, id, t>>
    BY <1>1, <2>2, BytesDiffer
  <2>4. g.p = p /\ g.id = id /\ g.t = t BY <2>3
  <2> QED BY <2>1, <2>4 DEF Headers
<1>8. Header(file) = h
  <2>1. Header(file) \in Opened(file) BY <1>6 DEF Header
  <2> QED BY <1>7, <2>1
<1> QED BY <1>5, <1>8

(* The time in a byte behind the front.                                    *)
Stamp(byte) == IF Len(byte) = 2 THEN byte[1][6] ELSE byte[5]

LEMMA PieceStamp ==
  ASSUME program \in Programs, NEW p \in Jobs, NEW s, NEW j, NEW i, IsPiece(p, s, j, i),
         NEW r \in Rank(p), NEW t, NEW k \in 1 .. PieceLength(p, s, j, i, r)
  PROVE  Stamp(Piece(p, s, j, i, r, t)[k]) = t
<1> DEFINE byte == Piece(p, s, j, i, r, t)[k]
<1>1. byte = IF PartAt(p, s, i) = "header"
             THEN << <<Sections[s], NameAt(s, j), "header", p, r, t>>, k>>
             ELSE <<Sections[s], NameAt(s, j), PartAt(p, s, i), PieceAt(p, s, j, i, r) + k, t>>
  BY PieceBytes
<1> HIDE DEF byte
<1>2. CASE PartAt(p, s, i) = "header"
  <2>1. byte = << <<Sections[s], NameAt(s, j), "header", p, r, t>>, k>> BY <1>1, <1>2
  <2>2. Len(byte) = 2 /\ byte[1] = <<Sections[s], NameAt(s, j), "header", p, r, t>> BY <2>1
  <2>3. byte[1][6] = t BY <2>2
  <2> QED BY <2>2, <2>3 DEF Stamp, byte
<1>3. CASE PartAt(p, s, i) # "header"
  <2>1. byte = <<Sections[s], NameAt(s, j), PartAt(p, s, i), PieceAt(p, s, j, i, r) + k, t>>
    BY <1>1, <1>3
  <2>2. Len(byte) = 5 /\ byte[5] = t BY <2>1
  <2> QED BY <2>2 DEF Stamp, byte
<1> QED BY <1>2, <1>3

LEMMA WholeIsDense ==
  ASSUME program \in Programs, NEW p \in Jobs, NEW id \in Ids, NEW t, NEW file,
         Whole(file, p, id, t), NEW b \in Nat, b < SectionStart(p, id, 4)
  PROVE  /\ b \in DOMAIN file
         /\ SectionStart(p, id, 1) <= b => Stamp(file[b]) = t
<1>1. SectionStart(p, id, 1) \in Nat BY SectionsInFile
<1>2. CASE b < SectionStart(p, id, 1)
  <2>1. /\ FrontStart(id, 1) \in Nat /\ FrontStart(id, 1 + 1) \in Nat
        /\ FrontStart(id, 2 + 1) \in Nat /\ FrontStart(id, 3 + 1) = SectionStart(p, id, 1)
    BY FrontIs
  <2>2. FrontStart(id, 1) = 0 BY DEF FrontStart
  <2>3. \E i \in 1 .. 3 : FrontStart(id, i) <= b /\ b < FrontStart(id, i + 1)
    <3>1. CASE b < FrontStart(id, 1 + 1) BY <2>2, <3>1
    <3>2. CASE FrontStart(id, 1 + 1) <= b /\ b < FrontStart(id, 2 + 1)
      <4>1. FrontStart(id, 2) <= b /\ b < FrontStart(id, 2 + 1) BY <3>2
      <4> QED BY <4>1
    <3>3. CASE FrontStart(id, 2 + 1) <= b
      <4>1. FrontStart(id, 3) <= b /\ b < FrontStart(id, 3 + 1) BY <1>2, <2>1, <3>3
      <4> QED BY <4>1
    <3> QED BY <2>1, <3>1, <3>2, <3>3
  <2>4. PICK i \in 1 .. 3 : FrontStart(id, i) <= b /\ b < FrontStart(id, i + 1) BY <2>3
  <2>5. Holds(file, FrontStart(id, i), Front(p, id, t)[i]) BY DEF Whole, FrontHolds
  <2>6. /\ Len(Front(p, id, t)[i]) \in Nat /\ FrontStart(id, i) \in Int
        /\ b < FrontStart(id, i) + Len(Front(p, id, t)[i])
    BY <2>4, FrontIs
  <2>7. b \in DOMAIN file BY <2>4, <2>5, <2>6, HeldByte
  <2> QED BY <1>1, <1>2, <2>7
<1>3. CASE SectionStart(p, id, 1) <= b
  <2>1. PICK s, j, i : \E r \in Rank(p) :
          /\ IsPiece(p, s, j, i)
          /\ PieceStart(p, id, s, j, i, r) <= b /\ b < PieceEnd(p, id, s, j, i, r)
    BY <1>3, Covered
  <2>2. PICK r \in Rank(p) :
          /\ IsPiece(p, s, j, i)
          /\ PieceStart(p, id, s, j, i, r) <= b /\ b < PieceEnd(p, id, s, j, i, r)
    BY <2>1
  <2> DEFINE from == PieceStart(p, id, s, j, i, r)
             bytes == Piece(p, s, j, i, r, t)
  <2>3. Len(bytes) = PieceLength(p, s, j, i, r) /\ Len(bytes) \in Nat BY <2>2, PieceBytes
  <2>4. from \in Int /\ from <= b /\ b < from + Len(bytes)
    <3>1. from \in Nat BY <2>2, Within
    <3> QED BY <2>2, <2>3, <3>1 DEF PieceEnd
  <2>5. Holds(file, from, bytes)
    <3>1. PieceHolds(file, p, id, t, s, j, i, r) BY <2>2 DEF Whole
    <3> QED BY <3>1 DEF PieceHolds
  <2> HIDE DEF from, bytes
  <2>6. b \in DOMAIN file /\ b - from + 1 \in 1 .. Len(bytes) /\ file[b] = bytes[b - from + 1]
    BY <2>3, <2>4, <2>5, HeldByte
  <2>7. Stamp(bytes[b - from + 1]) = t BY <2>2, <2>3, <2>6, PieceStamp DEF bytes
  <2> QED BY <2>6, <2>7
<1> QED BY <1>1, <1>2, <1>3

(* A file that was closed has no gap, and nothing in it is older than the  *)
(* time in its header: the ranks together have written all of it, for any  *)
(* sizes and numbers of objects, and of elements on each rank.             *)
THEOREM GapFree == Spec => []Dense
<1>1. CheckpointInv => Dense
  <2>1. SUFFICES ASSUME CheckpointInv, NEW i \in Ids, complete[i] # -1
                 PROVE  LET h == Header(fs[i])
                            end == Offset("vector", h.p, h.id) + SizeOfKind(h.p, "vector")
                            first == Offset("mesh", h.p, h.id)
                        IN  /\ h.t = complete[i]
                            /\ 0 .. (end - 1) \subseteq DOMAIN fs[i]
                            /\ \A b \in first .. (end - 1) : Stamp(fs[i][b]) = h.t
    BY DEF Dense, Stamp
  <2>2. program \in Programs /\ complete[i] \in 0 .. MaxTime
    <3>1. program \in Programs /\ complete \in [Ids -> -1 .. MaxTime]
      BY <2>1 DEF CheckpointInv, TypeInv
    <3>2. complete[i] \in -1 .. MaxTime /\ MaxTime \in Nat BY <3>1, CheckpointAssumption
    <3> QED BY <2>1, <3>1, <3>2
  <2>3. PICK p \in Jobs : Whole(fs[i], p, i, complete[i]) BY <2>1 DEF CheckpointInv, ClosedInv
  <2>4. Header(fs[i]).p = p /\ Header(fs[i]).id = i /\ Header(fs[i]).t = complete[i]
    BY <2>2, <2>3, WholeOpens
  <2>5. /\ Offset("vector", p, i) + SizeOfKind(p, "vector") = SectionStart(p, i, 4)
        /\ Offset("mesh", p, i) = SectionStart(p, i, 1)
    BY DEF SectionStart
  <2>6. SectionStart(p, i, 4) \in Nat /\ SectionStart(p, i, 1) \in Nat BY <2>2, SectionsInFile
  <2>7. ASSUME NEW b \in 0 .. (SectionStart(p, i, 4) - 1)
        PROVE  b \in DOMAIN fs[i] /\ (SectionStart(p, i, 1) <= b => Stamp(fs[i][b]) = complete[i])
    <3>1. b \in Nat /\ b < SectionStart(p, i, 4) BY <2>6
    <3> QED BY <2>2, <2>3, <3>1, WholeIsDense
  <2>8. \A b \in SectionStart(p, i, 1) .. (SectionStart(p, i, 4) - 1) :
          Stamp(fs[i][b]) = complete[i]
    <3>1. ASSUME NEW b \in SectionStart(p, i, 1) .. (SectionStart(p, i, 4) - 1)
          PROVE  Stamp(fs[i][b]) = complete[i]
      <4>1. b \in 0 .. (SectionStart(p, i, 4) - 1) /\ SectionStart(p, i, 1) <= b BY <2>6
      <4> QED BY <2>7, <4>1
    <3> QED BY <3>1
  <2> QED BY <2>4, <2>5, <2>7, <2>8
<1> QED BY <1>1, CheckpointInvariant, PTL

------------------------------------------------------------------------------
(* What is loaded from a closed file *)

LEMMA PieceRead ==
  ASSUME program \in Programs, NEW p \in Jobs, NEW id \in Ids, NEW t, NEW file,
         Whole(file, p, id, t), NEW s, NEW j, NEW i, IsPiece(p, s, j, i), NEW r \in Rank(p)
  PROVE  ReadAt(file, PieceStart(p, id, s, j, i, r), PieceLength(p, s, j, i, r))
           = Piece(p, s, j, i, r, t)
<1> DEFINE from == PieceStart(p, id, s, j, i, r)
           bytes == Piece(p, s, j, i, r, t)
           size == PieceLength(p, s, j, i, r)
<1>1. size \in Nat /\ Len(bytes) = size /\ bytes = [k \in 1 .. size |-> bytes[k]] BY PieceBytes
<1>2. from \in Int
  <2>1. from \in Nat BY Within
  <2> QED BY <2>1
<1>3. Holds(file, from, bytes)
  <2>1. PieceHolds(file, p, id, t, s, j, i, r) BY DEF Whole
  <2> QED BY <2>1 DEF PieceHolds
<1> HIDE DEF from, bytes, size
<1>4. ReadAt(file, from, size) = bytes BY <1>1, <1>2, <1>3, HeldIsRead
<1> QED BY <1>4 DEF from, bytes, size

(* Where the j-th object begins.                                           *)
ObjectStart(p, id, s, j) == SectionStart(p, id, s) + SizeOfObjects(p, Sections[s], j - 1)

LEMMA ObjectStarts ==
  ASSUME program \in Programs, NEW p \in Jobs, NEW id \in Ids, NEW s \in 1 .. 3,
         NEW j \in 1 .. Len(Objects(Sections[s]))
  PROVE  /\ IsPiece(p, s, j, 1)
         /\ ObjectStart(p, id, s, j) \in Nat
         /\ ObjectStart(p, id, s, j + 1) =
              ObjectStart(p, id, s, j) + SizeOfObject(p, Sections[s], NameAt(s, j))
         /\ SizeOfObject(p, Sections[s], NameAt(s, j)) \in Nat
         /\ SizeOf[Sections[s]] \in Nat /\ SizeOf[Sections[s]] > 0
         /\ \A r \in Rank(p) :
              /\ PieceStart(p, id, s, j, 1, r) = ObjectStart(p, id, s, j) + r * SizeOf[Sections[s]]
              /\ PieceLength(p, s, j, 1, r) = SizeOf[Sections[s]]
              /\ \A t : Piece(p, s, j, 1, r, t) = HeaderOf(p, Sections[s], NameAt(s, j), r, t)
<1> DEFINE kind == Sections[s]
           name == NameAt(s, j)
<1>1. kind \in Kinds /\ SectionStart(p, id, s) \in Nat
  <2>1. s \in 1 .. 4 OBVIOUS
  <2> QED BY <2>1, SectionsInFile
<1>2. Len(Parts(kind, p)) \in 2 .. 5 /\ Parts(kind, p)[1] = "header" BY <1>1, PartsAre
<1>3. IsPiece(p, s, j, 1)
  <2>1. \A q \in 2 .. 5 : 1 \in 1 .. q OBVIOUS
  <2>2. 1 \in 1 .. Len(Parts(kind, p)) BY <1>2, <2>1
  <2> QED BY <2>2 DEF IsPiece
<1>4. /\ IsObject(p, kind, name) /\ Len(Objects(kind)) \in Nat /\ p \in Nat /\ p > 0
  BY <1>3, PieceIs
<1>5. /\ SizeOfObject(p, kind, name) \in Nat /\ SizeOfObjects(p, kind, j - 1) \in Nat
      /\ SizeOfObjects(p, kind, j) = SizeOfObjects(p, kind, j - 1) + SizeOfObject(p, kind, name)
  <2>1. 0 \in Rank(p) BY <1>4 DEF Rank
  <2> QED BY <1>3, <2>1, Nested
<1>6. SizeOf[kind] \in Nat /\ SizeOf[kind] > 0 BY <1>1, CheckpointAssumption DEF Sized
<1>7. ObjectStart(p, id, s, j) \in Nat BY <1>1, <1>5 DEF ObjectStart
<1>8. ObjectStart(p, id, s, j + 1) = ObjectStart(p, id, s, j) + SizeOfObject(p, kind, name)
  <2>1. (j + 1) - 1 = j BY <1>4
  <2>2. ObjectStart(p, id, s, j + 1) = SectionStart(p, id, s) + SizeOfObjects(p, kind, j)
    BY <2>1 DEF ObjectStart
  <2>3. ObjectStart(p, id, s, j) = SectionStart(p, id, s) + SizeOfObjects(p, kind, j - 1)
    BY DEF ObjectStart
  <2> HIDE DEF kind, name
  <2> QED BY <1>1, <1>5, <2>2, <2>3
<1>9. ASSUME NEW r \in Rank(p)
      PROVE  /\ PieceStart(p, id, s, j, 1, r) = ObjectStart(p, id, s, j) + r * SizeOf[kind]
             /\ PieceLength(p, s, j, 1, r) = SizeOf[kind]
             /\ \A t : Piece(p, s, j, 1, r, t) = HeaderOf(p, kind, name, r, t)
  <2>1. PartAt(p, s, 1) = "header" BY <1>2 DEF PartAt
  <2>2. PieceAt(p, s, j, 1, r) = r * SizeOf[kind] BY <2>1 DEF PieceAt, At, Before, Width
  <2>3. PieceLength(p, s, j, 1, r) = 1 * SizeOf[kind] BY <2>1 DEF PieceLength, Length, Count, Width
  <2>4. \A t : Piece(p, s, j, 1, r, t) = HeaderOf(p, kind, name, r, t) BY <2>1 DEF Piece, PartOf
  <2>5. SizeOfParts(p, kind, name, 1 - 1) = 0 BY <1>4, PartsInObject
  <2>6. Start(p, id, s, j, 1) = SectionStart(p, id, s) + SizeOfObjects(p, kind, j - 1)
          + SizeOfParts(p, kind, name, 1 - 1)
    BY DEF Start
  <2> HIDE DEF kind, name
  <2>7. Start(p, id, s, j, 1) = SectionStart(p, id, s) + SizeOfObjects(p, kind, j - 1)
    BY <1>1, <1>5, <2>5, <2>6
  <2>8. Start(p, id, s, j, 1) = ObjectStart(p, id, s, j) BY <2>7 DEF ObjectStart, kind
  <2> QED BY <1>6, <2>2, <2>3, <2>4, <2>8 DEF PieceStart
<1> QED BY <1>3, <1>5, <1>6, <1>7, <1>8, <1>9

(* The header of any rank names the object.                                *)
LEMMA ObjectFound ==
  ASSUME program \in Programs, NEW p \in Jobs, NEW id \in Ids, NEW t \in 0 .. MaxTime, NEW file,
         Whole(file, p, id, t), NEW s \in 1 .. 3, NEW j \in 1 .. Len(Objects(Sections[s])),
         NEW r \in Rank(p)
  PROVE  LET at == ObjectStart(p, id, s, j) + r * SizeOf[Sections[s]]
         IN  /\ ObjectsAt(file, at, Sections[s]) # {}
             /\ ObjectAt(file, at, Sections[s]) = NameAt(s, j)
<1> DEFINE kind == Sections[s]
           name == NameAt(s, j)
           at == ObjectStart(p, id, s, j) + r * SizeOf[kind]
<1>1. /\ IsPiece(p, s, j, 1) /\ SizeOf[kind] \in Nat /\ SizeOf[kind] > 0
      /\ PieceStart(p, id, s, j, 1, r) = at /\ PieceLength(p, s, j, 1, r) = SizeOf[kind]
      /\ Piece(p, s, j, 1, r, t) = HeaderOf(p, kind, name, r, t)
  BY ObjectStarts
<1>2. name \in Names(kind)
  <2>1. IsObject(p, kind, name) BY <1>1, PieceIs
  <2> QED BY <2>1 DEF IsObject
<1> HIDE DEF at, name
<1>3. ReadAt(file, at, SizeOf[kind]) = HeaderOf(p, kind, name, r, t)
  <2>1. ReadAt(file, PieceStart(p, id, s, j, 1, r), PieceLength(p, s, j, 1, r))
          = Piece(p, s, j, 1, r, t)
    BY <1>1, PieceRead
  <2> QED BY <1>1, <2>1
<1>4. name \in ObjectsAt(file, at, kind) BY <1>2, <1>3 DEF ObjectsAt
<1>5. ASSUME NEW other \in ObjectsAt(file, at, kind) PROVE other = name
  <2>1. PICK p2 \in Jobs : \E q \in Rank(p2), u \in 0 .. MaxTime :
          ReadAt(file, at, SizeOf[kind]) = HeaderOf(p2, kind, other, q, u)
    BY <1>5 DEF ObjectsAt
  <2>2. PICK q \in Rank(p2), u \in 0 .. MaxTime :
          ReadAt(file, at, SizeOf[kind]) = HeaderOf(p2, kind, other, q, u)
    BY <2>1
  <2>3. Bytes(<<kind, other, "header", p2, q, u>>, SizeOf[kind])
          = Bytes(<<kind, name, "header", p, r, t>>, SizeOf[kind])
    BY <1>3, <2>2 DEF HeaderOf
  <2>4. <<kind, other, "header", p2, q, u>> = <<kind, name, "header", p, r, t>>
    BY <1>1, <2>3, BytesDiffer
  <2> QED BY <2>4
<1>6. ObjectAt(file, at, kind) = name
  <2>1. ObjectAt(file, at, kind) \in ObjectsAt(file, at, kind) BY <1>4 DEF ObjectAt
  <2> QED BY <1>5, <2>1
<1> QED BY <1>4, <1>6 DEF at, name

(* What rank r wrote of an object at time t, behind its header.            *)
Elements(p, kind, name, r, t) ==
  [k \in 1 .. (Len(Parts(kind, p)) - 1) |-> DataOf(p, kind, name, Parts(kind, p)[k + 1], r, t)]

LEMMA ElementsRead ==
  ASSUME program \in Programs, NEW p \in Jobs, NEW id \in Ids, NEW t, NEW file,
         Whole(file, p, id, t), NEW s \in 1 .. 3, NEW j \in 1 .. Len(Objects(Sections[s])),
         NEW r \in Rank(p)
  PROVE  Values(file, ObjectStart(p, id, s, j), Sections[s], NameAt(s, j), r, p)
           = Elements(p, Sections[s], NameAt(s, j), r, t)
<1> DEFINE kind == Sections[s]
           name == NameAt(s, j)
           from == ObjectStart(p, id, s, j)
<1>1. kind \in Kinds BY SectionsInFile
<1>2. Len(Parts(kind, p)) \in 2 .. 5 /\ Len(Parts(kind, p)) \in Nat
  <2>1. Len(Parts(kind, p)) \in 2 .. 5 BY <1>1, PartsAre
  <2>2. \A q \in 2 .. 5 : q \in Nat OBVIOUS
  <2> QED BY <2>1, <2>2
<1>3. ASSUME NEW k \in 1 .. (Len(Parts(kind, p)) - 1)
      PROVE  ReadAt(file, from + SizeOfParts(p, kind, name, k)
                            + At(p, kind, name, Parts(kind, p)[k + 1], r),
                    Count(p, kind, name, Parts(kind, p)[k + 1], r)
                      * Width(kind, Parts(kind, p)[k + 1]))
               = DataOf(p, kind, name, Parts(kind, p)[k + 1], r, t)
  <2> DEFINE part == Parts(kind, p)[k + 1]
  <2>1. k + 1 \in 2 .. Len(Parts(kind, p)) /\ k + 1 \in 1 .. Len(Parts(kind, p)) /\ (k + 1) - 1 = k
    BY <1>2
  <2>2. IsPiece(p, s, j, k + 1) BY <2>1 DEF IsPiece
  <2>3. part # "header" /\ part = PartAt(p, s, k + 1) BY <1>1, <2>1, PartsAre DEF PartAt
  <2>4. Piece(p, s, j, k + 1, r, t) = DataOf(p, kind, name, part, r, t) BY <2>3 DEF Piece, PartOf
  <2>5. PieceLength(p, s, j, k + 1, r) = Count(p, kind, name, part, r) * Width(kind, part)
    BY <2>3 DEF PieceLength, Length
  <2>6. PieceStart(p, id, s, j, k + 1, r) =
          from + SizeOfParts(p, kind, name, k) + At(p, kind, name, part, r)
    BY <2>1, <2>3 DEF PieceStart, PieceAt, Start, ObjectStart
  <2>7. ReadAt(file, PieceStart(p, id, s, j, k + 1, r), PieceLength(p, s, j, k + 1, r))
          = Piece(p, s, j, k + 1, r, t)
    BY <2>2, PieceRead
  <2> QED BY <2>4, <2>5, <2>6, <2>7
<1> QED BY <1>3 DEF Values, Elements

(* The state of load() behind the first j objects.                         *)
LoadedUpTo(p, id, s, names, r, t, j) ==
  [from |-> ObjectStart(p, id, s, j + 1), ok |-> TRUE,
   data |-> [name \in names |->
               IF \E k \in 1 .. j : NameAt(s, k) = name
               THEN Elements(p, Sections[s], name, r, t) ELSE <<>>]]

LEMMA LoadsNext ==
  ASSUME program \in Programs, NEW p \in Jobs, NEW id \in Ids, NEW t \in 0 .. MaxTime, NEW file,
         Whole(file, p, id, t), NEW s \in 1 .. 3, NEW j \in 1 .. Len(Objects(Sections[s])),
         NEW r \in Rank(p), NEW names
  PROVE  LoadNext(file, Sections[s], r, p, LoadedUpTo(p, id, s, names, r, t, j - 1))
           = LoadedUpTo(p, id, s, names, r, t, j)
<1> DEFINE kind == Sections[s]
           name == NameAt(s, j)
           from == ObjectStart(p, id, s, j)
           acc == LoadedUpTo(p, id, s, names, r, t, j - 1)
           header == from + r * SizeOf[kind]
           D(m) == [x \in names |-> IF \E k \in 1 .. m : NameAt(s, k) = x
                                    THEN Elements(p, kind, x, r, t) ELSE <<>>]
<1>1. Len(Objects(kind)) \in Nat
  <2>1. kind \in Kinds BY SectionsInFile
  <2> QED BY <2>1, ObjectsAre
<1>2. (j - 1) + 1 = j /\ j - 1 \in Nat /\ j \in Nat BY <1>1
<1>3. acc.from = from /\ acc.ok = TRUE /\ acc.data = D(j - 1) BY <1>2 DEF LoadedUpTo
<1>4. ObjectsAt(file, header, kind) # {} /\ ObjectAt(file, header, kind) = name BY ObjectFound
<1>5. Values(file, from, kind, name, r, p) = Elements(p, kind, name, r, t) BY ElementsRead
<1>6. ObjectStart(p, id, s, j + 1) = from + SizeOfObject(p, kind, name) BY ObjectStarts
<1>7. LoadedUpTo(p, id, s, names, r, t, j)
        = [from |-> from + SizeOfObject(p, kind, name), ok |-> TRUE, data |-> D(j)]
  BY <1>6 DEF LoadedUpTo
<1>8. (IF name \in DOMAIN D(j - 1)
       THEN [D(j - 1) EXCEPT ![name] = Elements(p, kind, name, r, t)] ELSE D(j - 1)) = D(j)
  <2>1. \A k : k \in 1 .. j <=> k \in 1 .. (j - 1) \/ k = j BY <1>2
  <2>2. \A x : (\E k \in 1 .. j : NameAt(s, k) = x)
               <=> (\E k \in 1 .. (j - 1) : NameAt(s, k) = x) \/ x = name
    BY <2>1
  <2> DEFINE Seen(m, x) == \E k \in 1 .. m : NameAt(s, k) = x
             E(x) == Elements(p, kind, x, r, t)
  <2>3. \A x : Seen(j, x) <=> Seen(j - 1, x) \/ x = name BY <2>2
  <2>4. /\ D(j) = [x \in names |-> IF Seen(j, x) THEN E(x) ELSE <<>>]
        /\ D(j - 1) = [x \in names |-> IF Seen(j - 1, x) THEN E(x) ELSE <<>>]
        /\ E(name) = Elements(p, kind, name, r, t)
    OBVIOUS
  <2> HIDE DEF Seen, E, D, name
  <2> QED BY <2>3, <2>4
<1> HIDE DEF acc, D, name, kind, from
<1>9. LoadNext(file, kind, r, p, acc) =
        [from |-> from + SizeOfObject(p, kind, name), ok |-> TRUE,
         data |-> IF name \in DOMAIN D(j - 1)
                  THEN [D(j - 1) EXCEPT ![name] = Elements(p, kind, name, r, t)]
                  ELSE D(j - 1)]
  BY <1>3, <1>4, <1>5 DEF LoadNext
<1>10. LoadNext(file, kind, r, p, acc) = LoadedUpTo(p, id, s, names, r, t, j)
  BY <1>7, <1>8, <1>9
<1> QED BY <1>10 DEF kind, acc

LEMMA LoadsAll ==
  ASSUME program \in Programs, NEW p \in Jobs, NEW id \in Ids, NEW t \in 0 .. MaxTime, NEW file,
         Whole(file, p, id, t), NEW s \in 1 .. 3, NEW r \in Rank(p),
         NEW names \in SUBSET Names(Sections[s])
  PROVE  Loaded(file, Sections[s], names, r, p)
           = [name \in names |-> Elements(p, Sections[s], name, r, t)]
<1> DEFINE kind == Sections[s]
           l == Len(Objects(kind))
           U(j) == LoadedUpTo(p, id, s, names, r, t, j)
           first == [from |-> Offset(kind, Header(file).p, Header(file).id), ok |-> TRUE,
                     data |-> [name \in names |-> <<>>]]
           body(x) == [j \in 0 .. l |-> IF j = 0 THEN first
                                         ELSE LoadNext(file, kind, r, p, x[j - 1])]
           run == CHOOSE x : x = body(x)
<1>1. /\ kind \in Kinds /\ l \in Nat /\ SectionStart(p, id, s) \in Nat
      /\ SectionStart(p, id, s) = Offset(kind, p, id)
  <2>1. s \in 1 .. 4 OBVIOUS
  <2>2. kind \in Kinds BY SectionsInFile
  <2>3. l \in Nat BY <2>2, ObjectsAre
  <2> QED BY <2>1, <2>2, <2>3, SectionsInFile
<1>2. first = U(0)
  <2>1. Header(file).p = p /\ Header(file).id = id BY WholeOpens
  <2>2. SizeOfObjects(p, kind, (0 + 1) - 1) = 0
    <3>1. (0 + 1) - 1 = 0 OBVIOUS
    <3>2. SizeOfObjects(p, kind, 0) = 0 BY <1>1, ObjectsInKind
    <3> QED BY <3>1, <3>2
  <2>3. ObjectStart(p, id, s, 0 + 1) = Offset(kind, p, id) BY <1>1, <2>2 DEF ObjectStart
  <2>4. \A x : ~ \E k \in 1 .. 0 : NameAt(s, k) = x OBVIOUS
  <2> QED BY <2>1, <2>3, <2>4 DEF LoadedUpTo
<1>3. ASSUME NEW j \in 1 .. l PROVE LoadNext(file, kind, r, p, U(j - 1)) = U(j) BY LoadsNext
<1>4. Loaded(file, kind, names, r, p) = run[l].data BY DEF Loaded
<1> HIDE DEF kind, l, U, first
<1>5. run = body(run)
  <2> DEFINE c == [j \in 0 .. l |-> U(j)]
  <2>1. ASSUME NEW j \in 0 .. l
        PROVE  c[j] = IF j = 0 THEN first ELSE LoadNext(file, kind, r, p, c[j - 1])
    <3>1. CASE j = 0 BY <1>1, <1>2, <3>1
    <3>2. CASE j # 0
      <4>1. j \in 1 .. l /\ j - 1 \in 0 .. l BY <1>1, <3>2
      <4>2. c[j] = U(j) /\ c[j - 1] = U(j - 1) BY <4>1
      <4> HIDE DEF c
      <4> QED BY <1>3, <3>2, <4>1, <4>2
    <3> QED BY <3>1, <3>2
  <2>2. c = [j \in 0 .. l |-> c[j]] OBVIOUS
  <2> HIDE DEF c
  <2>3. c = body(c) BY <2>1, <2>2
  <2>4. \E x : x = body(x) BY <2>3
  <2> HIDE DEF body
  <2> QED BY <2>4
<1> HIDE DEF run
<1>6. \A j \in 0 .. l : run[j] = IF j = 0 THEN first ELSE LoadNext(file, kind, r, p, run[j - 1])
  <2>1. \A j \in 0 .. l :
          body(run)[j] = IF j = 0 THEN first ELSE LoadNext(file, kind, r, p, run[j - 1])
    OBVIOUS
  <2> HIDE DEF body
  <2> QED BY <1>5, <2>1
<1> HIDE DEF body
<1> DEFINE S == {j \in Nat : j <= l => run[j] = U(j)}
<1>7. 0 \in S BY <1>1, <1>2, <1>6
<1>8. ASSUME NEW j \in S PROVE j + 1 \in S
  <2>1. SUFFICES ASSUME j + 1 <= l PROVE run[j + 1] = U(j + 1) OBVIOUS
  <2>2. j + 1 \in 0 .. l /\ j + 1 \in 1 .. l /\ j + 1 # 0 /\ (j + 1) - 1 = j BY <1>1, <2>1
  <2>3. run[j] = U(j) BY <1>1, <2>1
  <2>4. run[j + 1] = LoadNext(file, kind, r, p, run[(j + 1) - 1]) BY <1>6, <2>2
  <2>5. LoadNext(file, kind, r, p, U((j + 1) - 1)) = U(j + 1) BY <1>3, <2>2
  <2> QED BY <2>2, <2>3, <2>4, <2>5
<1>9. S = Nat BY <1>7, <1>8, SetInduction
<1>10. run[l] = U(l) BY <1>1, <1>9
<1>11. U(l).data = [name \in names |-> Elements(p, Sections[s], name, r, t)]
  <2>1. ASSUME NEW name \in names PROVE \E k \in 1 .. l : NameAt(s, k) = name
    <3>1. name \in Names(kind) BY DEF kind
    <3> QED BY <1>1, <3>1, ObjectsAre DEF NameAt, kind, l
  <2>2. U(l).data = [name \in names |-> IF \E k \in 1 .. l : NameAt(s, k) = name
                                         THEN Elements(p, Sections[s], name, r, t) ELSE <<>>]
    BY DEF U, LoadedUpTo
  <2> QED BY <2>1, <2>2
<1> QED BY <1>4, <1>10, <1>11 DEF kind

(* The state of load_header() behind the first j objects.                  *)
NamesUpTo(p, id, s, j) ==
  [from |-> ObjectStart(p, id, s, j + 1), ok |-> TRUE,
   names |-> [i \in 1 .. Len(Objects(Sections[s])) |-> IF i \in 1 .. j THEN NameAt(s, i) ELSE ""]]

LEMMA ReadsNextName ==
  ASSUME program \in Programs, NEW p \in Jobs, NEW id \in Ids, NEW t \in 0 .. MaxTime, NEW file,
         Whole(file, p, id, t), NEW s \in 1 .. 3, NEW j \in 1 .. Len(Objects(Sections[s]))
  PROVE  HeaderNext(file, Sections[s], p, j, NamesUpTo(p, id, s, j - 1)) = NamesUpTo(p, id, s, j)
<1> DEFINE kind == Sections[s]
           l == Len(Objects(kind))
           name == NameAt(s, j)
           from == ObjectStart(p, id, s, j)
           acc == NamesUpTo(p, id, s, j - 1)
           N(m) == [i \in 1 .. l |-> IF i \in 1 .. m THEN NameAt(s, i) ELSE ""]
<1>1. l \in Nat
  <2>1. kind \in Kinds BY SectionsInFile
  <2> QED BY <2>1, ObjectsAre
<1>2. (j - 1) + 1 = j /\ j \in Nat /\ p \in Nat /\ 0 \in Rank(p)
  BY <1>1, CheckpointAssumption DEF Rank
<1>3. acc.from = from /\ acc.ok = TRUE /\ acc.names = N(j - 1) BY <1>2 DEF NamesUpTo
<1>4. /\ ObjectStart(p, id, s, j + 1) = from + SizeOfObject(p, kind, name)
      /\ from \in Nat /\ SizeOfObject(p, kind, name) \in Nat /\ SizeOf[kind] \in Nat
  BY ObjectStarts
<1>5. ObjectsAt(file, from, kind) # {} /\ ObjectAt(file, from, kind) = name
  <2>1. /\ ObjectsAt(file, from + 0 * SizeOf[kind], kind) # {}
        /\ ObjectAt(file, from + 0 * SizeOf[kind], kind) = name
    BY <1>2, ObjectFound
  <2>2. from + 0 * SizeOf[kind] = from
    <3> HIDE DEF kind, from
    <3> QED BY <1>4
  <2> QED BY <2>1, <2>2
<1>6. from + p * SizeOf[kind] + DataSize(p, kind, name) = from + SizeOfObject(p, kind, name)
  <2>1. DataSize(p, kind, name) = SizeOfObject(p, kind, name) - p * SizeOf[kind] BY DEF DataSize
  <2>2. p * SizeOf[kind] \in Nat BY <1>2, <1>4, ProductNat
  <2> HIDE DEF kind, name, from
  <2> QED BY <1>4, <2>1, <2>2
<1>7. Header(file).p = p BY WholeOpens
<1>8. [N(j - 1) EXCEPT ![j] = name] = N(j)
  <2>1. \A i \in 1 .. l : i \in 1 .. j <=> i \in 1 .. (j - 1) \/ i = j BY <1>1, <1>2
  <2>2. j \in 1 .. l /\ j \in 1 .. j BY <1>1, <1>2
  <2> QED BY <2>1, <2>2
<1>9. NamesUpTo(p, id, s, j) =
        [from |-> from + SizeOfObject(p, kind, name), ok |-> TRUE, names |-> N(j)]
  BY <1>4 DEF NamesUpTo
<1> HIDE DEF acc, N, name, kind, from
<1>10. HeaderNext(file, kind, p, j, acc) =
         [from |-> from + SizeOfObject(p, kind, name), ok |-> TRUE,
          names |-> [N(j - 1) EXCEPT ![j] = name]]
  BY <1>3, <1>5, <1>6, <1>7 DEF HeaderNext
<1>11. HeaderNext(file, kind, p, j, acc) = NamesUpTo(p, id, s, j) BY <1>8, <1>9, <1>10
<1> QED BY <1>11 DEF kind, acc

LEMMA ReadsAllNames ==
  ASSUME program \in Programs, NEW p \in Jobs, NEW id \in Ids, NEW t \in 0 .. MaxTime, NEW file,
         Whole(file, p, id, t), NEW s \in 1 .. 3, NEW reader,
         Sections[s] = "vector" => reader = p
  PROVE  NamesRead(file, Sections[s], reader) = Objects(Sections[s])
<1> DEFINE kind == Sections[s]
           l == Len(Objects(kind))
           ranks == IF kind = "vector" THEN reader ELSE Header(file).p
           U(j) == NamesUpTo(p, id, s, j)
           first == [from |-> Offset(kind, Header(file).p, Header(file).id), ok |-> TRUE,
                     names |-> [i \in 1 .. Len(Objects(kind)) |-> ""]]
           body(x) == [j \in 0 .. l |-> IF j = 0 THEN first
                                         ELSE HeaderNext(file, kind, ranks, j, x[j - 1])]
           run == CHOOSE x : x = body(x)
<1>1. /\ kind \in Kinds /\ l \in Nat /\ SectionStart(p, id, s) \in Nat
      /\ SectionStart(p, id, s) = Offset(kind, p, id)
  <2>1. s \in 1 .. 4 OBVIOUS
  <2>2. kind \in Kinds BY SectionsInFile
  <2>3. l \in Nat BY <2>2, ObjectsAre
  <2> QED BY <2>1, <2>2, <2>3, SectionsInFile
<1>2. Header(file).p = p /\ Header(file).id = id BY WholeOpens
<1>3. first = U(0)
  <2>1. SizeOfObjects(p, kind, (0 + 1) - 1) = 0
    <3>1. (0 + 1) - 1 = 0 OBVIOUS
    <3>2. SizeOfObjects(p, kind, 0) = 0 BY <1>1, ObjectsInKind
    <3> QED BY <3>1, <3>2
  <2>2. ObjectStart(p, id, s, 0 + 1) = Offset(kind, p, id) BY <1>1, <2>1 DEF ObjectStart
  <2>3. \A i : i \notin 1 .. 0 OBVIOUS
  <2> QED BY <1>2, <2>2, <2>3 DEF NamesUpTo
<1>4. ranks = p BY <1>2
<1>5. ASSUME NEW j \in 1 .. l PROVE HeaderNext(file, kind, p, j, U(j - 1)) = U(j)
  BY ReadsNextName
<1>6. NamesRead(file, kind, reader) = run[l].names BY DEF NamesRead
<1> HIDE DEF kind, l, U, first, ranks
<1>7. run = body(run)
  <2> DEFINE c == [j \in 0 .. l |-> U(j)]
  <2>1. ASSUME NEW j \in 0 .. l
        PROVE  c[j] = IF j = 0 THEN first ELSE HeaderNext(file, kind, ranks, j, c[j - 1])
    <3>1. CASE j = 0 BY <1>1, <1>3, <3>1
    <3>2. CASE j # 0
      <4>1. j \in 1 .. l /\ j - 1 \in 0 .. l BY <1>1, <3>2
      <4>2. c[j] = U(j) /\ c[j - 1] = U(j - 1) BY <4>1
      <4> HIDE DEF c
      <4> QED BY <1>4, <1>5, <3>2, <4>1, <4>2
    <3> QED BY <3>1, <3>2
  <2>2. c = [j \in 0 .. l |-> c[j]] OBVIOUS
  <2> HIDE DEF c
  <2>3. c = body(c) BY <2>1, <2>2
  <2>4. \E x : x = body(x) BY <2>3
  <2> HIDE DEF body
  <2> QED BY <2>4
<1> HIDE DEF run
<1>8. \A j \in 0 .. l : run[j] = IF j = 0 THEN first ELSE HeaderNext(file, kind, p, j, run[j - 1])
  <2>1. \A j \in 0 .. l :
          body(run)[j] = IF j = 0 THEN first ELSE HeaderNext(file, kind, ranks, j, run[j - 1])
    OBVIOUS
  <2> HIDE DEF body
  <2> QED BY <1>4, <1>7, <2>1
<1> HIDE DEF body
<1> DEFINE S == {j \in Nat : j <= l => run[j] = U(j)}
<1>9. 0 \in S BY <1>1, <1>3, <1>8
<1>10. ASSUME NEW j \in S PROVE j + 1 \in S
  <2>1. SUFFICES ASSUME j + 1 <= l PROVE run[j + 1] = U(j + 1) OBVIOUS
  <2>2. j + 1 \in 0 .. l /\ j + 1 \in 1 .. l /\ j + 1 # 0 /\ (j + 1) - 1 = j BY <1>1, <2>1
  <2>3. run[j] = U(j) BY <1>1, <2>1
  <2>4. run[j + 1] = HeaderNext(file, kind, p, j + 1, run[(j + 1) - 1]) BY <1>8, <2>2
  <2>5. HeaderNext(file, kind, p, j + 1, U((j + 1) - 1)) = U(j + 1) BY <1>5, <2>2
  <2> QED BY <2>2, <2>3, <2>4, <2>5
<1>11. S = Nat BY <1>9, <1>10, SetInduction
<1>12. run[l] = U(l) BY <1>1, <1>11
<1>13. U(l).names = Objects(kind)
  <2>1. U(l).names = [i \in 1 .. l |-> IF i \in 1 .. l THEN NameAt(s, i) ELSE ""]
    BY DEF U, NamesUpTo, kind, l
  <2>2. U(l).names = [i \in 1 .. l |-> Objects(kind)[i]] BY <2>1 DEF NameAt, kind
  <2>3. Objects(kind) \in Seq(STRING)
    BY <1>1, CheckpointAssumption DEF ProgramOK, Objects
  <2>4. Objects(kind) = [i \in 1 .. l |-> Objects(kind)[i]] BY <2>3 DEF l
  <2> QED BY <2>2, <2>4
<1> QED BY <1>6, <1>12, <1>13 DEF kind

------------------------------------------------------------------------------
(* The last load *)

LEMMA HeaderFixed ==
  ASSUME program' = program
  PROVE  \A file : Header(file)' = Header(file)
<1>1. Headers' = Headers BY LayoutFixed DEF Headers
<1>2. \A file : Opened(file)' = Opened(file) BY <1>1 DEF Opened
<1> QED BY <1>2 DEF Header

LEMMA SectionOfKind ==
  ASSUME NEW kind \in Kinds PROVE \E s \in 1 .. 3 : Sections[s] = kind
<1>1. Sections[1] = "mesh" /\ Sections[2] = "function" /\ Sections[3] = "vector" BY DEF Sections
<1>2. 1 \in 1 .. 3 /\ 2 \in 1 .. 3 /\ 3 \in 1 .. 3 OBVIOUS
<1> QED BY <1>1, <1>2 DEF Kinds

LEMMA LoadFinds ==
  ASSUME CheckpointInv, NEW i \in Ids, NEW kind \in Kinds, NEW names \in SUBSET Names(kind),
         Load(i, kind, names), ~Fail
  PROVE  LoadedIsWritten'
<1>1. /\ Loadable(fs[i])
      /\ got' = [id |-> i, kind |-> kind, names |-> names,
                 data |-> [r \in Rank(procs) |-> Loaded(fs[i], kind, names, r, procs)]]
      /\ UNCHANGED <<program, procs, runs, phase, now, n, fs, writing, next, complete, origin>>
  BY DEF Load
<1>2. CASE complete[i] = -1 BY <1>1, <1>2 DEF LoadedIsWritten
<1>3. CASE complete[i] # -1
  <2>1. /\ program \in Programs /\ complete[i] \in 0 .. MaxTime
    <3>1. program \in Programs /\ complete \in [Ids -> -1 .. MaxTime]
      BY DEF CheckpointInv, TypeInv
    <3>2. complete[i] \in -1 .. MaxTime /\ MaxTime \in Nat BY <3>1, CheckpointAssumption
    <3> QED BY <1>3, <3>1, <3>2
  <2>2. PICK p \in Jobs : Whole(fs[i], p, i, complete[i]) BY <1>3 DEF CheckpointInv, ClosedInv
  <2>3. p = procs BY <1>1, <2>1, <2>2, WholeOpens DEF Loadable
  <2>4. PICK s \in 1 .. 3 : Sections[s] = kind BY SectionOfKind
  <2>5. ASSUME NEW r \in Rank(procs)
        PROVE  got'.data[r] = [name \in names |-> Elements(procs, kind, name, r, complete[i])]
    <3>1. Loaded(fs[i], kind, names, r, procs)
            = [name \in names |-> Elements(procs, kind, name, r, complete[i])]
      BY <2>1, <2>2, <2>3, <2>4, LoadsAll
    <3> QED BY <1>1, <3>1
  <2>6. kind # "header" BY DEF Kinds
  <2>7. got'.id = i /\ got'.kind = kind /\ got'.names = names BY <1>1
  <2>8. \A r \in Rank(procs) :
          got'.data[r] =
            [name \in got'.names |->
               [k \in 1 .. (Len(Parts(got'.kind, procs)) - 1) |->
                  DataOf(procs, got'.kind, name, Parts(got'.kind, procs)[k + 1], r,
                         complete[got'.id])]]
    BY <2>5, <2>7 DEF Elements
  <2> QED BY <1>1, <2>6, <2>7, <2>8 DEF LoadedIsWritten
<1> QED BY <1>2, <1>3

LEMMA LoadHeaderFinds ==
  ASSUME CheckpointInv, NEW i \in Ids, LoadHeader(i), ~Fail
  PROVE  LoadedIsWritten'
<1>1. /\ got' = [id |-> i, kind |-> "header",
                 names |-> [kind \in Kinds |-> NamesRead(fs[i], kind, procs)]]
      /\ UNCHANGED <<program, procs, runs, phase, now, n, fs, writing, next, complete, origin>>
  BY DEF LoadHeader
<1>2. CASE complete[i] = -1 BY <1>1, <1>2 DEF LoadedIsWritten
<1>3. CASE complete[i] # -1
  <2>1. /\ program \in Programs /\ complete[i] \in 0 .. MaxTime
    <3>1. program \in Programs /\ complete \in [Ids -> -1 .. MaxTime]
      BY DEF CheckpointInv, TypeInv
    <3>2. complete[i] \in -1 .. MaxTime /\ MaxTime \in Nat BY <3>1, CheckpointAssumption
    <3> QED BY <1>3, <3>1, <3>2
  <2>2. PICK p \in Jobs : Whole(fs[i], p, i, complete[i]) BY <1>3 DEF CheckpointInv, ClosedInv
  <2>3. Header(fs[i]).p = p BY <2>1, <2>2, WholeOpens
  <2>4. ASSUME NEW kind \in Kinds, kind = "vector" => Header(fs[i]).p = procs
        PROVE  got'.names[kind] = Objects(kind)
    <3>1. PICK s \in 1 .. 3 : Sections[s] = kind BY SectionOfKind
    <3>2. Sections[s] = "vector" => procs = p BY <2>3, <2>4, <3>1
    <3>3. NamesRead(fs[i], Sections[s], procs) = Objects(Sections[s])
      BY <2>1, <2>2, <3>2, ReadsAllNames
    <3> QED BY <1>1, <3>1, <3>3
  <2>5. got'.id = i /\ got'.kind = "header" BY <1>1
  <2>6. HeadersRead' BY <1>1, <2>4, <2>5, HeaderFixed, LayoutFixed DEF HeadersRead
  <2> QED BY <1>1, <2>5, <2>6 DEF LoadedIsWritten
<1> QED BY <1>2, <1>3

LEMMA LoadKept ==
  ASSUME LoadedIsWritten,
         got' = None \/ UNCHANGED <<program, procs, fs, got, complete>>
  PROVE  LoadedIsWritten'
<1>1. CASE got' = None BY <1>1 DEF LoadedIsWritten
<1>2. CASE UNCHANGED <<program, procs, fs, got, complete>>
  <2>1. HeadersRead' <=> HeadersRead BY <1>2, HeaderFixed, LayoutFixed DEF HeadersRead
  <2> QED BY <1>2, <2>1 DEF LoadedIsWritten
<1> QED BY <1>1, <1>2

LEMMA LoadedStep == CheckpointInv /\ LoadedIsWritten /\ [Next]_vars => LoadedIsWritten'
<1>1. SUFFICES ASSUME CheckpointInv, LoadedIsWritten, [Next]_vars PROVE LoadedIsWritten' OBVIOUS
<1>2. /\ phase = "writing" => got = None
      /\ phase = "down" => got = None
  BY <1>1 DEF CheckpointInv, TypeInv
<1>3. CASE Compute \/ StartWrite \/ CloseFile \/ Crash \/ Restart \/ ResetCounter
  <2>1. got' = None \/ UNCHANGED <<program, procs, fs, got, complete>>
    BY <1>2, <1>3 DEF Compute, StartWrite, CloseFile, Crash, Restart, ResetCounter
  <2> QED BY <1>1, <2>1, LoadKept
<1>4. ASSUME NEW r \in Rank(procs), WriteFront(r) \/ WritePiece(r) \/ NextSection(r)
      PROVE  LoadedIsWritten'
  <2>1. got' = None BY <1>2, <1>4 DEF WriteFront, WritePiece, NextSection
  <2> QED BY <1>1, <2>1, LoadKept
<1>5. CASE Fail
  <2>1. got' = None BY <1>5 DEF Fail
  <2> QED BY <1>1, <2>1, LoadKept
<1>6. ASSUME NEW i \in Ids, LoadParametersystem(i) PROVE LoadedIsWritten'
  <2>1. got' = None BY <1>6 DEF LoadParametersystem, Fail
  <2> QED BY <1>1, <2>1, LoadKept
<1>7. ASSUME NEW i \in Ids, LoadHeader(i) PROVE LoadedIsWritten'
  BY <1>1, <1>5, <1>7, LoadHeaderFinds
<1>8. ASSUME NEW i \in Ids, NEW kind \in Kinds, NEW names \in SUBSET Names(kind),
             Load(i, kind, names)
      PROVE  LoadedIsWritten'
  BY <1>1, <1>5, <1>8, LoadFinds
<1>9. CASE UNCHANGED vars
  <2>1. UNCHANGED <<program, procs, fs, got, complete>> BY <1>9 DEF vars
  <2> QED BY <1>1, <2>1, LoadKept
<1> QED BY <1>1, <1>3, <1>4, <1>6, <1>7, <1>8, <1>9 DEF Next

(* What each rank loads from a file that was closed is what that rank      *)
(* wrote, for every object that was asked for and whichever others are in  *)
(* the file, for any number of ranks and any distribution over them; and   *)
(* load_header() finds the names of all objects in order.                  *)
THEOREM WhatWasWrittenIsLoaded == Spec => []LoadedIsWritten
<1>1. Init => LoadedIsWritten BY DEF Init, LoadedIsWritten
<1> QED BY <1>1, CheckpointInvariant, LoadedStep, PTL DEF Spec

(* Where byte_offset stands when the header of the checkpoint is written,  *)
(* and whenever a rank comes to the meshes, the functions or the vectors.  *)
SectionsMeet ==
  phase = "writing" => \A r \in Rank(procs) :
    LET x == next[r]
    IN  /\ x.section = 0 /\ x.part = 2 => x.offset = SizeOf.checkpoint
        /\ x.section # 0 /\ x.object = 1 /\ x.part = 1 =>
             x.offset = Offset(Sections[x.section], procs, writing)

(* The offsets that a rank counts up as it writes are those that           *)
(* fill_headers() has computed in advance, as the four assertions of       *)
(* write() say (Checkpoint.cpp:78, 616, 686, 720): for any number of ranks *)
(* and objects, those kinds of which there are none included.              *)
THEOREM OffsetsMeetHeader == Spec => []SectionsMeet
<1>1. ASSUME CheckpointInv PROVE SectionsMeet
  <2>1. SUFFICES ASSUME phase = "writing", NEW r \in Rank(procs)
        PROVE  /\ next[r].section = 0 /\ next[r].part = 2 => next[r].offset = SizeOf.checkpoint
               /\ next[r].section # 0 /\ next[r].object = 1 /\ next[r].part = 1 =>
                    next[r].offset = Offset(Sections[next[r].section], procs, writing)
    BY DEF SectionsMeet
  <2>2. program \in Programs /\ procs \in Jobs /\ writing \in Ids
    BY <1>1, <2>1 DEF CheckpointInv, TypeInv
  <2>3. OnPath(procs, writing, next[r])
    BY <1>1, <2>1 DEF CheckpointInv, WritingInv, Progress
  <2>4. ASSUME next[r].section = 0, next[r].part = 2 PROVE next[r].offset = SizeOf.checkpoint
    BY <2>3, <2>4 DEF OnPath, FrontStart
  <2>5. ASSUME NEW s, s = next[r].section, s # 0, next[r].object = 1, next[r].part = 1
        PROVE  next[r].offset = Offset(Sections[s], procs, writing)
    <3>1. s \in 1 .. 3 BY <2>3, <2>5 DEF OnPath
    <3>2. /\ Sections[s] \in Kinds
          /\ SectionStart(procs, writing, s) \in Nat
          /\ SectionStart(procs, writing, s) = Offset(Sections[s], procs, writing)
          /\ SectionStart(procs, writing, s + 1)
               = SectionStart(procs, writing, s) + SizeOfKind(procs, Sections[s])
      BY <2>2, <3>1, SectionsInFile
    <3>3. CASE IsPiece(procs, s, 1, 1) /\ next[r].offset = Start(procs, writing, s, 1, 1)
      <4>1. SizeOfObjects(procs, Sections[s], 0) = 0 BY <2>2, <3>2, ObjectsInKind
      <4>2. IsObject(procs, Sections[s], NameAt(s, 1)) BY <2>2, <3>3, PieceIs
      <4>3. SizeOfParts(procs, Sections[s], NameAt(s, 1), 0) = 0 BY <2>2, <3>2, <4>2, PartsInObject
      <4> QED BY <3>2, <3>3, <4>1, <4>3 DEF Start
    <3>4. CASE /\ 1 = Len(Objects(Sections[s])) + 1
               /\ next[r].offset = SectionStart(procs, writing, s + 1)
      <4>1. SizeOfObjects(procs, Sections[s], 0) = 0 BY <2>2, <3>2, ObjectsInKind
      <4>2. Len(Objects(Sections[s])) \in Nat BY <2>2, <3>2, ObjectsAre
      <4>3. Len(Objects(Sections[s])) = 0 BY <3>4, <4>2
      <4>4. SizeOfKind(procs, Sections[s]) = 0 BY <4>1, <4>3 DEF SizeOfKind
      <4> QED BY <3>2, <3>4, <4>4
    <3> QED BY <2>3, <2>5, <3>3, <3>4 DEF OnPath
  <2> QED BY <2>4, <2>5
<1> QED BY <1>1, CheckpointInvariant, PTL
==============================================================================
