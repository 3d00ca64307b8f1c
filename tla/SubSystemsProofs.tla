--------------------------- MODULE SubSystemsProofs ---------------------------
(***************************************************************************)
(* For any build, any order of the calls of the program and any number of  *)
(* processes: the semaphores, the state mask and the libraries agree, the  *)
(* MPI of the application survives DOLFIN, the communicators are freed in  *)
(* time, and the groups of a world that splits evenly agree.               *)
(***************************************************************************)
EXTENDS SubSystems, TLAPS

------------------------------------------------------------------------------
(* The invariant *)

Errors == {"none", "TrilinosBeforeMPI", "TrilinosAfterMPI"}

Mgr ==
  [count : Nat, flags : SUBSET Flag, sema : [Subsystem -> Nat],
   mpi : {"none", "up", "final"}, petscLib : {"none", "up", "down"},
   kokkos : {"none", "up", "down"}, beganMPI : BOOLEAN,
   comm : {"null", "valid", "freed"},
   groups : {<<>>} \cup {Contexts(wsize, n) : n \in Nat}, err : Errors]

(* Before the exit the state mask says which semaphores are not zero and   *)
(* which libraries are up, and MPI has one initialiser, which it can name. *)
Accords(m) ==
  /\ m.err = "none"
  /\ "petsc" \in m.flags <=> m.sema["petsc"] > 0
  /\ m.petscLib = "up" <=> m.sema["petsc"] > 0
  /\ "zoltan" \in m.flags <=> m.sema["zoltan"] > 0
  /\ "trilinos" \in m.flags <=> m.sema["trilinos"] > 0
  /\ "trilinosmpi" \in m.flags <=> m.sema["trilinos"] > 0
  /\ m.kokkos = "up" <=> m.sema["trilinos"] > 0
  /\ m.comm = "valid" <=> "mpi" \in m.flags
  /\ m.beganMPI = TRUE <=> "petscmpi" \in m.flags
  /\ m.beganMPI = TRUE => m.sema["petsc"] > 0
  /\ m.mpi = IF host \/ m.beganMPI = TRUE \/ "mpi" \in m.flags THEN "up" ELSE "none"
  /\ host => m.beganMPI = FALSE
  /\ "mpi" \in m.flags => ~host /\ m.beganMPI = FALSE
  /\ m.sema["petsc"] > 0 \/ m.sema["trilinos"] > 0 => m.mpi = "up"

(* The chain of dolfin_init() has run once or not at all, and has taken a  *)
(* second count of an MPI that it found initialised.                       *)
Chained(m) ==
  /\ "mpi" \in m.flags \/ m.mpi = "up"
  /\ m.sema["mpi"] = IF "mpi" \in m.flags THEN 1 ELSE 2
  /\ "zoltan" \in built => m.sema["zoltan"] = 1
  /\ "petsc" \in built => m.sema["petsc"] > 0
  /\ "trilinos" \in built => m.sema["trilinos"] > 0
  /\ m.beganMPI = TRUE /\ "petsc" \in built => m.sema["petsc"] > 1

Unchained(m) ==
  "mpi" \notin m.flags /\ m.sema["mpi"] = 0 /\ m.sema["zoltan"] = 0

Live == phase = "running" /\ mgr.err = "none"

ManagerInv ==
  /\ mgr \in Mgr /\ host \in BOOLEAN /\ wsize \in Nat \ {0}
  /\ IF Live THEN Accords(mgr) /\ IF mgr.count > 0 THEN Chained(mgr) ELSE Unchained(mgr)
     ELSE HostKeepsMPI /\ CommFreedBeforeMPI /\ SemaphoreLifetime

------------------------------------------------------------------------------
(* The steps of the chains *)

LEMMA ConsumeResult ==
  ASSUME NEW m \in Mgr, NEW s \in Subsystem, NEW x, x = Consume(m, s)
  PROVE  /\ x \in Mgr /\ x.sema[s] = m.sema[s] + 1
         /\ \A q \in Subsystem \ {s} : x.sema[q] = m.sema[q]
         /\ x.count = m.count /\ x.flags = m.flags /\ x.mpi = m.mpi
         /\ x.petscLib = m.petscLib /\ x.kokkos = m.kokkos /\ x.beganMPI = m.beganMPI
         /\ x.comm = m.comm /\ x.groups = m.groups /\ x.err = m.err
<1> DEFINE t == [m.sema EXCEPT ![s] = @ + 1]
<1>1. /\ t \in [Subsystem -> Nat] /\ t[s] = m.sema[s] + 1
      /\ \A q \in Subsystem \ {s} : t[q] = m.sema[q]
  BY DEF Mgr
<1>2. x = [m EXCEPT !.sema = t] BY DEF Consume
<1> HIDE DEF t
<1> QED BY <1>1, <1>2 DEF Mgr

LEMMA ReleaseResult ==
  ASSUME NEW m \in Mgr, NEW s \in Subsystem, m.sema[s] > 0, NEW x, x = Release(m, s)
  PROVE  /\ x \in Mgr /\ x.sema[s] = m.sema[s] - 1
         /\ \A q \in Subsystem \ {s} : x.sema[q] = m.sema[q]
         /\ x.count = m.count /\ x.flags = m.flags /\ x.mpi = m.mpi
         /\ x.petscLib = m.petscLib /\ x.kokkos = m.kokkos /\ x.beganMPI = m.beganMPI
         /\ x.comm = m.comm /\ x.groups = m.groups /\ x.err = m.err
<1> DEFINE t == [m.sema EXCEPT ![s] = @ - 1]
<1>1. /\ t \in [Subsystem -> Nat] /\ t[s] = m.sema[s] - 1
      /\ \A q \in Subsystem \ {s} : t[q] = m.sema[q]
  BY DEF Mgr
<1>2. x = [m EXCEPT !.sema = t] BY DEF Release
<1> HIDE DEF t
<1> QED BY <1>1, <1>2 DEF Mgr

(* Setting a bit that is clear, and clearing one and all but that of MPI.  *)
LEMMA SetFlagResult ==
  ASSUME NEW m \in Mgr, NEW f \in Flag, f \notin m.flags, NEW x, x = SetFlag(m, f)
  PROVE  /\ x \in Mgr /\ x.flags = m.flags \cup {f} /\ x.sema = m.sema
         /\ x.count = m.count /\ x.mpi = m.mpi
         /\ x.petscLib = m.petscLib /\ x.kokkos = m.kokkos /\ x.beganMPI = m.beganMPI
         /\ x.comm = m.comm /\ x.groups = m.groups /\ x.err = m.err
BY DEF Mgr, SetFlag

LEMMA ClearFlagResult ==
  ASSUME NEW m \in Mgr, NEW f \in Flag, NEW x, x = ClearFlag(m, f)
  PROVE  /\ x \in Mgr /\ x.sema = m.sema
         /\ x.flags = m.flags \cap (IF f = "mpi" THEN {} ELSE {"mpi", f})
         /\ x.count = m.count /\ x.mpi = m.mpi
         /\ x.petscLib = m.petscLib /\ x.kokkos = m.kokkos /\ x.beganMPI = m.beganMPI
         /\ x.comm = m.comm /\ x.groups = m.groups /\ x.err = m.err
BY DEF Mgr, ClearFlag

------------------------------------------------------------------------------
(* Initialisation *)

LEMMA MPIInitializeResult ==
  ASSUME NEW m \in Mgr, host \in BOOLEAN, Accords(m), Unchained(m), NEW n \in Nat,
         NEW x, x = MPIInitialize(m, n)
  PROVE  /\ x \in Mgr /\ Accords(x) /\ x.mpi = "up" /\ x.count = m.count
         /\ x.sema["mpi"] = IF "mpi" \in x.flags THEN 1 ELSE 2
         /\ x.sema["zoltan"] = 0 /\ x.beganMPI = m.beganMPI
         /\ x.sema["petsc"] = m.sema["petsc"] /\ x.sema["trilinos"] = m.sema["trilinos"]
<1> DEFINE c == Consume(m, "mpi")
<1>1. "mpi" \in Subsystem BY DEF Subsystem
<1>2. /\ c \in Mgr /\ c.sema["mpi"] = 1
      /\ \A q \in Subsystem \ {"mpi"} : c.sema[q] = m.sema[q]
      /\ c.count = m.count /\ c.flags = m.flags /\ c.mpi = m.mpi
      /\ c.petscLib = m.petscLib /\ c.kokkos = m.kokkos /\ c.beganMPI = m.beganMPI
      /\ c.comm = m.comm /\ c.groups = m.groups /\ c.err = m.err
  BY <1>1, ConsumeResult DEF Unchained
<1> HIDE DEF c
<1>3. "mpi" \notin c.flags BY <1>2 DEF Unchained
<1>4. CASE MPIInitialized(c)
  <2>1. x = Consume(c, "mpi") BY <1>3, <1>4 DEF MPIInitialize, c
  <2>2. /\ x \in Mgr /\ x.sema["mpi"] = 2
        /\ \A q \in Subsystem \ {"mpi"} : x.sema[q] = c.sema[q]
        /\ x.count = c.count /\ x.flags = c.flags /\ x.mpi = c.mpi
        /\ x.petscLib = c.petscLib /\ x.kokkos = c.kokkos /\ x.beganMPI = c.beganMPI
        /\ x.comm = c.comm /\ x.groups = c.groups /\ x.err = c.err
    BY <1>1, <1>2, <2>1, ConsumeResult
  <2>3. x.mpi = "up" BY <1>2, <1>4, <2>2 DEF MPIInitialized, Accords
  <2> QED BY <1>2, <1>3, <2>2, <2>3 DEF Subsystem, Accords, Unchained
<1>5. CASE ~MPIInitialized(c)
  <2> DEFINE u == initComm(c, n)
  <2>1. x = SetFlag(u, "mpi") BY <1>3, <1>5 DEF MPIInitialize, c
  <2>2. /\ u \in Mgr /\ u.mpi = "up" /\ u.comm = "valid"
        /\ u.count = c.count /\ u.flags = c.flags /\ u.sema = c.sema
        /\ u.petscLib = c.petscLib /\ u.kokkos = c.kokkos /\ u.beganMPI = c.beganMPI
        /\ u.err = c.err
    BY <1>2 DEF initComm, Mgr
  <2> HIDE DEF u
  <2>3. /\ x \in Mgr /\ x.flags = u.flags \cup {"mpi"} /\ x.sema = u.sema
        /\ x.count = u.count /\ x.mpi = u.mpi
        /\ x.petscLib = u.petscLib /\ x.kokkos = u.kokkos /\ x.beganMPI = u.beganMPI
        /\ x.comm = u.comm /\ x.err = u.err
    BY <1>3, <1>2, <2>1, <2>2, SetFlagResult DEF Flag
  <2>4. ~host /\ m.beganMPI = FALSE
    BY <1>2, <1>5 DEF MPIInitialized, Accords, Mgr
  <2> QED BY <1>2, <2>2, <2>3, <2>4 DEF Subsystem, Accords, Unchained
<1> QED BY <1>4, <1>5

(* From here on MPI is up, or the library brings it up.                    *)
LEMMA PETScInitializeResult ==
  ASSUME NEW m \in Mgr, host \in BOOLEAN, Accords(m), NEW x, x = PETScInitialize(m)
  PROVE  /\ x \in Mgr /\ Accords(x) /\ x.count = m.count
         /\ x.sema["petsc"] = m.sema["petsc"] + 1
         /\ \A q \in Subsystem \ {"petsc"} : x.sema[q] = m.sema[q]
         /\ "mpi" \in x.flags <=> "mpi" \in m.flags
         /\ x.mpi = "up" /\ (m.mpi = "up" => x.beganMPI = m.beganMPI)
<1> DEFINE c == Consume(m, "petsc")
           own == ~MPIInitialized(c)
           lib == [c EXCEPT !.petscLib = "up", !.beganMPI = own,
                            !.mpi = IF own THEN "up" ELSE @]
           up == SetFlag(lib, "petsc")
<1>1. x = IF "petsc" \in c.flags THEN c
          ELSE IF own THEN SetFlag(up, "petscmpi") ELSE up
  BY DEF PETScInitialize
<1>2. /\ c \in Mgr /\ c.sema["petsc"] = m.sema["petsc"] + 1
      /\ \A q \in Subsystem \ {"petsc"} : c.sema[q] = m.sema[q]
      /\ c.count = m.count /\ c.flags = m.flags /\ c.mpi = m.mpi
      /\ c.petscLib = m.petscLib /\ c.kokkos = m.kokkos /\ c.beganMPI = m.beganMPI
      /\ c.comm = m.comm /\ c.groups = m.groups /\ c.err = m.err
  BY ConsumeResult DEF Subsystem
<1>3. own <=> m.mpi = "none" BY <1>2 DEF MPIInitialized
<1>4. m.sema["petsc"] \in Nat /\ m.sema["trilinos"] \in Nat BY DEF Mgr, Subsystem
<1> HIDE DEF c
<1>5. CASE "petsc" \in c.flags
  <2>1. x = c BY <1>1, <1>5
  <2>2. m.sema["petsc"] > 0 BY <1>2, <1>5 DEF Accords
  <2> HIDE DEF lib, up, own
  <2> QED BY <1>2, <1>4, <2>1, <2>2 DEF Subsystem, Accords
<1>6. CASE "petsc" \notin c.flags
  <2>1. m.sema["petsc"] = 0 /\ m.beganMPI = FALSE /\ "petscmpi" \notin m.flags
    BY <1>2, <1>4, <1>6 DEF Accords, Mgr
  <2>2. /\ lib \in Mgr /\ lib.petscLib = "up" /\ lib.mpi = "up"
        /\ lib.beganMPI \in BOOLEAN /\ (lib.beganMPI = TRUE <=> m.mpi = "none")
        /\ lib.sema = c.sema /\ lib.count = c.count /\ lib.flags = c.flags
        /\ lib.kokkos = c.kokkos /\ lib.comm = c.comm /\ lib.err = c.err
    BY <1>2, <1>3 DEF Mgr, Accords
  <2> HIDE DEF lib
  <2>3. /\ up \in Mgr /\ up.flags = lib.flags \cup {"petsc"} /\ up.sema = lib.sema
        /\ up.count = lib.count /\ up.mpi = lib.mpi
        /\ up.petscLib = lib.petscLib /\ up.kokkos = lib.kokkos
        /\ up.beganMPI = lib.beganMPI /\ up.comm = lib.comm /\ up.err = lib.err
    BY <1>6, <2>2, SetFlagResult DEF Flag
  <2> HIDE DEF up
  <2>4. CASE m.mpi = "none"
    <3>1. x = SetFlag(up, "petscmpi") BY <1>1, <1>3, <1>6, <2>4
    <3>2. "petscmpi" \notin up.flags BY <1>2, <2>1, <2>2, <2>3
    <3>3. /\ x \in Mgr /\ x.flags = up.flags \cup {"petscmpi"} /\ x.sema = up.sema
          /\ x.count = up.count /\ x.mpi = up.mpi
          /\ x.petscLib = up.petscLib /\ x.kokkos = up.kokkos
          /\ x.beganMPI = up.beganMPI /\ x.comm = up.comm /\ x.err = up.err
      BY <2>3, <3>1, <3>2, SetFlagResult DEF Flag
    <3> HIDE DEF own
    <3> QED BY <1>2, <1>4, <2>1, <2>2, <2>3, <2>4, <3>3 DEF Subsystem, Accords
  <2>5. CASE m.mpi # "none"
    <3>1. x = up BY <1>1, <1>3, <1>6, <2>5
    <3>2. m.mpi = "up" /\ lib.beganMPI = FALSE BY <2>1, <2>2, <2>5 DEF Accords
    <3>3. /\ x \in Mgr /\ x.flags = m.flags \cup {"petsc"} /\ x.sema = c.sema
          /\ x.count = m.count /\ x.mpi = "up" /\ x.petscLib = "up"
          /\ x.kokkos = m.kokkos /\ x.beganMPI = FALSE /\ x.comm = m.comm
          /\ x.err = m.err
      BY <1>2, <2>2, <2>3, <3>1, <3>2
    <3> HIDE DEF own
    <3>4. Accords(x) BY <1>2, <1>4, <2>1, <3>2, <3>3 DEF Subsystem, Accords
    <3> QED BY <1>2, <2>1, <3>2, <3>3, <3>4
  <2> QED BY <2>4, <2>5
<1> QED BY <1>5, <1>6

LEMMA ZoltanInitializeResult ==
  ASSUME NEW m \in Mgr, host \in BOOLEAN, Accords(m), NEW x, x = ZoltanInitialize(m)
  PROVE  /\ x \in Mgr /\ Accords(x) /\ x.count = m.count /\ x.mpi = m.mpi
         /\ x.sema["zoltan"] = m.sema["zoltan"] + 1
         /\ \A q \in Subsystem \ {"zoltan"} : x.sema[q] = m.sema[q]
         /\ "mpi" \in x.flags <=> "mpi" \in m.flags
         /\ x.beganMPI = m.beganMPI
<1> DEFINE c == Consume(m, "zoltan")
<1>1. x = IF "zoltan" \in c.flags THEN c ELSE SetFlag(c, "zoltan")
  BY DEF ZoltanInitialize
<1>2. /\ c \in Mgr /\ c.sema["zoltan"] = m.sema["zoltan"] + 1
      /\ \A q \in Subsystem \ {"zoltan"} : c.sema[q] = m.sema[q]
      /\ c.count = m.count /\ c.flags = m.flags /\ c.mpi = m.mpi
      /\ c.petscLib = m.petscLib /\ c.kokkos = m.kokkos /\ c.beganMPI = m.beganMPI
      /\ c.comm = m.comm /\ c.groups = m.groups /\ c.err = m.err
  BY ConsumeResult DEF Subsystem
<1>3. m.sema["zoltan"] \in Nat BY DEF Mgr, Subsystem
<1> HIDE DEF c
<1>4. /\ x \in Mgr /\ x.flags = m.flags \cup {"zoltan"} /\ x.sema = c.sema
      /\ x.count = c.count /\ x.mpi = c.mpi
      /\ x.petscLib = c.petscLib /\ x.kokkos = c.kokkos /\ x.beganMPI = c.beganMPI
      /\ x.comm = c.comm /\ x.err = c.err
  BY <1>1, <1>2, SetFlagResult DEF Flag
<1> QED BY <1>2, <1>3, <1>4 DEF Subsystem, Accords

LEMMA TrilinosInitializeResult ==
  ASSUME NEW m \in Mgr, host \in BOOLEAN, Accords(m), m.mpi = "up",
         NEW x, x = TrilinosInitialize(m)
  PROVE  /\ x \in Mgr /\ Accords(x) /\ x.count = m.count /\ x.mpi = m.mpi
         /\ x.sema["trilinos"] = m.sema["trilinos"] + 1
         /\ \A q \in Subsystem \ {"trilinos"} : x.sema[q] = m.sema[q]
         /\ "mpi" \in x.flags <=> "mpi" \in m.flags
         /\ x.beganMPI = m.beganMPI
<1> DEFINE c == Consume(m, "trilinos")
           u == SetFlag(c, "trilinosmpi")
           k == [u EXCEPT !.kokkos = "up"]
<1>1. /\ c \in Mgr /\ c.sema["trilinos"] = m.sema["trilinos"] + 1
      /\ \A q \in Subsystem \ {"trilinos"} : c.sema[q] = m.sema[q]
      /\ c.count = m.count /\ c.flags = m.flags /\ c.mpi = m.mpi
      /\ c.petscLib = m.petscLib /\ c.kokkos = m.kokkos /\ c.beganMPI = m.beganMPI
      /\ c.comm = m.comm /\ c.groups = m.groups /\ c.err = m.err
  BY ConsumeResult DEF Subsystem
<1>2. x = IF "trilinos" \in c.flags THEN c ELSE SetFlag(k, "trilinos")
  BY <1>1 DEF TrilinosInitialize, MPIInitialized
<1>3. m.sema["trilinos"] \in Nat BY DEF Mgr, Subsystem
<1> HIDE DEF c
<1>4. CASE "trilinos" \in c.flags
  <2>1. x = c BY <1>2, <1>4
  <2>2. m.sema["trilinos"] > 0 BY <1>1, <1>4 DEF Accords
  <2> HIDE DEF u, k
  <2> QED BY <1>1, <1>3, <2>1, <2>2 DEF Subsystem, Accords
<1>5. CASE "trilinos" \notin c.flags
  <2>1. m.sema["trilinos"] = 0 /\ "trilinosmpi" \notin c.flags
    BY <1>1, <1>3, <1>5 DEF Accords
  <2>2. /\ u \in Mgr /\ u.flags = c.flags \cup {"trilinosmpi"} /\ u.sema = c.sema
        /\ u.count = c.count /\ u.mpi = c.mpi
        /\ u.petscLib = c.petscLib /\ u.kokkos = c.kokkos /\ u.beganMPI = c.beganMPI
        /\ u.comm = c.comm /\ u.err = c.err
    BY <1>1, <2>1, SetFlagResult DEF Flag
  <2> HIDE DEF u
  <2>3. /\ k \in Mgr /\ k.kokkos = "up" /\ k.flags = u.flags /\ k.sema = u.sema
        /\ k.count = u.count /\ k.mpi = u.mpi /\ k.petscLib = u.petscLib
        /\ k.beganMPI = u.beganMPI /\ k.comm = u.comm /\ k.err = u.err
    BY <2>2 DEF Mgr
  <2> HIDE DEF k
  <2>4. /\ x \in Mgr /\ x.flags = k.flags \cup {"trilinos"} /\ x.sema = k.sema
        /\ x.count = k.count /\ x.mpi = k.mpi
        /\ x.petscLib = k.petscLib /\ x.kokkos = k.kokkos /\ x.beganMPI = k.beganMPI
        /\ x.comm = k.comm /\ x.err = k.err
    <3>1. x = SetFlag(k, "trilinos") BY <1>2, <1>5
    <3>2. "trilinos" \notin k.flags BY <1>5, <2>2, <2>3
    <3> QED BY <2>3, <3>1, <3>2, SetFlagResult DEF Flag
  <2> QED BY <1>1, <1>3, <2>1, <2>2, <2>3, <2>4 DEF Subsystem, Accords
<1> QED BY <1>4, <1>5

(* The chain of dolfin_init().                                             *)
LEMMA StartResult ==
  ASSUME NEW m \in Mgr, host \in BOOLEAN, Accords(m), NEW n \in Nat,
         IF m.count > 0 THEN Chained(m) ELSE Unchained(m),
         NEW x, x = Start(m, n)
  PROVE  x \in Mgr /\ Accords(x) /\ x.count > 0 /\ Chained(x)
<1> DEFINE a == MPIInitialize(m, n)
           b == IF "petsc" \in built THEN PETScInitialize(a) ELSE a
           c == IF "zoltan" \in built THEN ZoltanInitialize(b) ELSE b
           d == IF "trilinos" \in built THEN TrilinosInitialize(c) ELSE c
           Grown(y) == [y EXCEPT !.count = @ + 1]
<1>1. ASSUME NEW y \in Mgr, Accords(y), Chained(y)
      PROVE  Grown(y) \in Mgr /\ Accords(Grown(y)) /\ Grown(y).count > 0 /\ Chained(Grown(y))
  <2> DEFINE z == Grown(y)
  <2>0. /\ y.count \in Nat /\ y.count + 1 \in Nat /\ y.count + 1 > 0
        /\ z = [y EXCEPT !.count = y.count + 1]
    BY DEF Mgr
  <2> HIDE DEF z
  <2>1. /\ z \in Mgr /\ z.count > 0 /\ z.flags = y.flags /\ z.sema = y.sema
        /\ z.mpi = y.mpi /\ z.petscLib = y.petscLib /\ z.kokkos = y.kokkos
        /\ z.beganMPI = y.beganMPI /\ z.comm = y.comm /\ z.err = y.err
    BY <2>0 DEF Mgr
  <2>2. Accords(z) /\ Chained(z) BY <1>1, <2>1 DEF Accords, Chained
  <2> QED BY <2>1, <2>2 DEF z
<1>2. CASE m.count > 0
  <2>1. m.count # 0 /\ m.err = "none" BY <1>2 DEF Mgr, Accords
  <2>2. x = Grown(m) BY <2>1 DEF Start
  <2> QED BY <1>1, <1>2, <2>2
<1>3. CASE ~(m.count > 0)
  <2>0. m.count = 0 BY <1>3 DEF Mgr
  <2>1. /\ a \in Mgr /\ Accords(a) /\ a.mpi = "up" /\ a.count = m.count
        /\ a.sema["mpi"] = IF "mpi" \in a.flags THEN 1 ELSE 2
        /\ a.sema["zoltan"] = 0 /\ a.beganMPI = m.beganMPI
    BY <1>3, MPIInitializeResult
  <2>2. a.err = "none" BY <2>1 DEF Accords
  <2>3. IfBuilt("petsc", a, PETScInitialize) = b BY <2>2 DEF IfBuilt, Then
  <2> HIDE DEF a
  <2>4. /\ b \in Mgr /\ Accords(b) /\ b.mpi = "up" /\ b.count = m.count
        /\ b.sema["mpi"] = IF "mpi" \in b.flags THEN 1 ELSE 2
        /\ b.sema["zoltan"] = 0
        /\ "petsc" \in built => b.sema["petsc"] > 0
        /\ b.beganMPI = TRUE /\ "petsc" \in built => b.sema["petsc"] > 1
    <3>1. CASE "petsc" \notin built BY <2>1, <3>1
    <3>2. CASE "petsc" \in built
      <4>1. /\ b \in Mgr /\ Accords(b) /\ b.count = a.count
            /\ b.sema["petsc"] = a.sema["petsc"] + 1
            /\ \A q \in Subsystem \ {"petsc"} : b.sema[q] = a.sema[q]
            /\ "mpi" \in b.flags <=> "mpi" \in a.flags
            /\ b.mpi = "up" /\ b.beganMPI = a.beganMPI
        BY <2>1, <3>2, PETScInitializeResult
      <4>2. a.sema["petsc"] \in Nat BY <2>1 DEF Mgr, Subsystem
      <4>3. a.beganMPI = TRUE => a.sema["petsc"] > 0 BY <2>1 DEF Accords
      <4> HIDE DEF b
      <4> QED BY <2>1, <4>1, <4>2, <4>3 DEF Subsystem
    <3> QED BY <3>1, <3>2
  <2>5. b.err = "none" BY <2>4 DEF Accords
  <2>6. IfBuilt("zoltan", b, ZoltanInitialize) = c BY <2>5 DEF IfBuilt, Then
  <2> HIDE DEF b
  <2>7. /\ c \in Mgr /\ Accords(c) /\ c.mpi = "up" /\ c.count = m.count
        /\ c.sema["mpi"] = IF "mpi" \in c.flags THEN 1 ELSE 2
        /\ "zoltan" \in built => c.sema["zoltan"] = 1
        /\ "petsc" \in built => c.sema["petsc"] > 0
        /\ c.beganMPI = TRUE /\ "petsc" \in built => c.sema["petsc"] > 1
    <3>1. CASE "zoltan" \notin built BY <2>4, <3>1
    <3>2. CASE "zoltan" \in built
      <4>1. /\ c \in Mgr /\ Accords(c) /\ c.count = b.count /\ c.mpi = b.mpi
            /\ c.sema["zoltan"] = b.sema["zoltan"] + 1
            /\ \A q \in Subsystem \ {"zoltan"} : c.sema[q] = b.sema[q]
            /\ "mpi" \in c.flags <=> "mpi" \in b.flags
            /\ c.beganMPI = b.beganMPI
        BY <2>4, <3>2, ZoltanInitializeResult
      <4> HIDE DEF c
      <4> QED BY <2>4, <4>1 DEF Subsystem
    <3> QED BY <3>1, <3>2
  <2>8. c.err = "none" BY <2>7 DEF Accords
  <2>9. IfBuilt("trilinos", c, TrilinosInitialize) = d BY <2>8 DEF IfBuilt, Then
  <2> HIDE DEF c
  <2>10. d \in Mgr /\ Accords(d) /\ Chained(d)
    <3>1. CASE "trilinos" \notin built BY <2>7, <3>1 DEF Chained
    <3>2. CASE "trilinos" \in built
      <4>1. /\ d \in Mgr /\ Accords(d) /\ d.count = c.count /\ d.mpi = c.mpi
            /\ d.sema["trilinos"] = c.sema["trilinos"] + 1
            /\ \A q \in Subsystem \ {"trilinos"} : d.sema[q] = c.sema[q]
            /\ "mpi" \in d.flags <=> "mpi" \in c.flags
            /\ d.beganMPI = c.beganMPI
        BY <2>7, <3>2, TrilinosInitializeResult
      <4>2. c.sema["trilinos"] \in Nat BY <2>7 DEF Mgr, Subsystem
      <4> HIDE DEF d
      <4> QED BY <2>7, <4>1, <4>2 DEF Subsystem, Chained
    <3> QED BY <3>1, <3>2
  <2>11. d.err = "none" BY <2>10 DEF Accords
  <2>12. x = Grown(d)
    <3> HIDE DEF d
    <3> QED BY <2>0, <2>3, <2>6, <2>9, <2>11 DEF Start, a
  <2> HIDE DEF d, Grown
  <2> QED BY <1>1, <2>10, <2>12
<1> QED BY <1>2, <1>3

------------------------------------------------------------------------------
(* Finalisation *)

LEMMA ZoltanFinalizeResult ==
  ASSUME NEW m \in Mgr, m.sema["zoltan"] = 1, NEW x, x = ZoltanFinalize(m)
  PROVE  /\ x \in Mgr /\ x.flags \subseteq m.flags
         /\ "mpi" \in x.flags <=> "mpi" \in m.flags
         /\ \A q \in Subsystem \ {"zoltan"} : x.sema[q] = m.sema[q]
         /\ x.count = m.count /\ x.mpi = m.mpi
         /\ x.petscLib = m.petscLib /\ x.kokkos = m.kokkos /\ x.beganMPI = m.beganMPI
         /\ x.comm = m.comm /\ x.groups = m.groups /\ x.err = m.err
<1> DEFINE c == Release(m, "zoltan")
<1>1. /\ c \in Mgr /\ c.sema["zoltan"] = 0
      /\ \A q \in Subsystem \ {"zoltan"} : c.sema[q] = m.sema[q]
      /\ c.count = m.count /\ c.flags = m.flags /\ c.mpi = m.mpi
      /\ c.petscLib = m.petscLib /\ c.kokkos = m.kokkos /\ c.beganMPI = m.beganMPI
      /\ c.comm = m.comm /\ c.groups = m.groups /\ c.err = m.err
  BY ReleaseResult DEF Subsystem
<1>2. x = ClearFlag(c, "zoltan") BY <1>1 DEF ZoltanFinalize
<1> HIDE DEF c
<1> QED BY <1>1, <1>2, ClearFlagResult DEF Flag

(* PETSc has a consumer, and one more when it is to finalise MPI.          *)
PETScHeld(m) ==
  /\ m.sema["petsc"] > 0 /\ m.petscLib = "up"
  /\ m.beganMPI = TRUE => m.sema["petsc"] > 1
  /\ "petscmpi" \in m.flags => m.beganMPI = TRUE

LEMMA PETScFinalizeResult ==
  ASSUME NEW m \in Mgr, PETScHeld(m), NEW x, x = PETScFinalize(m)
  PROVE  /\ x \in Mgr /\ x.flags \subseteq m.flags
         /\ "mpi" \in x.flags <=> "mpi" \in m.flags
         /\ \A q \in Subsystem \ {"petsc"} : x.sema[q] = m.sema[q]
         /\ x.petscLib = "up" <=> x.sema["petsc"] > 0
         /\ x.count = m.count /\ x.mpi = m.mpi
         /\ x.kokkos = m.kokkos /\ x.beganMPI = m.beganMPI
         /\ x.comm = m.comm /\ x.groups = m.groups /\ x.err = m.err
<1> DEFINE c == Release(m, "petsc")
           lib == [c EXCEPT !.petscLib = "down",
                            !.mpi = IF c.beganMPI THEN "final" ELSE @]
           rel == IF "petscmpi" \in lib.flags THEN ClearFlag(lib, "petscmpi") ELSE lib
<1>1. /\ c \in Mgr /\ c.sema["petsc"] = m.sema["petsc"] - 1
      /\ \A q \in Subsystem \ {"petsc"} : c.sema[q] = m.sema[q]
      /\ c.count = m.count /\ c.flags = m.flags /\ c.mpi = m.mpi
      /\ c.petscLib = m.petscLib /\ c.kokkos = m.kokkos /\ c.beganMPI = m.beganMPI
      /\ c.comm = m.comm /\ c.groups = m.groups /\ c.err = m.err
  BY ReleaseResult DEF Subsystem, PETScHeld
<1>2. m.sema["petsc"] # 0 /\ m.sema["petsc"] \in Nat BY DEF Mgr, Subsystem, PETScHeld
<1>3. x = IF c.sema["petsc"] > 0 THEN c
          ELSE IF "petscmpi" \in c.flags /\ c.sema["mpi"] > 1 THEN c
          ELSE ClearFlag(rel, "petsc")
  BY <1>2 DEF PETScFinalize
<1> HIDE DEF c
<1>4. CASE c.sema["petsc"] > 0
  <2>1. x = c BY <1>3, <1>4
  <2> HIDE DEF lib, rel
  <2> QED BY <1>1, <1>4, <2>1 DEF PETScHeld
<1>5. CASE ~(c.sema["petsc"] > 0)
  <2>1. m.beganMPI = FALSE /\ c.sema["petsc"] = 0 /\ "petscmpi" \notin c.flags
    BY <1>1, <1>2, <1>5 DEF Mgr, PETScHeld
  <2>2. /\ lib \in Mgr /\ lib.petscLib = "down" /\ lib.mpi = c.mpi
        /\ lib.sema = c.sema /\ lib.count = c.count /\ lib.flags = c.flags
        /\ lib.kokkos = c.kokkos /\ lib.beganMPI = c.beganMPI
        /\ lib.comm = c.comm /\ lib.groups = c.groups /\ lib.err = c.err
    BY <1>1, <2>1 DEF Mgr
  <2>3. rel = lib BY <2>1, <2>2
  <2> HIDE DEF lib, rel
  <2>4. x = ClearFlag(lib, "petsc") BY <1>3, <1>5, <2>1, <2>3
  <2>5. /\ x \in Mgr /\ x.sema = lib.sema /\ x.flags = lib.flags \cap {"mpi", "petsc"}
        /\ x.count = lib.count /\ x.mpi = lib.mpi
        /\ x.petscLib = lib.petscLib /\ x.kokkos = lib.kokkos
        /\ x.beganMPI = lib.beganMPI
        /\ x.comm = lib.comm /\ x.groups = lib.groups /\ x.err = lib.err
    BY <2>2, <2>4, ClearFlagResult DEF Flag
  <2> QED BY <1>1, <2>1, <2>2, <2>5
<1> QED BY <1>4, <1>5

(* Trilinos refuses to go down while MPI has another consumer.             *)
LEMMA TrilinosFinalizeResult ==
  ASSUME NEW m \in Mgr, m.sema["trilinos"] > 0, m.kokkos = "up", m.err = "none",
         NEW x, x = TrilinosFinalize(m)
  PROVE  /\ x \in Mgr /\ x.flags \subseteq m.flags
         /\ "mpi" \in x.flags <=> "mpi" \in m.flags
         /\ \A q \in Subsystem \ {"trilinos"} : x.sema[q] = m.sema[q]
         /\ x.count = m.count /\ x.mpi = m.mpi
         /\ x.petscLib = m.petscLib /\ x.beganMPI = m.beganMPI
         /\ x.comm = m.comm /\ x.groups = m.groups
         /\ \/ x.err = "TrilinosAfterMPI" /\ m.sema["mpi"] > 1
            \/ x.err = "none" /\ (x.kokkos = "up" <=> x.sema["trilinos"] > 0)
<1> DEFINE c == Release(m, "trilinos")
           k == [c EXCEPT !.kokkos = "down"]
<1>1. /\ c \in Mgr /\ c.sema["trilinos"] = m.sema["trilinos"] - 1
      /\ \A q \in Subsystem \ {"trilinos"} : c.sema[q] = m.sema[q]
      /\ c.count = m.count /\ c.flags = m.flags /\ c.mpi = m.mpi
      /\ c.petscLib = m.petscLib /\ c.kokkos = m.kokkos /\ c.beganMPI = m.beganMPI
      /\ c.comm = m.comm /\ c.groups = m.groups /\ c.err = m.err
  BY ReleaseResult DEF Subsystem
<1>2. m.sema["trilinos"] # 0 /\ m.sema["trilinos"] \in Nat BY DEF Mgr, Subsystem
<1>3. x = IF c.sema["trilinos"] > 0 THEN c
          ELSE IF "trilinosmpi" \in c.flags /\ c.sema["mpi"] > 1
               THEN Fail(c, "TrilinosAfterMPI")
          ELSE ClearFlag(k, "trilinos")
  BY <1>2 DEF TrilinosFinalize
<1> HIDE DEF c
<1>4. CASE c.sema["trilinos"] > 0
  <2>1. x = c BY <1>3, <1>4
  <2> HIDE DEF k
  <2> QED BY <1>1, <1>4, <2>1
<1>5. CASE ~(c.sema["trilinos"] > 0) /\ "trilinosmpi" \in c.flags /\ c.sema["mpi"] > 1
  <2>1. x = Fail(c, "TrilinosAfterMPI") BY <1>3, <1>5
  <2>2. /\ x \in Mgr /\ x.err = "TrilinosAfterMPI" /\ x.sema = c.sema
        /\ x.count = c.count /\ x.flags = c.flags /\ x.mpi = c.mpi
        /\ x.petscLib = c.petscLib /\ x.beganMPI = c.beganMPI
        /\ x.comm = c.comm /\ x.groups = c.groups
    BY <1>1, <2>1 DEF Mgr, Fail, Errors
  <2> HIDE DEF k
  <2> QED BY <1>1, <1>5, <2>2 DEF Subsystem
<1>6. CASE ~(c.sema["trilinos"] > 0) /\ ~("trilinosmpi" \in c.flags /\ c.sema["mpi"] > 1)
  <2>1. x = ClearFlag(k, "trilinos") BY <1>3, <1>6
  <2>2. /\ k \in Mgr /\ k.kokkos = "down" /\ k.sema = c.sema
        /\ k.count = c.count /\ k.flags = c.flags /\ k.mpi = c.mpi
        /\ k.petscLib = c.petscLib /\ k.beganMPI = c.beganMPI
        /\ k.comm = c.comm /\ k.groups = c.groups /\ k.err = c.err
    BY <1>1 DEF Mgr
  <2> HIDE DEF k
  <2>3. /\ x \in Mgr /\ x.sema = k.sema /\ x.flags = k.flags \cap {"mpi", "trilinos"}
        /\ x.count = k.count /\ x.mpi = k.mpi
        /\ x.petscLib = k.petscLib /\ x.kokkos = k.kokkos /\ x.beganMPI = k.beganMPI
        /\ x.comm = k.comm /\ x.groups = k.groups /\ x.err = k.err
    BY <2>1, <2>2, ClearFlagResult DEF Flag
  <2> QED BY <1>1, <1>6, <2>2, <2>3
<1> QED BY <1>4, <1>5, <1>6

(* The last consumer of MPI frees the communicators and finalises MPI.     *)
LEMMA MPIFinalizeResult ==
  ASSUME NEW m \in Mgr, m.sema["mpi"] > 0, m.mpi = "up", NEW x, x = MPIFinalize(m)
  PROVE  /\ x \in Mgr /\ x.sema["mpi"] = m.sema["mpi"] - 1
         /\ \A q \in Subsystem \ {"mpi"} : x.sema[q] = m.sema[q]
         /\ x.count = m.count /\ x.petscLib = m.petscLib /\ x.kokkos = m.kokkos
         /\ x.beganMPI = m.beganMPI /\ x.groups = m.groups /\ x.err = m.err
         /\ IF x.sema["mpi"] > 0 \/ "petscmpi" \in m.flags
            THEN x.mpi = "up" /\ x.comm = m.comm
            ELSE x.mpi = "final" /\ x.comm = "freed"
<1> DEFINE c == Release(m, "mpi")
           f == [c EXCEPT !.comm = "freed", !.mpi = "final"]
<1>1. /\ c \in Mgr /\ c.sema["mpi"] = m.sema["mpi"] - 1
      /\ \A q \in Subsystem \ {"mpi"} : c.sema[q] = m.sema[q]
      /\ c.count = m.count /\ c.flags = m.flags /\ c.mpi = m.mpi
      /\ c.petscLib = m.petscLib /\ c.kokkos = m.kokkos /\ c.beganMPI = m.beganMPI
      /\ c.comm = m.comm /\ c.groups = m.groups /\ c.err = m.err
  BY ReleaseResult DEF Subsystem
<1>2. m.sema["mpi"] # 0 BY DEF Mgr, Subsystem
<1>3. x = IF c.sema["mpi"] > 0 \/ "petscmpi" \in c.flags THEN c ELSE ClearFlag(f, "mpi")
  BY <1>1, <1>2 DEF MPIFinalize, MPIInitialized
<1> HIDE DEF c
<1>4. CASE c.sema["mpi"] > 0 \/ "petscmpi" \in c.flags
  <2> HIDE DEF f
  <2> QED BY <1>1, <1>3, <1>4
<1>5. CASE ~(c.sema["mpi"] > 0 \/ "petscmpi" \in c.flags)
  <2>1. x = ClearFlag(f, "mpi") BY <1>3, <1>5
  <2>2. /\ f \in Mgr /\ f.comm = "freed" /\ f.mpi = "final" /\ f.sema = c.sema
        /\ f.count = c.count /\ f.flags = c.flags /\ f.petscLib = c.petscLib
        /\ f.kokkos = c.kokkos /\ f.beganMPI = c.beganMPI
        /\ f.groups = c.groups /\ f.err = c.err
    BY <1>1 DEF Mgr
  <2> HIDE DEF f
  <2>3. /\ x \in Mgr /\ x.sema = f.sema /\ x.count = f.count /\ x.mpi = f.mpi
        /\ x.petscLib = f.petscLib /\ x.kokkos = f.kokkos /\ x.beganMPI = f.beganMPI
        /\ x.comm = f.comm /\ x.groups = f.groups /\ x.err = f.err
    BY <2>1, <2>2, ClearFlagResult DEF Flag
  <2> QED BY <1>1, <1>5, <2>2, <2>3
<1> QED BY <1>4, <1>5

(* What the properties ask of a manager.                                   *)
Sound(m) ==
  /\ host => m.mpi = "up"
  /\ m.comm = "valid" => m.mpi = "up"
  /\ m.err # "Carry"
  /\ m.err = "none" =>
       /\ m.sema["petsc"] = 0 <=> m.petscLib # "up"
       /\ m.sema["trilinos"] = 0 <=> m.kokkos # "up"
       /\ m.sema["mpi"] = 0 => (m.mpi # "up" \/ m.beganMPI \/ host)

LEMMA AccordsAreSound ==
  ASSUME NEW m \in Mgr, host \in BOOLEAN, Accords(m),
         IF m.count > 0 THEN Chained(m) ELSE Unchained(m)
  PROVE  Sound(m)
<1>1. m.sema["petsc"] \in Nat /\ m.sema["trilinos"] \in Nat /\ m.beganMPI \in BOOLEAN
  BY DEF Mgr, Subsystem
<1>2. (host => m.mpi = "up") /\ (m.comm = "valid" => m.mpi = "up") BY DEF Accords
<1>3. /\ m.err = "none"
      /\ m.sema["petsc"] = 0 <=> m.petscLib # "up"
      /\ m.sema["trilinos"] = 0 <=> m.kokkos # "up"
  BY <1>1 DEF Accords
<1>4. m.sema["mpi"] = 0 => (m.mpi # "up" \/ m.beganMPI = TRUE \/ host)
  BY DEF Accords, Chained, Unchained
<1>5. m.beganMPI = TRUE => m.beganMPI BY <1>1
<1> QED BY <1>2, <1>3, <1>4, <1>5 DEF Sound

(* The chain of the destructor.                                            *)
LEMMA FinalizeResult ==
  ASSUME NEW m \in Mgr, host \in BOOLEAN, Accords(m),
         IF m.count > 0 THEN Chained(m) ELSE Unchained(m),
         NEW x, x = Finalize(m)
  PROVE  x \in Mgr /\ Sound(x)
<1> DEFINE a == IF "zoltan" \in built THEN ZoltanFinalize(m) ELSE m
           b == IF "petsc" \in built THEN PETScFinalize(a) ELSE a
           c == IF "trilinos" \in built THEN TrilinosFinalize(b) ELSE b
           d == MPIFinalize(c)
           Reset(y) == [y EXCEPT !.count = 0]
<1>1. ASSUME NEW y \in Mgr, Sound(y) PROVE Reset(y) \in Mgr /\ Sound(Reset(y))
  <2> DEFINE z == Reset(y)
  <2>1. z = [y EXCEPT !.count = 0] /\ 0 \in Nat OBVIOUS
  <2> HIDE DEF z
  <2>2. /\ z \in Mgr /\ z.sema = y.sema
        /\ z.mpi = y.mpi /\ z.petscLib = y.petscLib /\ z.kokkos = y.kokkos
        /\ z.beganMPI = y.beganMPI /\ z.comm = y.comm /\ z.err = y.err
    BY <2>1 DEF Mgr
  <2>3. Sound(z) BY <1>1, <2>2 DEF Sound
  <2> QED BY <2>2, <2>3 DEF z
<1>2. m.err = "none" BY DEF Accords
<1>3. CASE ~(m.count > 0)
  <2>1. x = Reset(m) BY <1>2, <1>3 DEF Finalize
  <2> HIDE DEF Reset
  <2> QED BY <1>1, <1>3, <2>1, AccordsAreSound
<1>4. CASE m.count > 0
  <2>1. Chained(m) /\ m.sema \in [Subsystem -> Nat] /\ m.beganMPI \in BOOLEAN
    BY <1>4 DEF Mgr
  <2>2. IfBuilt("zoltan", m, ZoltanFinalize) = a BY <1>2 DEF IfBuilt, Then
  <2>3. /\ a \in Mgr /\ a.flags \subseteq m.flags
        /\ "mpi" \in a.flags <=> "mpi" \in m.flags
        /\ \A q \in Subsystem \ {"zoltan"} : a.sema[q] = m.sema[q]
        /\ a.count = m.count /\ a.mpi = m.mpi
        /\ a.petscLib = m.petscLib /\ a.kokkos = m.kokkos /\ a.beganMPI = m.beganMPI
        /\ a.comm = m.comm /\ a.err = "none"
    <3>1. CASE "zoltan" \notin built BY <1>2, <3>1
    <3>2. CASE "zoltan" \in built
      <4>1. m.sema["zoltan"] = 1 BY <2>1, <3>2 DEF Chained
      <4> QED BY <1>2, <3>2, <4>1, ZoltanFinalizeResult
    <3> QED BY <3>1, <3>2
  <2> HIDE DEF a
  <2>4. IfBuilt("petsc", a, PETScFinalize) = b BY <2>3 DEF IfBuilt, Then
  <2>5. /\ b \in Mgr /\ b.flags \subseteq m.flags
        /\ "mpi" \in b.flags <=> "mpi" \in m.flags
        /\ b.sema["mpi"] = m.sema["mpi"] /\ b.sema["trilinos"] = m.sema["trilinos"]
        /\ b.petscLib = "up" <=> b.sema["petsc"] > 0
        /\ b.count = m.count /\ b.mpi = m.mpi
        /\ b.kokkos = m.kokkos /\ b.beganMPI = m.beganMPI
        /\ b.comm = m.comm /\ b.err = "none"
    <3>1. CASE "petsc" \notin built
      <4>1. a.petscLib = "up" <=> a.sema["petsc"] > 0
        BY <2>3 DEF Accords, Subsystem
      <4>2. b = a BY <3>1
      <4> HIDE DEF b
      <4> QED BY <2>3, <4>1, <4>2 DEF Subsystem
    <3>2. CASE "petsc" \in built
      <4>1. PETScHeld(a)
        BY <2>1, <2>3, <3>2 DEF Accords, Chained, Subsystem, PETScHeld
      <4>2. /\ b \in Mgr /\ b.flags \subseteq a.flags
            /\ "mpi" \in b.flags <=> "mpi" \in a.flags
            /\ \A q \in Subsystem \ {"petsc"} : b.sema[q] = a.sema[q]
            /\ b.petscLib = "up" <=> b.sema["petsc"] > 0
            /\ b.count = a.count /\ b.mpi = a.mpi
            /\ b.kokkos = a.kokkos /\ b.beganMPI = a.beganMPI
            /\ b.comm = a.comm /\ b.err = a.err
        BY <2>3, <3>2, <4>1, PETScFinalizeResult
      <4> HIDE DEF b
      <4> QED BY <2>3, <4>2 DEF Subsystem
    <3> QED BY <3>1, <3>2
  <2> HIDE DEF b
  <2>6. IfBuilt("trilinos", b, TrilinosFinalize) = c BY <2>5 DEF IfBuilt, Then
  <2>7. /\ c \in Mgr /\ c.flags \subseteq m.flags
        /\ c.sema["mpi"] = m.sema["mpi"] /\ c.sema["petsc"] = b.sema["petsc"]
        /\ c.petscLib = b.petscLib /\ c.count = m.count /\ c.mpi = m.mpi
        /\ c.beganMPI = m.beganMPI /\ c.comm = m.comm
        /\ \/ c.err = "TrilinosAfterMPI" /\ m.sema["mpi"] > 1
           \/ c.err = "none" /\ (c.kokkos = "up" <=> c.sema["trilinos"] > 0)
    <3>1. CASE "trilinos" \notin built
      <4>1. b.kokkos = "up" <=> b.sema["trilinos"] > 0 BY <2>5 DEF Accords
      <4>2. c = b BY <3>1
      <4> HIDE DEF c
      <4> QED BY <2>5, <4>1, <4>2
    <3>2. CASE "trilinos" \in built
      <4>1. b.sema["trilinos"] > 0 /\ b.kokkos = "up"
        BY <2>1, <2>5, <3>2 DEF Accords, Chained
      <4>2. /\ c \in Mgr /\ c.flags \subseteq b.flags
            /\ \A q \in Subsystem \ {"trilinos"} : c.sema[q] = b.sema[q]
            /\ c.count = b.count /\ c.mpi = b.mpi
            /\ c.petscLib = b.petscLib /\ c.beganMPI = b.beganMPI
            /\ c.comm = b.comm
            /\ \/ c.err = "TrilinosAfterMPI" /\ b.sema["mpi"] > 1
               \/ c.err = "none" /\ (c.kokkos = "up" <=> c.sema["trilinos"] > 0)
        BY <2>5, <3>2, <4>1, TrilinosFinalizeResult
      <4> HIDE DEF c
      <4> QED BY <2>5, <4>2 DEF Subsystem
    <3> QED BY <3>1, <3>2
  <2> HIDE DEF c
  <2>8. /\ m.mpi = "up" /\ (m.comm = "valid" => m.sema["mpi"] = 1)
        /\ m.sema["mpi"] \in {1, 2} /\ (host => m.sema["mpi"] = 2)
        /\ m.sema["mpi"] = 1 => m.beganMPI = FALSE /\ "petscmpi" \notin m.flags
    BY <2>1 DEF Accords, Chained
  <2>9. c.sema["petsc"] \in Nat /\ c.sema["trilinos"] \in Nat BY <2>7 DEF Mgr, Subsystem
  <2>10. CASE c.err = "TrilinosAfterMPI"
    <3>1. IfBuilt("trilinos", b, TrilinosFinalize).err # "none" BY <2>6, <2>10
    <3>2. x = c BY <1>4, <2>2, <2>4, <2>6, <2>10 DEF Finalize, Then
    <3> HIDE DEF d, Reset
    <3> QED BY <2>7, <2>8, <2>10, <3>2 DEF Sound
  <2>11. CASE c.err = "none"
    <3>1. /\ d \in Mgr /\ d.sema["mpi"] = c.sema["mpi"] - 1
          /\ \A q \in Subsystem \ {"mpi"} : d.sema[q] = c.sema[q]
          /\ d.count = c.count /\ d.petscLib = c.petscLib /\ d.kokkos = c.kokkos
          /\ d.beganMPI = c.beganMPI /\ d.err = c.err
          /\ IF d.sema["mpi"] > 0 \/ "petscmpi" \in c.flags
             THEN d.mpi = "up" /\ d.comm = c.comm
             ELSE d.mpi = "final" /\ d.comm = "freed"
      BY <2>7, <2>8, MPIFinalizeResult
    <3>2. x = Reset(d)
      <4>1. Then(c, MPIFinalize) = d BY <2>11 DEF Then
      <4>2. d.err = "none" BY <2>11, <3>1
      <4> HIDE DEF d
      <4> QED BY <1>4, <2>2, <2>4, <2>6, <4>1, <4>2 DEF Finalize
    <3> HIDE DEF d
    <3>3. Sound(d)
      <4>1. CASE m.sema["mpi"] = 1
        <5>1. d.mpi = "final" /\ d.comm = "freed" /\ ~host
          BY <2>7, <2>8, <3>1, <4>1
        <5> QED BY <2>5, <2>7, <2>9, <2>11, <3>1, <5>1 DEF Sound, Subsystem
      <4>2. CASE m.sema["mpi"] = 2
        <5>1. d.mpi = "up" /\ d.sema["mpi"] = 1 BY <2>7, <3>1, <4>2
        <5> QED BY <2>5, <2>7, <2>9, <2>11, <3>1, <5>1 DEF Sound, Subsystem
      <4> QED BY <2>8, <4>1, <4>2
    <3> HIDE DEF Reset
    <3> QED BY <1>1, <3>1, <3>2, <3>3
  <2> QED BY <2>7, <2>10, <2>11
<1> QED BY <1>3, <1>4

------------------------------------------------------------------------------
(* The invariant *)

LEMMA InitManager == Init => ManagerInv
<1> SUFFICES ASSUME Init PROVE ManagerInv OBVIOUS
<1>1. wsize \in Nat \ {0} /\ host = FALSE /\ phase = "running"
  BY BoundAssumption DEF Init
<1>2. mgr \in Mgr BY DEF Init, Mgr, Errors
<1>3. Live /\ ~(mgr.count > 0) BY DEF Init, Live
<1>4. Accords(mgr) BY <1>1 DEF Init, Accords, Subsystem
<1>5. Unchained(mgr) BY DEF Init, Unchained, Subsystem
<1> QED BY <1>1, <1>2, <1>3, <1>4, <1>5 DEF ManagerInv

LEMMA SoundMeans ==
  Sound(mgr) <=> HostKeepsMPI /\ CommFreedBeforeMPI /\ SemaphoreLifetime
BY DEF Sound, HostKeepsMPI, CommFreedBeforeMPI, SemaphoreLifetime

(* The parts of the invariant look at the manager and at what never        *)
(* changes, and at the host.                                               *)
LEMMA Unmoved ==
  ASSUME host' = host, built' = built, wsize' = wsize
  PROVE  /\ Accords(mgr)' <=> Accords(mgr')
         /\ Chained(mgr)' <=> Chained(mgr')
         /\ Unchained(mgr)' <=> Unchained(mgr')
         /\ Sound(mgr)' <=> Sound(mgr')
         /\ Mgr' = Mgr
BY DEF Accords, Chained, Unchained, Sound, Mgr

LEMMA NextManager == ManagerInv /\ [Next]_vars => ManagerInv'
<1> SUFFICES ASSUME ManagerInv, [Next]_vars PROVE ManagerInv' OBVIOUS
<1>1. CASE UNCHANGED vars
  BY <1>1 DEF vars, ManagerInv, Live, Accords, Chained, Unchained, Mgr,
     HostKeepsMPI, CommFreedBeforeMPI, SemaphoreLifetime
<1>2. CASE Next
  <2>1. /\ phase = "running" /\ mgr.err = "none"
        /\ built' = built /\ wsize' = wsize
    BY <1>2 DEF Next, HostMPIInit, dolfin_init, NewPETScObject, NewTrilinosObject,
       NewConsumer, Exit
  <2>2. /\ mgr \in Mgr /\ host \in BOOLEAN /\ wsize \in Nat \ {0} /\ Accords(mgr)
        /\ IF mgr.count > 0 THEN Chained(mgr) ELSE Unchained(mgr)
    BY <2>1 DEF ManagerInv, Live
  <2>3. CASE HostMPIInit
    <3>1. /\ mgr.mpi = "none" /\ host' = TRUE /\ phase' = "running"
          /\ mgr' = [mgr EXCEPT !.mpi = "up"]
      BY <2>3 DEF HostMPIInit
    <3>2. /\ mgr' \in Mgr /\ mgr'.mpi = "up"
          /\ mgr'.count = mgr.count /\ mgr'.flags = mgr.flags /\ mgr'.sema = mgr.sema
          /\ mgr'.petscLib = mgr.petscLib /\ mgr'.kokkos = mgr.kokkos
          /\ mgr'.beganMPI = mgr.beganMPI /\ mgr'.comm = mgr.comm
          /\ mgr'.err = mgr.err
      BY <2>2, <3>1 DEF Mgr
    <3>3. "mpi" \notin mgr.flags /\ mgr.beganMPI = FALSE /\ ~(mgr.count > 0)
      <4>1. mgr.beganMPI \in BOOLEAN BY <2>2 DEF Mgr
      <4> QED BY <2>2, <3>1, <4>1 DEF Accords, Chained
    <3>4. Accords(mgr)' BY <2>2, <3>1, <3>2, <3>3 DEF Accords
    <3>5. Unchained(mgr)' BY <2>2, <3>2, <3>3 DEF Unchained
    <3>6. mgr' \in Mgr' BY <2>1, <3>2 DEF Mgr
    <3> QED BY <2>1, <2>2, <3>1, <3>2, <3>3, <3>4, <3>5, <3>6 DEF ManagerInv, Live
  <2>4. ASSUME NEW n \in 0 .. MaxWorld, dolfin_init(n) PROVE ManagerInv'
    <3>1. mgr' = Start(mgr, n) /\ host' = host /\ phase' = phase /\ n \in Nat
      BY <2>4, BoundAssumption DEF dolfin_init, NewConsumer
    <3>2. mgr' \in Mgr /\ Accords(mgr') /\ mgr'.count > 0 /\ Chained(mgr')
      BY <2>2, <3>1, StartResult
    <3>3. mgr'.err = "none" BY <3>2 DEF Accords
    <3>4. mgr' \in Mgr' /\ Accords(mgr)' /\ Chained(mgr)' BY <2>1, <3>1, <3>2, Unmoved
    <3> QED BY <2>1, <2>2, <3>1, <3>2, <3>3, <3>4 DEF ManagerInv, Live
  <2>5. CASE NewPETScObject
    <3>1. mgr' = PETScInitialize(mgr) /\ host' = host /\ phase' = phase
      BY <2>5 DEF NewPETScObject, NewConsumer
    <3>2. /\ mgr' \in Mgr /\ Accords(mgr') /\ mgr'.count = mgr.count
          /\ mgr'.sema["petsc"] = mgr.sema["petsc"] + 1
          /\ \A q \in Subsystem \ {"petsc"} : mgr'.sema[q] = mgr.sema[q]
          /\ "mpi" \in mgr'.flags <=> "mpi" \in mgr.flags
          /\ mgr'.mpi = "up" /\ (mgr.mpi = "up" => mgr'.beganMPI = mgr.beganMPI)
      BY <2>2, <3>1, PETScInitializeResult
    <3>3. mgr.sema["petsc"] \in Nat BY <2>2 DEF Mgr, Subsystem
    <3>4. IF mgr'.count > 0 THEN Chained(mgr') ELSE Unchained(mgr')
      <4>1. CASE mgr.count > 0
        <5>1. mgr.mpi = "up" BY <2>2, <4>1 DEF Chained, Accords
        <5> QED BY <2>2, <3>2, <3>3, <4>1, <5>1 DEF Chained, Subsystem
      <4>2. CASE ~(mgr.count > 0)
        BY <2>2, <3>2, <4>2 DEF Unchained, Subsystem
      <4> QED BY <4>1, <4>2
    <3>5. mgr'.err = "none" BY <3>2 DEF Accords
    <3>6. /\ mgr' \in Mgr' /\ Accords(mgr)'
          /\ IF mgr'.count > 0 THEN Chained(mgr)' ELSE Unchained(mgr)'
      BY <2>1, <3>1, <3>2, <3>4, Unmoved
    <3> QED BY <2>1, <2>2, <3>1, <3>5, <3>6 DEF ManagerInv, Live
  <2>6. CASE NewTrilinosObject
    <3>1. mgr' = TrilinosInitialize(mgr) /\ host' = host /\ phase' = phase
      BY <2>6 DEF NewTrilinosObject, NewConsumer
    <3>2. CASE mgr.mpi = "up"
      <4>1. /\ mgr' \in Mgr /\ Accords(mgr') /\ mgr'.count = mgr.count
            /\ mgr'.mpi = mgr.mpi
            /\ mgr'.sema["trilinos"] = mgr.sema["trilinos"] + 1
            /\ \A q \in Subsystem \ {"trilinos"} : mgr'.sema[q] = mgr.sema[q]
            /\ "mpi" \in mgr'.flags <=> "mpi" \in mgr.flags
            /\ mgr'.beganMPI = mgr.beganMPI
        BY <2>2, <3>1, <3>2, TrilinosInitializeResult
      <4>2. mgr.sema["trilinos"] \in Nat BY <2>2 DEF Mgr, Subsystem
      <4>3. IF mgr'.count > 0 THEN Chained(mgr') ELSE Unchained(mgr')
        BY <2>2, <4>1, <4>2 DEF Chained, Unchained, Subsystem
      <4>4. mgr'.err = "none" BY <4>1 DEF Accords
      <4>5. /\ mgr' \in Mgr' /\ Accords(mgr)'
            /\ IF mgr'.count > 0 THEN Chained(mgr)' ELSE Unchained(mgr)'
        BY <2>1, <3>1, <4>1, <4>3, Unmoved
      <4> QED BY <2>1, <2>2, <3>1, <4>4, <4>5 DEF ManagerInv, Live
    <3>3. CASE mgr.mpi # "up"
      <4> DEFINE c == Consume(mgr, "trilinos")
      <4>1. /\ mgr.mpi = "none" /\ ~host /\ mgr.comm # "valid"
            /\ mgr.sema["trilinos"] \in Nat /\ ~(mgr.sema["trilinos"] > 0)
            /\ "trilinos" \notin mgr.flags
        BY <2>2, <3>3 DEF Accords, Mgr, Subsystem
      <4>2. /\ c \in Mgr /\ c.flags = mgr.flags /\ c.mpi = mgr.mpi /\ c.comm = mgr.comm
        BY <2>2, ConsumeResult DEF Subsystem
      <4>3. mgr' = Fail(c, "TrilinosBeforeMPI")
        BY <3>1, <4>1, <4>2 DEF TrilinosInitialize, MPIInitialized
      <4> HIDE DEF c
      <4>4. /\ mgr' \in Mgr /\ mgr'.err = "TrilinosBeforeMPI" /\ mgr'.comm = mgr.comm
        BY <4>2, <4>3 DEF Fail, Mgr, Errors
      <4>5. Sound(mgr') BY <4>1, <4>4 DEF Sound
      <4>6. mgr' \in Mgr' /\ Sound(mgr)' BY <2>1, <3>1, <4>4, <4>5, Unmoved
      <4> QED BY <2>1, <2>2, <3>1, <4>4, <4>6, SoundMeans DEF ManagerInv, Live,
            Sound, HostKeepsMPI, CommFreedBeforeMPI, SemaphoreLifetime
    <3> QED BY <3>2, <3>3
  <2>7. CASE Exit
    <3>1. mgr' = Finalize(mgr) /\ host' = host /\ phase' = "exited"
      BY <2>7 DEF Exit
    <3>2. mgr' \in Mgr /\ Sound(mgr') BY <2>2, <3>1, FinalizeResult
    <3>3. mgr' \in Mgr' /\ Sound(mgr)' BY <2>1, <3>1, <3>2, Unmoved
    <3>4. ~Live' BY <3>1 DEF Live
    <3> QED BY <2>1, <2>2, <3>1, <3>3, <3>4 DEF ManagerInv,
          Sound, HostKeepsMPI, CommFreedBeforeMPI, SemaphoreLifetime
  <2> QED BY <1>2, <2>3, <2>4, <2>5, <2>6, <2>7 DEF Next
<1> QED BY <1>1, <1>2

(* ManagerInv is an invariant of every program, on every build.            *)
THEOREM ManagerInvariant == Spec => []ManagerInv
<1> QED BY InitManager, NextManager, PTL DEF Spec

LEMMA ManagerIsSound == ManagerInv => HostKeepsMPI /\ CommFreedBeforeMPI /\ SemaphoreLifetime
<1> SUFFICES ASSUME ManagerInv
             PROVE  HostKeepsMPI /\ CommFreedBeforeMPI /\ SemaphoreLifetime
  OBVIOUS
<1>1. CASE Live
  <2>1. Sound(mgr) BY <1>1, AccordsAreSound DEF ManagerInv
  <2> QED BY <2>1, SoundMeans
<1>2. CASE ~Live BY <1>2 DEF ManagerInv
<1> QED BY <1>1, <1>2

(* DOLFIN never finalises an MPI that the application initialised.         *)
THEOREM HostKeeps == Spec => []HostKeepsMPI
<1> QED BY ManagerInvariant, ManagerIsSound, PTL

(* No communicator of DOLFIN outlives MPI.                                 *)
THEOREM CommFreed == Spec => []CommFreedBeforeMPI
<1> QED BY ManagerInvariant, ManagerIsSound, PTL

(* The semaphores and the libraries never disagree, and no bit of the      *)
(* state mask is set twice.                                                *)
THEOREM Lifetime == Spec => []SemaphoreLifetime
<1> QED BY ManagerInvariant, ManagerIsSound, PTL

------------------------------------------------------------------------------
(* The groups of MPI::initComm() *)

LEMMA Division ==
  ASSUME NEW a \in Nat, NEW b \in Nat \ {0}
  PROVE  /\ a \div b \in Nat /\ a % b \in 0 .. (b - 1)
         /\ a = b * (a \div b) + (a % b)
<1>1. a \div b \in Int /\ a % b \in 0 .. (b - 1) OBVIOUS
<1>2. a = b * (a \div b) + (a % b) OBVIOUS
<1>3. a \div b \in Nat BY <1>1, <1>2
<1> QED BY <1>1, <1>2, <1>3

LEMMA Quotient ==
  ASSUME NEW a \in Nat, NEW b \in Nat \ {0}, NEW k \in Nat
  PROVE  a \div b = k <=> k * b <= a /\ a < (k + 1) * b
OBVIOUS

LEMMA Multiples ==
  ASSUME NEW x \in Int, NEW y \in Int, NEW b \in Nat
  PROVE  (x <= y => x * b <= y * b) /\ (x * b < y * b => x < y)
OBVIOUS

(* When all processes of the ranges [k * g, (k + 1) * g) for k < h compute *)
(* their group with the divisor g, and g * h of them do, their groups are  *)
(* these ranges.                                                           *)
LEMMA Ranges ==
  ASSUME NEW g \in Nat \ {0}, NEW h \in Nat, NEW w \in Nat, w < g * h
  PROVE  /\ w \div g \in Nat /\ w \div g < h
         /\ w \in (w \div g) * g .. (w \div g) * g + g - 1
         /\ \A v \in Nat : v \in (w \div g) * g .. (w \div g) * g + g - 1
                             <=> v \div g = w \div g
         /\ \A v \in Nat : v \div g = w \div g => v < g * h
<1> DEFINE k == w \div g
<1>1. k \in Nat /\ k * g <= w /\ w < (k + 1) * g BY Division, Quotient
<1> HIDE DEF k
<1>2. k < h
  <2>1. k * g < h * g BY <1>1
  <2> QED BY <1>1, <2>1, Multiples
<1>3. (k + 1) * g = k * g + g /\ k * g \in Nat BY <1>1
<1>4. w \in k * g .. k * g + g - 1 BY <1>1, <1>3
<1>5. ASSUME NEW v \in Nat PROVE v \in k * g .. k * g + g - 1 <=> v \div g = k
  <2>1. v \div g = k <=> k * g <= v /\ v < (k + 1) * g BY <1>1, Quotient
  <2> QED BY <1>3, <2>1
<1>6. ASSUME NEW v \in Nat, v \div g = k PROVE v < g * h
  <2>1. v < (k + 1) * g BY <1>1, <1>6, Quotient
  <2>2. (k + 1) * g <= h * g BY <1>1, <1>2, Multiples
  <2> QED BY <1>1, <2>1, <2>2
<1> QED BY <1>1, <1>2, <1>4, <1>5, <1>6 DEF k

(* Processes that all use the divisor g put themselves in ranges of g.     *)
LEMMA GroupsOfOneSize ==
  ASSUME NEW W \in Nat \ {0}, NEW n \in Nat, Splits(W, n),
         NEW g \in Nat \ {0}, NEW h \in Nat, g * h <= W,
         \A w \in Nat : w < g * h =>
           /\ GroupIndex(W, n, w) = w \div g
           /\ GroupSize(W, n, w) = g
           /\ GroupRoot(W, n, w \div g) = (w \div g) * g,
         \A w \in World(W) : GroupIndex(W, n, w) = w \div g,
         NEW w \in World(W), w < g * h
  PROVE  /\ Consistent(Contexts(W, n), w)
         /\ \A v \in World(W) :
              Contexts(W, n)[v].idx = Contexts(W, n)[w].idx
                <=> v \in Group(Contexts(W, n), w)
<1> DEFINE ctx == Contexts(W, n)
           range == (w \div g) * g .. (w \div g) * g + g - 1
<1>1. w \in Nat /\ g * h \in Nat BY DEF World
<1>2. \A v \in World(W) : ctx[v] = Context(W, n, v) /\ v \in Nat
  BY DEF Contexts, World
<1>3. ASSUME NEW v \in World(W), v < g * h
      PROVE  ctx[v] = [idx |-> v \div g, cnt |-> n, first |-> (v \div g) * g,
                       last |-> (v \div g) * g + g - 1]
  BY <1>2, <1>3 DEF Context
<1> HIDE DEF ctx
<1>4. Group(ctx, w) = range
  <2> DEFINE b == (w \div g) * g
             i == w \div g
  <2>1. ctx[w] = [idx |-> i, cnt |-> n, first |-> b, last |-> b + g - 1]
    BY <1>3
  <2>2. range = b .. b + g - 1 OBVIOUS
  <2> HIDE DEF b, i, range
  <2>3. ctx[w].first = b /\ ctx[w].last = b + g - 1 BY <2>1
  <2> QED BY <2>2, <2>3 DEF Group
<1>5. /\ w \in range
      /\ \A v \in Nat : v \in range <=> v \div g = w \div g
      /\ \A v \in Nat : v \div g = w \div g => v < g * h
  BY <1>1, Ranges
<1>6. ASSUME NEW v \in range PROVE v \in World(W) /\ v < g * h /\ ctx[v] = ctx[w]
  <2>1. w \div g \in Nat BY <1>1, Division
  <2>2. (w \div g) * g \in Nat BY <2>1
  <2>3. v \in Nat BY <2>2
  <2>4. v \div g = w \div g /\ v < g * h BY <1>5, <2>3
  <2>5. v \in World(W) BY <1>1, <2>3, <2>4 DEF World
  <2> QED BY <1>3, <2>4, <2>5
<1>7. Consistent(ctx, w)
  <2>1. DOMAIN ctx = World(W) BY DEF Contexts, ctx
  <2> HIDE DEF range
  <2> QED BY <1>4, <1>5, <1>6, <2>1 DEF Consistent
<1>8. ASSUME NEW v \in World(W) PROVE ctx[v].idx = v \div g
  <2>1. Context(W, n, v).idx = GroupIndex(W, n, v) BY DEF Context
  <2> QED BY <1>2, <2>1
<1>9. ASSUME NEW v \in World(W) PROVE ctx[v].idx = ctx[w].idx <=> v \in range
  BY <1>2, <1>5, <1>8
<1> QED BY <1>4, <1>7, <1>9 DEF ctx

(* The whole world, when it is not split.                                  *)
LEMMA OneGroup ==
  ASSUME NEW W \in Nat \ {0}, NEW n \in Nat, ~Splits(W, n), NEW w \in World(W)
  PROVE  /\ Consistent(Contexts(W, n), w)
         /\ \A v \in World(W) :
              Contexts(W, n)[v].idx = Contexts(W, n)[w].idx
                <=> v \in Group(Contexts(W, n), w)
<1> DEFINE ctx == Contexts(W, n)
<1>1. \A v \in World(W) : ctx[v] = [idx |-> 0, cnt |-> 1, first |-> 0, last |-> W - 1]
  BY DEF Contexts, Context
<1>2. DOMAIN ctx = World(W) BY DEF Contexts
<1> HIDE DEF ctx
<1>3. Group(ctx, w) = World(W) BY <1>1 DEF Group, World
<1>4. Consistent(ctx, w) BY <1>1, <1>2, <1>3 DEF Consistent
<1> QED BY <1>1, <1>3, <1>4 DEF ctx

(* Groups of one size, and the larger groups where there are two sizes,    *)
(* agree and have an index of their own, for every number of processes and *)
(* of groups.                                                              *)
LEMMA EvenSplit ==
  ASSUME NEW W \in Nat \ {0}, NEW n \in Nat, NEW w \in World(W),
         NEW c, c = Contexts(W, n)[w].cnt,
         Rest(W, c) = 0 \/ w < (Share(W, c) + 1) * Rest(W, c)
  PROVE  /\ Consistent(Contexts(W, n), w)
         /\ \A v \in World(W) :
              Contexts(W, n)[v].idx = Contexts(W, n)[w].idx
                <=> v \in Group(Contexts(W, n), w)
<1>1. CASE ~Splits(W, n) BY <1>1, OneGroup
<1>2. CASE Splits(W, n)
  <2> DEFINE p == Share(W, n)
             m == Rest(W, n)
  <2>1. c = n /\ n \in Nat \ {0} /\ n <= W
    BY <1>2 DEF Contexts, Context, Splits
  <2>2. p \in Nat /\ m \in 0 .. (n - 1) /\ W = n * p + m
    BY <2>1, Division DEF Share, Rest
  <2>3. p \in Nat \ {0}
    <3>1. CASE p = 0 BY <2>1, <2>2, <3>1
    <3> QED BY <2>2, <3>1
  <2>4. m = 0 \/ w < (p + 1) * m BY <2>1
  <2>5. w \in Nat /\ w < W BY DEF World
  <2>6. \A k : GroupRoot(W, n, k) = k * p + Minimum(k, m) BY DEF GroupRoot
  <2>7. \A v : GroupSize(W, n, v) = IF v < (p + 1) * m THEN p + 1 ELSE p
    BY DEF GroupSize
  <2>8. \A v : GroupIndex(W, n, v) = v \div (p + (IF m # 0 THEN 1 ELSE 0))
    BY DEF GroupIndex
  <2> HIDE DEF p, m
  <2>9. CASE m = 0
    <3>1. p * n = W BY <2>1, <2>2, <2>9
    <3>2. ASSUME NEW v \in Nat, v < p * n
          PROVE  /\ GroupIndex(W, n, v) = v \div p
                 /\ GroupSize(W, n, v) = p
                 /\ GroupRoot(W, n, v \div p) = (v \div p) * p
      <4>1. p + 0 = p /\ (p + 1) * 0 = 0 BY <2>2
      <4>2. GroupIndex(W, n, v) = v \div p BY <2>8, <2>9, <4>1
      <4>3. GroupSize(W, n, v) = p BY <2>7, <2>9, <4>1
      <4> DEFINE k == v \div p
      <4>4. k \in Nat BY <2>3, Division
      <4>5. GroupRoot(W, n, k) = k * p + Minimum(k, m) BY <2>6
      <4> HIDE DEF k
      <4>6. Minimum(k, m) = 0 BY <2>9, <4>4 DEF Minimum
      <4>7. k * p \in Nat BY <2>2, <4>4
      <4>8. GroupRoot(W, n, k) = k * p BY <4>5, <4>6, <4>7
      <4> QED BY <4>2, <4>3, <4>8 DEF k
    <3>3. \A v \in World(W) : v \in Nat /\ v < p * n BY <3>1 DEF World
    <3>4. \A v \in World(W) : GroupIndex(W, n, v) = v \div p BY <3>2, <3>3
    <3>5. p * n <= W /\ w < p * n /\ n \in Nat BY <2>1, <3>1, <3>3
    <3> QED BY <1>2, <2>1, <2>3, <3>2, <3>4, <3>5, GroupsOfOneSize
  <2>10. CASE m # 0
    <3>1. p + 1 \in Nat \ {0} /\ m \in Nat BY <2>2
    <3>2. (p + 1) * m <= W
      <4>1. m * p <= n * p BY <2>1, <2>2, Multiples
      <4>2. (p + 1) * m = m * p + m BY <2>2
      <4> QED BY <2>1, <2>2, <4>1, <4>2
    <3>3. ASSUME NEW v \in Nat, v < (p + 1) * m
          PROVE  /\ GroupIndex(W, n, v) = v \div (p + 1)
                 /\ GroupSize(W, n, v) = p + 1
                 /\ GroupRoot(W, n, v \div (p + 1)) = (v \div (p + 1)) * (p + 1)
      <4>1. GroupIndex(W, n, v) = v \div (p + 1) BY <2>8, <2>10
      <4>2. GroupSize(W, n, v) = p + 1 BY <2>7, <3>3
      <4>3. v \div (p + 1) \in Nat /\ v \div (p + 1) < m BY <3>1, <3>3, Ranges
      <4>4. Minimum(v \div (p + 1), m) = v \div (p + 1) BY <4>3 DEF Minimum
      <4> DEFINE k == v \div (p + 1)
      <4>5. GroupRoot(W, n, k) = k * p + k BY <2>6, <4>4
      <4> HIDE DEF k
      <4>6. k * p + k = k * (p + 1) BY <2>2, <4>3 DEF k
      <4> QED BY <4>1, <4>2, <4>5, <4>6 DEF k
    <3>4. \A v \in World(W) : GroupIndex(W, n, v) = v \div (p + 1) BY <2>8, <2>10
    <3>5. w < (p + 1) * m BY <2>4, <2>10
    <3> QED BY <1>2, <3>1, <3>2, <3>3, <3>4, <3>5, GroupsOfOneSize
  <2> QED BY <2>9, <2>10
<1> QED BY <1>1, <1>2

(* A process that is in none of the larger groups takes the range of the   *)
(* smaller ones, and the index that all groups would have if they were     *)
(* larger.                                                                 *)
LEMMA SmallerContext ==
  ASSUME NEW W \in Nat \ {0}, NEW n \in Nat, Splits(W, n),
         NEW p, p = Share(W, n), NEW m, m = Rest(W, n), m # 0,
         NEW v \in World(W), v >= (p + 1) * m
  PROVE  \E k \in Nat :
           /\ m <= k /\ k * (p + 1) <= v /\ v < (k + 1) * (p + 1)
           /\ Contexts(W, n)[v] =
                [idx |-> k, cnt |-> n, first |-> k * p + m, last |-> k * p + m + p - 1]
<1>1. n \in Nat \ {0} BY DEF Splits
<1>2. p \in Nat /\ m \in 0 .. (n - 1) BY <1>1, Division DEF Share, Rest
<1>3. v \in Nat /\ p + 1 \in Nat \ {0} BY <1>2 DEF World
<1> DEFINE k == v \div (p + 1)
<1>4. k \in Nat /\ k * (p + 1) <= v /\ v < (k + 1) * (p + 1) BY <1>3, Division, Quotient
<1>5. GroupIndex(W, n, v) = k BY DEF GroupIndex
<1> HIDE DEF k
<1>6. m <= k
  <2>1. m * (p + 1) < (k + 1) * (p + 1)
    <3> DEFINE x == (p + 1) * m
               y == (k + 1) * (p + 1)
    <3>1. m * (p + 1) = x BY <1>2
    <3>2. x \in Nat /\ y \in Nat BY <1>2, <1>4
    <3>3. v >= x /\ v < y BY <1>4
    <3> HIDE DEF x, y
    <3>4. x < y BY <1>3, <3>2, <3>3
    <3> QED BY <3>1, <3>4 DEF y
  <2>2. m < k + 1 BY <1>2, <1>3, <1>4, <2>1, Multiples
  <2> QED BY <1>2, <1>4, <2>2
<1>7. Minimum(k, m) = m BY <1>2, <1>4, <1>6 DEF Minimum
<1>8. GroupRoot(W, n, k) = k * p + m BY <1>7 DEF GroupRoot
<1>9. ~(v < (p + 1) * m) BY <1>2, <1>3
<1>10. GroupSize(W, n, v) = p BY <1>9 DEF GroupSize
<1>11. Contexts(W, n)[v] = Context(W, n, v) BY DEF Contexts
<1>12. Context(W, n, v) =
         [idx |-> k, cnt |-> n, first |-> k * p + m, last |-> k * p + m + p - 1]
  BY <1>5, <1>8, <1>10 DEF Context
<1> QED BY <1>4, <1>6, <1>11, <1>12

(* The first of the smaller groups is one on which its members agree.      *)
LEMMA FirstSmaller ==
  ASSUME NEW W \in Nat \ {0}, NEW n \in Nat, Splits(W, n),
         NEW p, p = Share(W, n), NEW m, m = Rest(W, n), m # 0,
         NEW w \in World(W), w >= (p + 1) * m, w < (p + 1) * m + p
  PROVE  Consistent(Contexts(W, n), w)
<1>1. n \in Nat \ {0} BY DEF Splits
<1>2. p \in Nat /\ m \in 0 .. (n - 1) /\ W = n * p + m BY <1>1, Division DEF Share, Rest
<1> DEFINE b == m * p + m
           c == [idx |-> m, cnt |-> n, first |-> b, last |-> b + p - 1]
<1>3. b \in Nat /\ (p + 1) * m = b /\ m * (p + 1) = b BY <1>2
<1>4. b + p <= W
  <2>1. (m + 1) * p <= n * p BY <1>1, <1>2, Multiples
  <2>2. (m + 1) * p = m * p + p BY <1>2
  <2> QED BY <1>1, <1>2, <2>1, <2>2
<1>5. ASSUME NEW v \in b .. b + p - 1 PROVE v \in World(W) /\ Contexts(W, n)[v] = c
  <2>1. v \in Nat /\ v >= b /\ v < b + p BY <1>2, <1>3
  <2>2. v \in World(W) BY <1>2, <1>3, <1>4, <2>1 DEF World
  <2>3. v >= (p + 1) * m BY <1>3, <2>1
  <2>4. PICK k \in Nat :
          /\ m <= k /\ k * (p + 1) <= v /\ v < (k + 1) * (p + 1)
          /\ Contexts(W, n)[v] =
               [idx |-> k, cnt |-> n, first |-> k * p + m, last |-> k * p + m + p - 1]
    BY <2>2, <2>3, SmallerContext
  <2>5. k = m
    <3>1. k * (p + 1) < (m + 1) * (p + 1)
      <4>1. (m + 1) * (p + 1) = b + p + 1 BY <1>2
      <4>2. k * (p + 1) \in Nat BY <1>2
      <4> QED BY <1>2, <1>3, <2>1, <2>4, <4>1, <4>2
    <3>2. k < m + 1 BY <1>2, <3>1, Multiples
    <3> QED BY <1>2, <2>4, <3>2
  <2> QED BY <2>2, <2>4, <2>5
<1>6. w \in b .. b + p - 1 BY <1>2, <1>3 DEF World
<1> HIDE DEF b
<1>7. Contexts(W, n)[w].first = b /\ Contexts(W, n)[w].last = b + p - 1 BY <1>5, <1>6
<1>8. Group(Contexts(W, n), w) = b .. b + p - 1 BY <1>7 DEF Group
<1>9. DOMAIN Contexts(W, n) = World(W) BY DEF Contexts
<1> HIDE DEF c
<1> QED BY <1>5, <1>6, <1>8, <1>9 DEF Consistent

(* Beyond it, a process is not in the group it names, or the first process *)
(* of that group names a lower one.                                        *)
LEMMA LaterSmaller ==
  ASSUME NEW W \in Nat \ {0}, NEW n \in Nat, Splits(W, n),
         NEW p, p = Share(W, n), NEW m, m = Rest(W, n), m # 0,
         NEW w \in World(W), w >= (p + 1) * m + p,
         Consistent(Contexts(W, n), w)
  PROVE  FALSE
<1>1. n \in Nat \ {0} /\ n <= W BY DEF Splits
<1>2. p \in Nat /\ m \in 0 .. (n - 1) /\ W = n * p + m BY <1>1, Division DEF Share, Rest
<1>3. p # 0
  <2>1. CASE p = 0 BY <1>1, <1>2, <2>1
  <2> QED BY <2>1
<1>4. w \in Nat /\ w >= (p + 1) * m BY <1>2 DEF World
<1>5. PICK k \in Nat :
        /\ m <= k /\ k * (p + 1) <= w /\ w < (k + 1) * (p + 1)
        /\ Contexts(W, n)[w] =
             [idx |-> k, cnt |-> n, first |-> k * p + m, last |-> k * p + m + p - 1]
  BY <1>4, SmallerContext
<1> DEFINE b == k * p + m
<1>6. b \in Nat BY <1>2
<1>7. Contexts(W, n)[w].first = b /\ Contexts(W, n)[w].last = b + p - 1
      /\ Contexts(W, n)[w].idx = k
  BY <1>5
<1> HIDE DEF b
<1>8. Group(Contexts(W, n), w) = b .. b + p - 1 BY <1>7 DEF Group
<1>9. w \in b .. b + p - 1
  BY <1>8 DEF Consistent
<1>10. k # m
  <2>1. CASE k = m
    <3> DEFINE x == (p + 1) * m
    <3>1. x = m * p + m BY <1>2
    <3>2. b = m * p + m BY <2>1 DEF b
    <3>3. w >= x + p OBVIOUS
    <3> HIDE DEF x
    <3>4. x = b BY <3>1, <3>2
    <3>5. w < b + p BY <1>2, <1>4, <1>6, <1>9
    <3> QED BY <1>2, <1>4, <1>6, <3>3, <3>4, <3>5
  <2> QED BY <2>1
<1>11. b \in b .. b + p - 1 BY <1>2, <1>3, <1>6
<1>12. b \in World(W) /\ Contexts(W, n)[b] = Contexts(W, n)[w]
  <2>1. b \in DOMAIN Contexts(W, n) /\ Contexts(W, n)[b] = Contexts(W, n)[w]
    BY <1>8, <1>11 DEF Consistent
  <2>2. DOMAIN Contexts(W, n) = World(W) BY DEF Contexts
  <2> QED BY <2>1, <2>2
<1>13. GroupIndex(W, n, b) = k
  <2>1. Contexts(W, n)[b] = Context(W, n, b) BY <1>12 DEF Contexts
  <2>2. Context(W, n, b).idx = GroupIndex(W, n, b) BY DEF Context
  <2> QED BY <1>7, <1>12, <2>1, <2>2
<1>14. k * (p + 1) <= b
  <2>1. GroupIndex(W, n, b) = b \div (p + 1) BY DEF GroupIndex
  <2>2. p + 1 \in Nat \ {0} BY <1>2
  <2> QED BY <1>6, <1>13, <2>1, <2>2, Quotient
<1>15. k * (p + 1) = k * p + k BY <1>2
<1>16. k <= m
  <2>1. k * p \in Nat BY <1>2
  <2> QED BY <1>2, <1>14, <1>15, <2>1 DEF b
<1> QED BY <1>2, <1>5, <1>10, <1>16

(* The groups on which the processes agree when MPI_Comm_create is called  *)
(* are exactly all of them in a world that splits evenly, and the larger   *)
(* ones and the first smaller one in any other.                            *)
THEOREM GroupsAgree == Spec => []AgreedGroups
<1>1. ManagerInv => AgreedGroups
  <2> SUFFICES ASSUME ManagerInv, mgr.groups # <<>>, NEW w \in World(wsize),
                      NEW c, c = mgr.groups[w].cnt,
                      NEW p, p = Share(wsize, c), NEW m, m = Rest(wsize, c)
               PROVE  /\ Consistent(mgr.groups, w) <=> m = 0 \/ w < (p + 1) * m + p
                      /\ m = 0 \/ w < (p + 1) * m =>
                           \A v \in World(wsize) :
                             mgr.groups[v].idx = mgr.groups[w].idx
                               <=> v \in Group(mgr.groups, w)
    BY DEF AgreedGroups
  <2>1. mgr \in Mgr /\ wsize \in Nat \ {0} BY DEF ManagerInv
  <2>2. PICK n \in Nat : mgr.groups = Contexts(wsize, n) BY <2>1 DEF Mgr
  <2>3. w \in Nat BY <2>1 DEF World
  <2>4. ASSUME m = 0 \/ w < (p + 1) * m
        PROVE  /\ Consistent(mgr.groups, w)
               /\ \A v \in World(wsize) :
                    mgr.groups[v].idx = mgr.groups[w].idx <=> v \in Group(mgr.groups, w)
    BY <2>1, <2>2, <2>4, EvenSplit
  <2>5. CASE m = 0 BY <2>4, <2>5
  <2>6. CASE m # 0
    <3>1. Splits(wsize, n) /\ c = n
      <4>1. CASE ~Splits(wsize, n)
        <5>1. c = 1 BY <2>2, <4>1 DEF Contexts, Context
        <5>2. m = 0 BY <2>1, <5>1 DEF Rest
        <5> QED BY <2>6, <5>2
      <4>2. CASE Splits(wsize, n) BY <2>2, <4>2 DEF Contexts, Context
      <4> QED BY <4>1, <4>2
    <3>2. n \in Nat \ {0} BY <3>1 DEF Splits
    <3>3. p \in Nat /\ m \in Nat BY <2>1, <3>1, <3>2, Division DEF Share, Rest
    <3>4. (p + 1) * m \in Nat BY <3>3
    <3>5. CASE w < (p + 1) * m
      <4> DEFINE x == (p + 1) * m
      <4>1. w < x /\ x \in Nat BY <3>4, <3>5
      <4>2. w < x + p
        <5> HIDE DEF x
        <5> QED BY <2>3, <3>3, <4>1
      <4> QED BY <2>4, <3>5, <4>2
    <3>6. CASE w >= (p + 1) * m /\ w < (p + 1) * m + p
      <4>1. Consistent(mgr.groups, w) BY <2>1, <2>2, <2>6, <3>1, <3>6, FirstSmaller
      <4> QED BY <2>3, <2>6, <3>4, <3>6, <4>1
    <3>7. CASE w >= (p + 1) * m + p
      <4>1. ~Consistent(mgr.groups, w) BY <2>1, <2>2, <2>6, <3>1, <3>7, LaterSmaller
      <4> QED BY <2>3, <2>6, <3>3, <3>4, <3>7, <4>1
    <3> QED BY <2>3, <3>3, <3>4, <3>5, <3>6, <3>7
  <2> QED BY <2>5, <2>6
<1> QED BY <1>1, ManagerInvariant, PTL
===============================================================================
