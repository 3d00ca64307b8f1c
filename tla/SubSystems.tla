----------------------------- MODULE SubSystems -----------------------------
(***************************************************************************)
(* The SubSystemsManager singleton: it brings MPI, PETSc, Zoltan and       *)
(* Trilinos up in dolfin_init() and takes them down in its destructor,     *)
(* when the program exits.  Each subsystem has a semaphore that counts its *)
(* consumers and a bit of the state mask that says it is up.               *)
(*                                                                         *)
(* All processes run the same program; what they work out differently is   *)
(* the context of MPI, kept here for all of them.                          *)
(*                                                                         *)
(* The calls are sequential, so one action is one call of the program and  *)
(* the handlers it chains are functions on the record of the manager.      *)
(***************************************************************************)
EXTENDS CommGroups

CONSTANTS
  Backends,     \* the subsystems a build may be configured with (HAVE_PETSC, ...)
  MaxConsumers, \* bound: calls of the program that create a consumer
  MaxWorld      \* bound: processes in the world

ASSUME BackendsAssumption == Backends \subseteq {"petsc", "zoltan", "trilinos"}
ASSUME BoundAssumption == MaxConsumers \in Nat /\ MaxWorld \in Nat \ {0}

Subsystem == {"mpi", "petsc", "zoltan", "trilinos"}

(* The bits of SubSystemsManager::Type that this build can set. *)
Flag == {"mpi", "petsc", "petscmpi", "zoltan", "trilinos", "trilinosmpi"}

VARIABLES
  built,   \* the subsystems of this build; never changes
  wsize,   \* the processes in the world; never changes
  mgr,     \* the manager: its members and the libraries it drives
  host,    \* the application initialised MPI itself before dolfin_init()
  created, \* consumers created so far, bounded by MaxConsumers
  phase    \* "running", then "exited" once the static destructors have run

vars == <<built, wsize, mgr, host, created, phase>>

(***************************************************************************)
(* mpi, petscLib, kokkos: what the external libraries say of themselves.   *)
(* beganMPI: PetscInitialize found MPI down and initialised it.            *)
(* comm: MPI::DOLFIN_COMM, groups: the contexts of the processes, <<>>     *)
(* before initComm().  err: an error() escaped a call.                     *)
(***************************************************************************)
Init ==
  /\ built \in SUBSET Backends
  /\ wsize \in 1 .. MaxWorld
  /\ mgr = [count |-> 0, flags |-> {}, sema |-> [s \in Subsystem |-> 0],
            mpi |-> "none", petscLib |-> "none", kokkos |-> "none",
            beganMPI |-> FALSE, comm |-> "null", groups |-> <<>>, err |-> "none"]
  /\ host = FALSE
  /\ created = 0
  /\ phase = "running"

Fail(m, why)  == [m EXCEPT !.err = why]

(* SubSystemsManager::initialize(Type): state = (state & s) + (state | s), *)
(* which sets a bit that is clear and carries into the next one otherwise. *)
SetFlag(m, f) ==
  IF f \in m.flags THEN Fail(m, "Carry") ELSE [m EXCEPT !.flags = @ \cup {f}]

(* SubSystemsManager::finalize(Type): state &= (1 ^ s).  Bit 0 is mpi, so  *)
(* the mask is empty for mpi and {mpi, s} for every other subsystem.       *)
ClearFlag(m, f) ==
  [m EXCEPT !.flags = @ \cap (IF f = "mpi" THEN {} ELSE {"mpi", f})]

(* MPI_Initialized stays true after MPI_Finalize. *)
MPIInitialized(m) == m.mpi # "none"

Consume(m, s) == [m EXCEPT !.sema[s] = @ + 1]

Release(m, s) == [m EXCEPT !.sema[s] = @ - 1]

(* A call of a chain that follows an error() is never reached. *)
Then(m, Op(_)) == IF m.err # "none" THEN m ELSE Op(m)

------------------------------------------------------------------------------
(* Initialisation *)

(* MPI_Init() and initComm() *)
initComm(m, n) ==
  [m EXCEPT !.mpi = "up", !.comm = "valid", !.groups = Contexts(wsize, n)]

(* mutant: no extra count for an MPI found initialised *)
MPIInitializeNoExtra(m0, n) ==
  LET m == Consume(m0, "mpi")
  IN  IF "mpi" \in m.flags \/ MPIInitialized(m) THEN m
      ELSE SetFlag(initComm(m, n), "mpi")

MPIInitialize(m0, n) ==
  LET m == Consume(m0, "mpi")
  IN  IF "mpi" \in m.flags THEN m
      ELSE IF MPIInitialized(m) THEN Consume(m, "mpi")
      ELSE SetFlag(initComm(m, n), "mpi")

PETScInitialize(m0) ==
  LET m   == Consume(m0, "petsc")
      own == ~MPIInitialized(m)
      lib == [m EXCEPT !.petscLib = "up", !.beganMPI = own,
                       !.mpi = IF own THEN "up" ELSE @]
      up  == SetFlag(lib, "petsc")
  IN  IF "petsc" \in m.flags THEN m
      ELSE IF own THEN SetFlag(up, "petscmpi") ELSE up

ZoltanInitialize(m0) ==
  LET m == Consume(m0, "zoltan")
  IN  IF "zoltan" \in m.flags THEN m ELSE SetFlag(m, "zoltan")

TrilinosInitialize(m0) ==
  LET m == Consume(m0, "trilinos")
  IN  IF "trilinos" \in m.flags THEN m
      ELSE IF ~MPIInitialized(m) THEN Fail(m, "TrilinosBeforeMPI")
      ELSE SetFlag([SetFlag(m, "trilinosmpi") EXCEPT !.kokkos = "up"],
                   "trilinos")

(* The part of a chain that this build was configured with. *)
IfBuilt(s, m, Op(_)) == IF s \in built THEN Then(m, Op) ELSE m

Start(m, n) ==
  LET a == MPIInitialize(m, n)
      b == IfBuilt("petsc", a, PETScInitialize)
      c == IfBuilt("zoltan", b, ZoltanInitialize)
      d == IfBuilt("trilinos", c, TrilinosInitialize)
      e == IF m.count = 0 THEN d ELSE m
  IN  IF e.err # "none" THEN e ELSE [e EXCEPT !.count = @ + 1]

------------------------------------------------------------------------------
(* Finalisation *)

ZoltanFinalize(m0) ==
  LET m == Release(m0, "zoltan")
  IN  IF m0.sema["zoltan"] = 0 THEN Fail(m0, "NoConsumer")
      ELSE IF m.sema["zoltan"] > 0 THEN m
      ELSE ClearFlag(m, "zoltan")

(* mutant: the library goes down with its first consumer *)
PETScFinalizeFirst(m0) ==
  LET m == Release(m0, "petsc")
  IN  IF m0.sema["petsc"] = 0 THEN Fail(m0, "NoConsumer")
      ELSE ClearFlag([m EXCEPT !.petscLib = "down"], "petsc")

(* PetscFinalize finalises MPI when PetscInitialize had initialised it. *)
PETScFinalize(m0) ==
  LET m   == Release(m0, "petsc")
      lib == [m EXCEPT !.petscLib = "down",
                       !.mpi = IF m.beganMPI THEN "final" ELSE @]
      rel == IF "petscmpi" \in lib.flags THEN ClearFlag(lib, "petscmpi")
             ELSE lib
  IN  IF m0.sema["petsc"] = 0 THEN Fail(m0, "NoConsumer")
      ELSE IF m.sema["petsc"] > 0 THEN m
      ELSE IF "petscmpi" \in m.flags /\ m.sema["mpi"] > 1 THEN m
      ELSE ClearFlag(rel, "petsc")

TrilinosFinalize(m0) ==
  LET m == Release(m0, "trilinos")
  IN  IF m0.sema["trilinos"] = 0 THEN Fail(m0, "NoConsumer")
      ELSE IF m.sema["trilinos"] > 0 THEN m
      ELSE IF "trilinosmpi" \in m.flags /\ m.sema["mpi"] > 1
           THEN Fail(m, "TrilinosAfterMPI")
      ELSE ClearFlag([m EXCEPT !.kokkos = "down"], "trilinos")

(* mutant: the duplicated communicator is not freed *)
MPIFinalizeKeepsComm(m0) ==
  LET m == Release(m0, "mpi")
  IN  IF m.sema["mpi"] > 0 \/ "petscmpi" \in m.flags THEN m
      ELSE ClearFlag([m EXCEPT !.mpi = "final"], "mpi")

MPIFinalize(m0) ==
  LET m == Release(m0, "mpi")
  IN  IF m0.sema["mpi"] = 0 THEN Fail(m0, "NoConsumer")
      ELSE IF m.sema["mpi"] > 0 \/ "petscmpi" \in m.flags THEN m
      ELSE IF ~MPIInitialized(m) THEN Fail(m, "MPINotInitialized")
      ELSE ClearFlag([m EXCEPT !.comm = "freed", !.mpi = "final"], "mpi")

Finalize(m) ==
  LET a == IfBuilt("zoltan", m, ZoltanFinalize)
      b == IfBuilt("petsc", a, PETScFinalize)
      c == IfBuilt("trilinos", b, TrilinosFinalize)
      d == Then(c, MPIFinalize)
      e == IF m.count > 0 THEN d ELSE m
  IN  IF e.err # "none" THEN e ELSE [e EXCEPT !.count = 0]

------------------------------------------------------------------------------
(* The program *)

(* The application calls MPI_Init before it hands over to DOLFIN. *)
HostMPIInit ==
  /\ phase = "running" /\ mgr.err = "none"
  /\ mgr.mpi = "none"
  /\ host' = TRUE
  /\ mgr' = [mgr EXCEPT !.mpi = "up"]
  /\ UNCHANGED <<built, wsize, created, phase>>

NewConsumer ==
  /\ phase = "running" /\ mgr.err = "none"
  /\ created < MaxConsumers
  /\ created' = created + 1
  /\ UNCHANGED <<built, wsize, host, phase>>

dolfin_init(n) ==
  /\ NewConsumer
  /\ mgr' = Start(mgr, n)

(* Every PETSc object initialises PETSc in its base class; none finalises. *)
NewPETScObject ==
  /\ "petsc" \in built
  /\ NewConsumer
  /\ mgr' = PETScInitialize(mgr)

NewTrilinosObject ==
  /\ "trilinos" \in built
  /\ NewConsumer
  /\ mgr' = TrilinosInitialize(mgr)

(* The destructor of the singleton runs after main() has returned. *)
Exit ==
  /\ phase = "running" /\ mgr.err = "none"
  /\ mgr' = Finalize(mgr)
  /\ phase' = "exited"
  /\ UNCHANGED <<built, wsize, host, created>>

Next ==
  \/ HostMPIInit
  \/ \E n \in 0 .. MaxWorld : dolfin_init(n)
  \/ NewPETScObject
  \/ NewTrilinosObject
  \/ Exit

Spec == Init /\ [][Next]_vars

------------------------------------------------------------------------------
(* Properties *)

(* DOLFIN never finalises an MPI that the application initialised: the     *)
(* extra count that MPI::initialize takes in that case outlives all the    *)
(* consumers DOLFIN itself releases.                                       *)
HostKeepsMPI == host => mgr.mpi = "up"

(* The communicators DOLFIN duplicated are gone before MPI is finalised,   *)
(* whichever of DOLFIN and PETSc finalises it.                             *)
CommFreedBeforeMPI == mgr.comm = "valid" => mgr.mpi = "up"

(* A library is down exactly when its last consumer has been released: the *)
(* semaphores and the libraries never disagree, whatever the order of      *)
(* dolfin_init(), of the objects created and of the exit.  Nor does the    *)
(* sum that sets a bit of the state mask meet a bit that is set already,   *)
(* and carry into that of another library.                                 *)
SemaphoreLifetime ==
  /\ mgr.err # "Carry"
  /\ mgr.err = "none" =>
       /\ mgr.sema["petsc"] = 0 <=> mgr.petscLib # "up"
       /\ mgr.sema["trilinos"] = 0 <=> mgr.kokkos # "up"
       /\ mgr.sema["mpi"] = 0 => (mgr.mpi # "up" \/ mgr.beganMPI \/ host)

(* The groups the processes put themselves in, each on its own.  When all  *)
(* groups have one size the processes agree on them.  When the split is    *)
(* uneven they agree on the larger groups and on the first of the smaller  *)
(* ones, and on no other: a process beyond that one is not in the group it *)
(* names, or the members of its group name another one.  The groups of one *)
(* size and the larger ones also have an index of their own.               *)
AgreedGroups ==
  mgr.groups # <<>> =>
    \A w \in World(wsize) :
      LET n == mgr.groups[w].cnt
          p == Share(wsize, n)
          m == Rest(wsize, n)
      IN  /\ Consistent(mgr.groups, w) <=> m = 0 \/ w < (p + 1) * m + p
          /\ m = 0 \/ w < (p + 1) * m =>
               \A v \in World(wsize) :
                 mgr.groups[v].idx = mgr.groups[w].idx <=> v \in Group(mgr.groups, w)

==============================================================================
