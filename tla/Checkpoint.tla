------------------------------ MODULE Checkpoint ------------------------------
(***************************************************************************)
(* Checkpoints of a parallel program.  write() puts a header, the          *)
(* parameters and the meshes, functions and vectors into one file, each    *)
(* rank at the offsets it computes for itself; load() finds them again     *)
(* from the headers in the file.  The files are numbered by a counter that *)
(* is itself one of the parameters.  The program may crash at any point    *)
(* and is then started again, perhaps on another number of ranks.          *)
(*                                                                         *)
(* A file is a function from byte offsets to contents; the sizes of the    *)
(* structures are constants and may be chosen small.                       *)
(***************************************************************************)
EXTENDS Integers, Sequences, FiniteSets, Sums

CONSTANTS
  Jobs,        \* the numbers of ranks the program may be started on
  Programs,    \* the programs there may be, see ProgramOK
  Sizes,       \* Sizes[p][kind][name][part][r]: elements of a part on rank r of p
  SizeOf,      \* the sizes of headers and elements
  ParamSize,   \* the size of the serialised parameters, for each id
  MaxTime,     \* bound on the simulated time
  MaxRuns      \* bound on the runs of the program, one after the other

Kinds == {"mesh", "function", "vector"}
Rank(p) == 0 .. (p - 1)

(* The parts of an object in the order of the file.                        *)
Parts(kind, p) ==
  CASE kind # "mesh" -> <<"header", "values">>
    [] kind = "mesh" /\ p = 1 -> <<"header", "coords", "cells">>
    [] kind = "mesh" /\ p # 1 -> <<"header", "coords", "cells", "mapping", "ghosts">>

DataParts(kind, p) == {Parts(kind, p)[i] : i \in 2 .. Len(Parts(kind, p))}

(* What a program writes: for each kind the names of its objects, which    *)
(* are the keys of a map; last bounds the ids of its checkpoints; a        *)
(* careful one increments the counter after it has loaded the parameters.  *)
ProgramOK(m) ==
  /\ m.last \in Nat /\ m.careful \in BOOLEAN
  /\ \A i \in 0 .. m.last : ParamSize[i] \in Nat \ {0}
  /\ \A kind \in Kinds :
       /\ m.objects[kind] \in Seq(STRING)
       /\ \A i, j \in DOMAIN m.objects[kind] :
            m.objects[kind][i] = m.objects[kind][j] => i = j
       /\ \A i \in DOMAIN m.objects[kind], p \in Jobs :
            \A part \in DataParts(kind, p), r \in Rank(p) :
              Sizes[p][kind][m.objects[kind][i]][part][r] \in Nat

Sized == Kinds \cup {"checkpoint", "uint", "coords", "cells", "mapping", "ghosts", "values"}

ASSUME CheckpointAssumption ==
  /\ Jobs \subseteq Nat \ {0} /\ MaxTime \in Nat /\ MaxRuns \in Nat
  /\ \A x \in Sized : SizeOf[x] \in Nat \ {0}
  /\ \A m \in Programs : ProgramOK(m)

VARIABLES
  program,  \* the program; never changes
  procs,    \* the number of ranks
  runs,     \* how often the program was started
  phase,    \* what the program does
  now,      \* the simulated time
  n,        \* n_: the id of the next checkpoint
  fs,       \* the files, by id; <<>> when there is none
  writing,  \* the id of the file that is open for writing
  next,     \* what each rank writes next, and its byte_offset
  got,      \* what the last load found
  complete, \* history: the time of the last write of a file that was closed, or -1
  origin    \* history: the checkpoint the program was restarted from

vars == <<program, procs, runs, phase, now, n, fs, writing, next, got, complete, origin>>

Ids == 0 .. program.last
None == [id |-> -1]

------------------------------------------------------------------------------
(* Layout *)

Objects(kind) == program.objects[kind]
Names(kind) == {Objects(kind)[j] : j \in DOMAIN Objects(kind)}

(* A rank has one header.                                                  *)
Width(kind, part) == IF part = "header" THEN SizeOf[kind] ELSE SizeOf[part]
Count(p, kind, name, part, r) ==
  IF part = "header" THEN 1 ELSE Sizes[p][kind][name][part][r]

(* exscan_sum() and all_reduce<sum> of the counts of the ranks.            *)
Before(p, kind, name, part, r) ==
  IF part = "header" THEN r ELSE SumOf(Sizes[p][kind][name][part], r)
Total(p, kind, name, part) == Before(p, kind, name, part, p)

PartSize(p, kind, name, part) == Total(p, kind, name, part) * Width(kind, part)

(* The first n parts of an object, and all of them.                        *)
SizeOfParts(p, kind, name, k) ==
  SumOf([i \in 0 .. (Len(Parts(kind, p)) - 1) |-> PartSize(p, kind, name, Parts(kind, p)[i + 1])], k)
SizeOfObject(p, kind, name) == SizeOfParts(p, kind, name, Len(Parts(kind, p)))

(* The first objects of a kind, and all of them.                           *)
SizeOfObjects(p, kind, k) ==
  SumOf([i \in 0 .. (Len(Objects(kind)) - 1) |-> SizeOfObject(p, kind, Objects(kind)[i + 1])], k)
SizeOfKind(p, kind) == SizeOfObjects(p, kind, Len(Objects(kind)))

(* mutant: the mapping and the ghosts are not counted                      *)
SizeOfMeshesSerial(p) ==
  SumOf([i \in 0 .. (Len(Objects("mesh")) - 1) |->
           SizeOfParts(p, "mesh", Objects("mesh")[i + 1], 3)], Len(Objects("mesh")))

SizeOfMeshes(p) == SizeOfKind(p, "mesh")

(* fill_headers(): where the sections of the file begin.                   *)
Offset(kind, p, id) ==
  LET meshes == SizeOf.checkpoint + ParamSize[id] + SizeOf.uint
  IN  CASE kind = "mesh" -> meshes
        [] kind = "function" -> meshes + SizeOfMeshes(p)
        [] kind = "vector" -> meshes + SizeOfMeshes(p) + SizeOfKind(p, "function")

(* Where the elements of rank r stand in a part.                           *)
At(p, kind, name, part, r) == Before(p, kind, name, part, r) * Width(kind, part)

(* The contents of byte k of what is written.                              *)
Bytes(what, size) == [k \in 1 .. size |-> <<what, k>>]
HeaderOf(p, kind, name, r, t) == Bytes(<<kind, name, "header", p, r, t>>, SizeOf[kind])
DataOf(p, kind, name, part, r, t) ==
  [k \in 1 .. (Count(p, kind, name, part, r) * Width(kind, part)) |->
     <<kind, name, part, At(p, kind, name, part, r) + k, t>>]

(* mutant: num_ghosts of the 2 * num_ghosts values are written             *)
PartOfHalf(p, kind, name, part, r, t) ==
  LET data == DataOf(p, kind, name, part, r, t)
  IN  CASE part = "header" -> HeaderOf(p, kind, name, r, t)
        [] part = "ghosts" -> SubSeq(data, 1, Len(data) \div 2)
        [] OTHER -> data

PartOf(p, kind, name, part, r, t) ==
  IF part = "header" THEN HeaderOf(p, kind, name, r, t) ELSE DataOf(p, kind, name, part, r, t)

(* The header of the checkpoint, the size of the parameters and the        *)
(* parameters.                                                             *)
Front(p, id, t) ==
  << Bytes(<<"checkpoint", p, id, t>>, SizeOf.checkpoint),
     Bytes(<<"size", id>>, SizeOf.uint),
     Bytes(<<"parameters", id>>, ParamSize[id]) >>

------------------------------------------------------------------------------
(* Reading *)

Hole == <<"hole">>
ReadAt(file, from, size) ==
  [k \in 1 .. size |-> IF from + k - 1 \in DOMAIN file THEN file[from + k - 1] ELSE Hole]

(* load_file(): the header of the checkpoint, with the magic number.       *)
Headers == [p : Jobs, id : Ids, t : 0 .. MaxTime]
Opened(file) ==
  {h \in Headers : ReadAt(file, 0, SizeOf.checkpoint)
                     = Bytes(<<"checkpoint", h.p, h.id, h.t>>, SizeOf.checkpoint)}
Header(file) == CHOOSE h \in Opened(file) : TRUE

(* The object whose header is at an offset, and {} when there is none.     *)
ObjectsAt(file, from, kind) ==
  {name \in Names(kind) : \E p \in Jobs : \E q \in Rank(p), t \in 0 .. MaxTime :
     ReadAt(file, from, SizeOf[kind]) = HeaderOf(p, kind, name, q, t)}
ObjectAt(file, from, kind) == CHOOSE name \in ObjectsAt(file, from, kind) : TRUE

(* The elements of rank r of an object that begins at an offset.           *)
Values(file, from, kind, name, r, p) ==
  [k \in 1 .. (Len(Parts(kind, p)) - 1) |->
     LET part == Parts(kind, p)[k + 1]
     IN  ReadAt(file, from + SizeOfParts(p, kind, name, k) + At(p, kind, name, part, r),
                Count(p, kind, name, part, r) * Width(kind, part))]

(* The next object is read into the one of its name that was asked for, or *)
(* passed over.                                                            *)
LoadNext(file, kind, r, p, acc) ==
  LET header == acc.from + r * SizeOf[kind]
      name == ObjectAt(file, header, kind)
  IN  IF ~acc.ok \/ ObjectsAt(file, header, kind) = {} THEN [acc EXCEPT !.ok = FALSE]
      ELSE [from |-> acc.from + SizeOfObject(p, kind, name),
            ok |-> TRUE,
            data |-> IF name \in DOMAIN acc.data
                     THEN [acc.data EXCEPT ![name] = Values(file, acc.from, kind, name, r, p)]
                     ELSE acc.data]

(* load() of the meshes, functions or vectors called names on rank r of p. *)
Loaded(file, kind, names, r, p) ==
  LET run[j \in 0 .. Len(Objects(kind))] ==
        IF j = 0
        THEN [from |-> Offset(kind, Header(file).p, Header(file).id), ok |-> TRUE,
              data |-> [name \in names |-> <<>>]]
        ELSE LoadNext(file, kind, r, p, run[j - 1])
  IN  run[Len(Objects(kind))].data

(* What follows the headers of the ranks.                                  *)
DataSize(p, kind, name) == SizeOfObject(p, kind, name) - p * SizeOf[kind]

(* The next header of rank 0; ranks is how many headers are passed over.   *)
HeaderNext(file, kind, ranks, j, acc) ==
  LET name == ObjectAt(file, acc.from, kind)
  IN  IF ~acc.ok \/ ObjectsAt(file, acc.from, kind) = {} THEN [acc EXCEPT !.ok = FALSE]
      ELSE [from |-> acc.from + ranks * SizeOf[kind] + DataSize(Header(file).p, kind, name),
            ok |-> TRUE,
            names |-> [acc.names EXCEPT ![j] = name]]

(* load_header(): the names in the headers of rank 0, in order.            *)
NamesRead(file, kind, p) ==
  LET h == Header(file)
      run[j \in 0 .. Len(Objects(kind))] ==
        IF j = 0
        THEN [from |-> Offset(kind, h.p, h.id), ok |-> TRUE,
              names |-> [i \in 1 .. Len(Objects(kind)) |-> ""]]
        ELSE HeaderNext(file, kind, IF kind = "vector" THEN p ELSE h.p, j, run[j - 1])
  IN  run[Len(Objects(kind))].names

------------------------------------------------------------------------------
(* A rank writes the three pieces of the front, section 0, and then the    *)
(* objects kind by kind, each part by part.                                *)
Sections == <<"mesh", "function", "vector">>
Begin(p) == [r \in Rank(p) |-> [section |-> 0, object |-> 1, part |-> 1, offset |-> 0]]

Init ==
  /\ program \in Programs
  /\ procs \in Jobs
  /\ runs = 1
  /\ phase = "running"
  /\ now = 0
  /\ n = 0
  /\ fs = [i \in Ids |-> <<>>]
  /\ writing = -1
  /\ next = Begin(procs)
  /\ got = None
  /\ complete = [i \in Ids |-> -1]
  /\ origin = None

(* The program computes: the values of its objects change.                 *)
Compute ==
  /\ phase = "running" /\ now < MaxTime
  /\ now' = now + 1 /\ got' = None
  /\ UNCHANGED <<program, procs, runs, phase, n, fs, writing, next, complete, origin>>

(* build_filename() *)
NextId == n + 1

(* write(), up to the opening of the file, which is not truncated.         *)
StartWrite ==
  /\ phase = "running" /\ n \in Ids
  /\ phase' = "writing"
  /\ writing' = n
  /\ n' = NextId
  /\ complete' = [complete EXCEPT ![n] = -1]
  /\ got' = None
  /\ UNCHANGED <<program, procs, runs, now, fs, next, origin>>

(* The file with bytes laid over it.                                       *)
Written(file, from, bytes) ==
  [b \in DOMAIN file \cup from .. (from + Len(bytes) - 1) |->
     IF b \in from .. (from + Len(bytes) - 1) THEN bytes[b - from + 1] ELSE file[b]]

(* The collective writes need not wait for one another.                    *)
WriteFront(r) ==
  /\ phase = "writing" /\ next[r].section = 0
  /\ LET x == next[r]
         bytes == Front(procs, writing, now)[x.part]
     IN  /\ fs' = [fs EXCEPT ![writing] = Written(fs[writing], x.offset, bytes)]
         /\ next' = [next EXCEPT ![r] =
              [section |-> IF x.part < 3 THEN 0 ELSE 1,
               object |-> 1,
               part |-> IF x.part < 3 THEN x.part + 1 ELSE 1,
               offset |-> x.offset + Len(bytes)]]
  /\ UNCHANGED <<program, procs, runs, phase, now, n, writing, got, complete, origin>>

(* One part of one object.                                                 *)
WritePiece(r) ==
  /\ phase = "writing" /\ next[r].section # 0
  /\ LET x == next[r]
         kind == Sections[x.section]
         name == Objects(kind)[x.object]
         part == Parts(kind, procs)[x.part]
         last == x.part = Len(Parts(kind, procs))
     IN  /\ x.object <= Len(Objects(kind))
         /\ fs' = [fs EXCEPT ![writing] =
              Written(fs[writing], x.offset + At(procs, kind, name, part, r),
                      PartOf(procs, kind, name, part, r, now))]
         /\ next' = [next EXCEPT ![r] =
              [section |-> x.section,
               object |-> IF last THEN x.object + 1 ELSE x.object,
               part |-> IF last THEN 1 ELSE x.part + 1,
               offset |-> x.offset + PartSize(procs, kind, name, part)]]
  /\ UNCHANGED <<program, procs, runs, phase, now, n, writing, got, complete, origin>>

AtEnd(r) ==
  next[r].section # 0 /\ next[r].object > Len(Objects(Sections[next[r].section]))

(* From the write() of one kind to that of the next.                       *)
NextSection(r) ==
  /\ phase = "writing" /\ AtEnd(r) /\ next[r].section < 3
  /\ next' = [next EXCEPT ![r] =
       [section |-> next[r].section + 1, object |-> 1, part |-> 1, offset |-> next[r].offset]]
  /\ UNCHANGED <<program, procs, runs, phase, now, n, fs, writing, got, complete, origin>>

CloseFile ==
  /\ phase = "writing" /\ \A r \in Rank(procs) : AtEnd(r) /\ next[r].section = 3
  /\ phase' = "running"
  /\ complete' = [complete EXCEPT ![writing] = now]
  /\ writing' = -1
  /\ next' = Begin(procs)
  /\ UNCHANGED <<program, procs, runs, now, n, fs, got, origin>>

(* The files are left as they are.                                         *)
Crash ==
  /\ phase # "down"
  /\ phase' = "down"
  /\ writing' = -1 /\ next' = Begin(procs) /\ got' = None /\ origin' = None
  /\ UNCHANGED <<program, procs, runs, now, n, fs, complete>>

Restart ==
  /\ phase = "down" /\ runs < MaxRuns
  /\ phase' = "running" /\ runs' = runs + 1
  /\ procs' \in Jobs
  /\ next' = Begin(procs')
  /\ n' = 0
  /\ UNCHANGED <<program, now, fs, writing, got, complete, origin>>

(* error(): the program stops.                                             *)
Fail ==
  /\ phase' = "down"
  /\ writing' = -1 /\ next' = Begin(procs) /\ got' = None /\ origin' = None
  /\ UNCHANGED <<program, procs, runs, now, n, fs, complete>>

(* mutant: the counter is that of the checkpoint before                    *)
IdReadBefore(id) == IF id = 0 THEN 0 ELSE id - 1

(* n_ = dolfin_get( "checkpoint_id" ), which write() set before the        *)
(* counter moved on.                                                       *)
IdRead(id) == id

(* load_parametersystem() of file i; a careful program then calls          *)
(* increment_counter().                                                    *)
LoadParametersystem(i) ==
  /\ phase = "running"
  /\ LET file == fs[i]
         id == Header(file).id
         whole == /\ Opened(file) # {}
                  /\ ReadAt(file, SizeOf.checkpoint, SizeOf.uint) = Bytes(<<"size", id>>, SizeOf.uint)
                  /\ ReadAt(file, SizeOf.checkpoint + SizeOf.uint, ParamSize[id])
                       = Bytes(<<"parameters", id>>, ParamSize[id])
     IN  \/ ~whole /\ Fail
         \/ /\ whole
            /\ n' = IF program.careful THEN IdRead(id) + 1 ELSE IdRead(id)
            /\ now' = Header(file).t
            /\ origin' = [id |-> i, t |-> complete[i]]
            /\ got' = None
            /\ UNCHANGED <<program, procs, runs, phase, fs, writing, next, complete>>

ResetCounter ==
  /\ phase = "running" /\ ~program.careful
  /\ n' = 0
  /\ UNCHANGED <<program, procs, runs, phase, now, fs, writing, next, got, complete, origin>>

(* A checkpoint of as many ranks.                                          *)
Loadable(file) == Opened(file) # {} /\ Header(file).p = procs

(* load() of one kind of objects, on all ranks.                            *)
Load(i, kind, names) ==
  /\ phase = "running"
  /\ \/ ~Loadable(fs[i]) /\ Fail
     \/ /\ Loadable(fs[i])
        /\ got' = [id |-> i, kind |-> kind, names |-> names,
                   data |-> [r \in Rank(procs) |-> Loaded(fs[i], kind, names, r, procs)]]
        /\ UNCHANGED <<program, procs, runs, phase, now, n, fs, writing, next, complete, origin>>

LoadHeader(i) ==
  /\ phase = "running"
  /\ \/ Opened(fs[i]) = {} /\ Fail
     \/ /\ Opened(fs[i]) # {}
        /\ got' = [id |-> i, kind |-> "header",
                   names |-> [kind \in Kinds |-> NamesRead(fs[i], kind, procs)]]
        /\ UNCHANGED <<program, procs, runs, phase, now, n, fs, writing, next, complete, origin>>

Next ==
  \/ Compute \/ StartWrite \/ CloseFile \/ Crash \/ Restart \/ ResetCounter
  \/ \E r \in Rank(procs) : WriteFront(r) \/ WritePiece(r) \/ NextSection(r)
  \/ \E i \in Ids : LoadParametersystem(i) \/ LoadHeader(i)
  \/ \E i \in Ids, kind \in Kinds :
       \E names \in SUBSET Names(kind) : Load(i, kind, names)

Spec == Init /\ [][Next]_vars

------------------------------------------------------------------------------
(* Properties *)

(* load_header() moves on by the ranks that read and not by those that     *)
(* wrote when it comes to the vectors, so it takes as many of them.        *)
HeadersRead ==
  \A kind \in Kinds :
    (kind = "vector" => Header(fs[got.id]).p = procs) => got.names[kind] = Objects(kind)

(* What each rank loads from a file that was closed is what that rank      *)
(* wrote, for every object that was asked for and whichever others are in  *)
(* the file; and load_header() finds the names of all objects.             *)
LoadedIsWritten ==
  got # None /\ complete[got.id] # -1 =>
    IF got.kind = "header" THEN HeadersRead ELSE
    \A r \in Rank(procs) :
      got.data[r] =
        [name \in got.names |->
           [k \in 1 .. (Len(Parts(got.kind, procs)) - 1) |->
              DataOf(procs, got.kind, name, Parts(got.kind, procs)[k + 1], r, complete[got.id])]]

(* A file that was closed has no gap, and nothing in it is older than the  *)
(* time in its header: the ranks together have written all of it.          *)
Dense ==
  \A i \in Ids : complete[i] # -1 =>
    LET h == Header(fs[i])
        end == Offset("vector", h.p, h.id) + SizeOfKind(h.p, "vector")
        first == Offset("mesh", h.p, h.id)
        stamp(b) == IF Len(fs[i][b]) = 2 THEN fs[i][b][1][6] ELSE fs[i][b][5]
    IN  /\ h.t = complete[i]
        /\ 0 .. (end - 1) \subseteq DOMAIN fs[i]
        /\ \A b \in first .. (end - 1) : stamp(b) = h.t

(* The checkpoint a careful program was restarted from stays as it was, as *)
(* long as the program runs, so that it can be restarted from it again     *)
(* after a crash in the middle of the next write.                          *)
OriginKept ==
  program.careful /\ origin # None => complete[origin.id] = origin.t

==============================================================================
