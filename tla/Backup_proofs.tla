--------------------------- MODULE Backup_proofs ---------------------------
(***************************************************************************)
(* Proofs about Backup, for any tree of paths, any contents and any bounds *)
(* on edits, runs, jobs and faults.                                        *)
(***************************************************************************)
EXTENDS BackupWaits, WellFoundedInduction, TLAPS

-----------------------------------------------------------------------------
\* Types.

\* The operations of the two stores keep their types.
LEMMA StoreTypes ==
    ASSUME NEW t \in [Paths -> Nodes], NEW rows \in [Paths -> Rows], NEW p \in Paths,
           NEW c \in Contents, NEW h \in Contents \cup {Dir}
    PROVE  /\ CreateDirs(t, p) \in [Paths -> Nodes] /\ WriteOnFile(t, p, c) \in [Paths -> Nodes]
           /\ Remove(t, p) \in [Paths -> Nodes] /\ RemoveAll(t, p) \in [Paths -> Nodes]
           /\ CreateDirectory(t, p) \in [Paths -> Nodes]
           /\ UpdatePath(rows, p, h) \in [Paths -> Rows] /\ DeletePath(rows, p) \in [Paths -> Rows]
           /\ InsertPath(rows, p, h) \in [Paths -> Rows] /\ InsertPath(rows, p, DirRow) \in [Paths -> Rows]
<1>1. c \in Nodes /\ Dir \in Nodes /\ Absent \in Nodes
  BY DEF Nodes
<1>2. h \in Rows /\ NoRow \in Rows /\ DirRow \in Rows
  BY DEF Rows, FileRows
<1>3. CreateDirs(t, p) \in [Paths -> Nodes] /\ RemoveAll(t, p) \in [Paths -> Nodes]
  BY <1>1 DEF CreateDirs, RemoveAll
<1>4. /\ WriteOnFile(t, p, c) \in [Paths -> Nodes] /\ Remove(t, p) \in [Paths -> Nodes]
      /\ CreateDirectory(t, p) \in [Paths -> Nodes]
  BY <1>1 DEF WriteOnFile, Remove, CreateDirectory
<1>5. /\ UpdatePath(rows, p, h) \in [Paths -> Rows] /\ DeletePath(rows, p) \in [Paths -> Rows]
      /\ InsertPath(rows, p, h) \in [Paths -> Rows] /\ InsertPath(rows, p, DirRow) \in [Paths -> Rows]
  BY <1>2 DEF UpdatePath, DeletePath, InsertPath
<1> QED  BY <1>3, <1>4, <1>5

\* The client runs only after it was started, and an element is in hand only
\* within a loop; then Send has a session to push in.
Loops == {"probeErased", "probeCreated", "scanFiles", "scanDirs", "scanTree"}
Started == /\ phase # "off" => runs \in 1..MaxRuns
           /\ item # None => phase \in Loops

Bounds == runs \in 0..MaxRuns /\ edits \in 0..MaxEdits /\ faults \in [DOMAIN MaxFaults -> Nat]
ClientTypes ==
    /\ phase \in Watching \cup {"off", "ask", "probeErased", "probeCreated", "halted"}
    /\ todo \subseteq Paths /\ (item = None \/ item \in Items)
    /\ files \in [Paths -> Contents \cup {Absent}] /\ dirs \subseteq Paths
    /\ schema \in [Paths -> Rows] /\ fresh \in BOOLEAN /\ sent \in BOOLEAN
ServerTypes == /\ local \in [Paths -> Nodes] /\ disk \in [Paths -> Nodes] /\ db \in [Paths -> Rows]
               /\ failed \in BOOLEAN /\ known \in BOOLEAN /\ suspect \subseteq Paths
AllTypes == Bounds /\ ClientTypes /\ ServerTypes /\ jobs \subseteq Jobs /\ Started

LEMMA TypesAreAll == AllTypes => TypeOK
  BY DEF AllTypes, Bounds, ClientTypes, ServerTypes, TypeOK

\* What lies at a path, and what is read there.
LEMMA Reads == ASSUME local \in [Paths -> Nodes], NEW p \in Paths
               PROVE  /\ ReadFromFile(p) \in Contents /\ SHA256(p) \in Contents
                      /\ IsFile(p) => local[p] \in Contents
  BY BackupAssumption DEF ReadFromFile, SHA256, IsFile

LEMMA HashesOf == ASSUME ClientTypes, NEW p \in Paths
                  PROVE  HashOf(p) \in Contents \cup {Dir}
  BY PathsAssumption DEF ClientTypes, HashOf

LEMMA Pushes == ASSUME NEW p \in Paths, NEW k \in PushKinds, NEW h \in Contents \cup {Dir},
                       NEW at \in {"hash", "read", "send"}, Push(p, k, h, at)
                PROVE  item' \in Items
  BY BackupAssumption DEF Push, Items

LEMMA BoundsKept == ASSUME Bounds, [Next]_vars PROVE Bounds'
<1> USE BackupAssumption DEF Bounds
<1>1. CASE UNCHANGED vars
  BY <1>1 DEF vars
<1>2. CASE User
  BY <1>2 DEF User, WriteFile, MakeDir, RemoveTree, Edit
<1>3. CASE Start
  BY <1>3 DEF Start, user
<1>4. CASE Client
  <2>1. CASE Ask \/ ProbeDone
    BY <1>4, <2>1 DEF Ask, ProbeDone, Fault, user
  <2>2. CASE ~Ask /\ ~ProbeDone
    BY <1>4, <2>2 DEF Client, ProbeErased, ProbeErasedDone, ProbeCreated, NextCycle, ErasedFile, ErasedDir,
       CreatedOrModified, IteratorThrows, ScanDone, HashItem, ReadItem, GiveUp, Send, user
  <2> QED  BY <2>1, <2>2
<1>5. CASE Worker
  BY <1>5 DEF Worker, EnterGate, Refuse, First, Second, user
<1>6. CASE Faults
  BY <1>6 DEF Faults, Fault, DbFault, Lose, Lost, LoseRequest, LoseAnswer, Crash, Kill, user
<1>7. CASE Quit
  BY <1>7 DEF Quit, user
<1> QED  BY <1>1, <1>2, <1>3, <1>4, <1>5, <1>6, <1>7 DEF Next

\* The loops' next path is one of those to come.
LEMMA LeastIsThere ==
    ASSUME NEW S \in SUBSET Paths, S # {}
    PROVE  Least(S) \in S
<1> DEFINE T == {Rank[p] : p \in S}
<1>1. T \subseteq Nat /\ T # {}
  BY BackupAssumption
<1>2. PICK x \in T : \A y \in T : ~(<<y, x>> \in OpToRel(<, Nat))
  <2> HIDE DEF T
  <2> QED  BY <1>1, WFMin, NatLessThanWellFounded
<1>3. \A y \in T : x <= y
  <2> SUFFICES ASSUME NEW y \in T PROVE x <= y
    OBVIOUS
  <2>1. x \in Nat /\ y \in Nat
    BY <1>1
  <2>2. <<y, x>> \in Nat \X Nat /\ <<y, x>>[1] = y /\ <<y, x>>[2] = x
    BY <2>1
  <2>3. ~(y < x)
    BY <1>2, <2>2 DEF OpToRel
  <2> QED  BY <2>1, <2>3
<1>4. \E p \in S : \A q \in S : Rank[p] <= Rank[q]
  BY <1>3
<1> QED  BY <1>4 DEF Least

LEMMA ClientTypesKept == ASSUME AllTypes, [Next]_vars PROVE ClientTypes'
<1> USE DEF AllTypes, ClientTypes, Watching
<1>1. CASE UNCHANGED vars
  BY <1>1 DEF vars
<1>2. CASE User
  BY <1>2 DEF User, WriteFile, MakeDir, RemoveTree, Edit, client, watch
<1>3. CASE Start
  BY <1>3, Reads, PathsAssumption DEF Start, InitWatcher, ServerTypes
<1>4. CASE Ask \/ ProbeErasedDone \/ ProbeDone \/ NextCycle \/ GiveUp \/ ScanDone \/ IteratorThrows
  BY <1>4 DEF Ask, ProbeErasedDone, ProbeDone, NextCycle, GiveUp, ScanDone, IteratorThrows, Halt,
     FirstLoop, Elements, watch, ServerTypes, Rows
<1>5. ASSUME NEW p \in Paths, ProbeErased(p) PROVE ClientTypes'
  <2>1. item' \in Items
    BY <1>5, Pushes, PathsAssumption DEF ProbeErased, PushKinds, Erasures
  <2> QED  BY <1>5, <2>1 DEF ProbeErased, Visit, watch
<1>6. CASE ProbeCreated
  <2> DEFINE p == Least(todo)
  <2>1. p \in Paths /\ HashOf(p) \in Contents \cup {Dir}
    BY <1>6, HashesOf DEF ProbeCreated, Visit
  <2> HIDE DEF p
  <2>2. \/ \E k \in PushKinds, at \in {"read", "send"} : Push(p, k, HashOf(p), at)
        \/ item' = None
    BY <1>6 DEF ProbeCreated, p, PushKinds, FileKinds, Erasures
  <2>3. item' = None \/ item' \in Items
    BY <2>1, <2>2, Pushes
  <2> QED  BY <1>6, <2>3 DEF ProbeCreated, Visit, watch
<1>7. CASE ErasedFile
  <2> DEFINE p == Least(todo)
  <2>1. p \in Paths /\ (item' = None \/ Push(p, "erasedFile", Dir, "send"))
    BY <1>7 DEF ErasedFile, Visit
  <2> HIDE DEF p
  <2>2. item' = None \/ item' \in Items
    BY <2>1, Pushes DEF PushKinds, Erasures
  <2> QED  BY <1>7, <2>2 DEF ErasedFile, Visit, watch
<1>8. CASE ErasedDir
  <2> DEFINE p == Greatest(todo)
  <2>1. p \in Paths /\ (item' = None \/ Push(p, "erasedDir", Dir, "send"))
    BY <1>8 DEF ErasedDir, Visit
  <2> HIDE DEF p
  <2>2. item' = None \/ item' \in Items
    BY <2>1, Pushes DEF PushKinds, Erasures
  <2> QED  BY <1>8, <2>2 DEF ErasedDir, Visit, watch
<1>12. CASE CreatedOrModified
  <2> DEFINE p == Least(todo)
  <2>1. p \in Paths
    BY <1>12, LeastIsThere DEF CreatedOrModified
  <2> HIDE DEF p
  <2>2. /\ \/ \E k \in PushKinds, at \in {"hash", "send"} : Push(p, k, Dir, at)
           \/ item' = None
        /\ dirs' = dirs \/ dirs' = dirs \cup {p}
        /\ todo' \subseteq todo
    BY <1>12 DEF CreatedOrModified, p, PushKinds, FileKinds, Erasures
  <2>3. item' = None \/ item' \in Items
    BY <2>1, <2>2, Pushes
  <2>4. UNCHANGED <<phase, files, schema, fresh, sent>>
    BY <1>12 DEF CreatedOrModified
  <2> QED  BY <2>1, <2>2, <2>3, <2>4
<1>13. CASE HashItem
  <2>1. item \in Items /\ item.path \in Paths
    BY <1>13 DEF HashItem, Items
  <2>2. SHA256(item.path) \in Contents
    BY <2>1, Reads DEF ServerTypes
  <2>3. item' = None \/ item' = [item EXCEPT !.hash = SHA256(item.path), !.at = "read"]
    BY <1>13 DEF HashItem, Halt
  <2>4. item' = None \/ item' \in Items
    BY <2>1, <2>2, <2>3 DEF Items
  <2>5. /\ files' = files \/ files' = [files EXCEPT ![item.path] = SHA256(item.path)]
        /\ todo' \subseteq todo /\ (phase' = phase \/ phase' = "halted")
        /\ UNCHANGED <<dirs, schema, fresh, sent>>
    BY <1>13 DEF HashItem, Halt
  <2> QED  BY <2>1, <2>2, <2>4, <2>5
<1>14. CASE ReadItem
  <2>1. item \in Items /\ item.path \in Paths
    BY <1>14 DEF ReadItem, Items
  <2>2. ReadFromFile(item.path) \in Contents
    BY <2>1, Reads DEF ServerTypes
  <2>3. item' \in Items
    BY <1>14, <2>1, <2>2 DEF ReadItem, Items
  <2> QED  BY <1>14, <2>3 DEF ReadItem, watch
<1>15. CASE Send
  <2>1. item \in Items /\ item.path \in Paths
    BY <1>15 DEF Send, Items
  <2> QED  BY <1>15, <2>1 DEF Send
<1>9. CASE Worker
  BY <1>9 DEF Worker, EnterGate, Refuse, First, Second, client, watch
<1>10. CASE Faults
  BY <1>10 DEF Faults, DbFault, Lose, Lost, LoseRequest, LoseAnswer, Crash, Kill, client, watch
<1>11. CASE Quit
  BY <1>11 DEF Quit, watch
<1> QED  BY <1>1, <1>2, <1>3, <1>4, <1>5, <1>6, <1>7, <1>8, <1>9, <1>10, <1>11,
          <1>12, <1>13, <1>14, <1>15 DEF Next, Client

\* A push keeps its session, path, kind and contents through all its stages.
LEMMA JobFields ==
    ASSUME NEW j \in Jobs
    PROVE  /\ j.sess \in 1..MaxRuns /\ j.path \in Paths /\ j.kind \in PushKinds
           /\ j.hash \in Contents \cup {Dir} /\ j.data \in Contents
           /\ j.stage \in {"sent", "first", "second"} /\ j.own \in BOOLEAN
           /\ \A st \in {"sent", "first", "second"} : [j EXCEPT !.stage = st] \in Jobs
           /\ [j EXCEPT !.own = FALSE] \in Jobs
  BY DEF Jobs

LEMMA JobsKept == ASSUME AllTypes, [Next]_vars PROVE jobs' \subseteq Jobs
<1>0. jobs \subseteq Jobs
  BY DEF AllTypes
<1>1. CASE UNCHANGED vars
  BY <1>0, <1>1 DEF vars
<1>2. CASE User \/ Start \/ Quit
  BY <1>0, <1>2 DEF User, WriteFile, MakeDir, RemoveTree, Edit, Start, Quit
<1>3. CASE Client /\ ~Send
  BY <1>0, <1>3 DEF Client, Ask, ProbeErased, ProbeErasedDone, ProbeCreated, ProbeDone, NextCycle,
     ErasedFile, ErasedDir, CreatedOrModified, IteratorThrows, ScanDone, HashItem, ReadItem, GiveUp
<1>4. CASE Send
  <2>1. item \in Items /\ runs \in 1..MaxRuns
    BY <1>4 DEF Send, AllTypes, ClientTypes, Started, Loops
  <2>2. [sess |-> runs, path |-> item.path, kind |-> item.kind, hash |-> item.hash,
         data |-> item.data, stage |-> "sent", own |-> TRUE] \in Jobs
    BY <2>1 DEF Items, Jobs
  <2> QED  BY <1>0, <1>4, <2>2 DEF Send
<1>5. ASSUME NEW j \in jobs, EnterGate(j) \/ Refuse(j) \/ First(j) \/ Second(j) \/ DbFault(j) \/ Lose(j)
      PROVE jobs' \subseteq Jobs
  BY <1>0, <1>5, JobFields DEF EnterGate, Refuse, First, Second, DbFault, Lose, Lost, LoseRequest, LoseAnswer, Fail, Succeed
<1>6. CASE Crash
  BY <1>6 DEF Crash
<1>7. CASE Kill
  <2>1. \A j \in jobs : [j EXCEPT !.own = FALSE] \in Jobs
    BY <1>0, JobFields
  <2>2. jobs' = {[j EXCEPT !.own = FALSE] : j \in jobs}
    BY <1>7 DEF Kill
  <2> QED  BY <2>1, <2>2
<1> QED  BY <1>1, <1>2, <1>3, <1>4, <1>5, <1>6, <1>7 DEF Next, Worker, Faults, Client

LEMMA ServerTypesKept == ASSUME AllTypes, [Next]_vars PROVE ServerTypes'
<1> USE DEF ServerTypes
<1>0. ServerTypes /\ jobs \subseteq Jobs
  BY DEF AllTypes
<1>1. CASE UNCHANGED vars
  BY <1>0, <1>1 DEF vars
<1>2. CASE User
  BY <1>0, <1>2 DEF User, WriteFile, MakeDir, RemoveTree, RemoveAll, Edit, server, Nodes
<1>3. CASE Start \/ Quit
  BY <1>0, <1>3 DEF Start, Quit, user, server
<1>4. CASE Client /\ ~Send /\ ~ProbeCreated
  BY <1>0, <1>4 DEF Client, Ask, ProbeErased, ProbeErasedDone, ProbeDone, NextCycle, ErasedFile, ErasedDir,
     CreatedOrModified, IteratorThrows, ScanDone, HashItem, ReadItem, GiveUp, user, server
<1>5. CASE ProbeCreated
  <2>1. Least(todo) \in Paths
    BY <1>5 DEF ProbeCreated, Visit, AllTypes, ClientTypes
  <2> QED  BY <1>0, <1>5, <2>1 DEF ProbeCreated, user, server
<1>6. CASE Send
  <2>1. item.path \in Paths
    BY <1>6 DEF Send, AllTypes, ClientTypes, Items
  <2> QED  BY <1>0, <1>6, <2>1 DEF Send, Spoils, user, server
<1>7. ASSUME NEW j \in jobs, EnterGate(j) \/ Refuse(j) \/ DbFault(j) \/ Lose(j) PROVE ServerTypes'
  <2>1. HalfDone(j) \subseteq Paths /\ Touched(j) \subseteq Paths /\ j.own \in BOOLEAN
    BY <1>0, JobFields DEF HalfDone, Touched, Below
  <2> QED  BY <1>0, <1>7, <2>1 DEF EnterGate, Refuse, DbFault, Lose, Lost, LoseRequest, LoseAnswer, Fail, user, server
<1>8. ASSUME NEW j \in jobs, First(j) PROVE ServerTypes'
  <2>1. /\ HalfDone(j) \subseteq Paths /\ Touched(j) \subseteq Paths /\ j.own \in BOOLEAN
        /\ j.path \in Paths /\ j.data \in Contents /\ j.hash \in Contents \cup {Dir}
    BY <1>0, JobFields DEF HalfDone, Touched, Below
  <2>2. DiskAfterFirst(j) \in [Paths -> Nodes] /\ UpdatePath(db, j.path, j.hash) \in [Paths -> Rows]
    BY <1>0, <2>1, StoreTypes DEF DiskAfterFirst
  <2> QED  BY <1>0, <1>8, <2>1, <2>2 DEF First, Fail, user
<1>9. ASSUME NEW j \in jobs, Second(j) PROVE ServerTypes'
  <2>1. /\ HalfDone(j) \subseteq Paths /\ j.own \in BOOLEAN
        /\ j.path \in Paths /\ j.data \in Contents /\ j.hash \in Contents \cup {Dir}
    BY <1>0, JobFields DEF HalfDone
  <2>2. /\ WriteOnFile(disk, j.path, j.data) \in [Paths -> Nodes] /\ DeletePath(db, j.path) \in [Paths -> Rows]
        /\ InsertPath(db, j.path, j.hash) \in [Paths -> Rows] /\ InsertPath(db, j.path, DirRow) \in [Paths -> Rows]
    BY <1>0, <2>1, StoreTypes
  <2> QED  BY <1>0, <1>9, <2>1, <2>2 DEF Second, Fail, Succeed, user
<1>10. CASE Crash \/ Kill
  <2>1. \A j \in jobs : HalfDone(j) \subseteq Paths /\ Touched(j) \subseteq Paths
    BY <1>0, JobFields DEF HalfDone, Touched, Below
  <2> QED  BY <1>0, <1>10, <2>1 DEF Crash, Kill, user, server
<1> QED  BY <1>1, <1>2, <1>3, <1>4, <1>5, <1>6, <1>7, <1>8, <1>9, <1>10 DEF Next, Worker, Faults, Client

LEMMA StartedKept == ASSUME AllTypes, [Next]_vars PROVE Started'
<1>0. Started /\ Bounds /\ runs \in Nat /\ MaxRuns \in Nat
  BY BackupAssumption DEF AllTypes, Bounds
<1> USE <1>0 DEF Started, Loops
<1>1. CASE UNCHANGED vars
  BY <1>1 DEF vars
<1>2. CASE User
  BY <1>2 DEF User, WriteFile, MakeDir, RemoveTree, Edit, client
<1>3. CASE Start
  BY <1>3 DEF Start, Bounds
<1>4. CASE Client
  BY <1>4 DEF Client, Ask, ProbeErased, ProbeErasedDone, ProbeCreated, ProbeDone, NextCycle, ErasedFile, ErasedDir,
     CreatedOrModified, IteratorThrows, Halt, ScanDone, HashItem, ReadItem, GiveUp, Send, Visit, FirstLoop
<1>5. CASE Worker
  BY <1>5 DEF Worker, EnterGate, Refuse, First, Second, client
<1>6. CASE Faults
  BY <1>6 DEF Faults, DbFault, Lose, Lost, LoseRequest, LoseAnswer, Crash, Kill, client
<1>7. CASE Quit
  BY <1>7 DEF Quit
<1> QED  BY <1>1, <1>2, <1>3, <1>4, <1>5, <1>6, <1>7 DEF Next

\* The variables of the backup keep their types, the client has a session while
\* it runs, and the loops push only while it does: what Send relies on.
THEOREM BackupTypes == Spec => []AllTypes
<1>1. Init => AllTypes
  <2> SUFFICES ASSUME Init PROVE AllTypes
    OBVIOUS
  <2>1. Bounds /\ Started
    BY BackupAssumption DEF Init, Bounds, Started
  <2>2. ClientTypes
    BY DEF Init, ClientTypes, Rows
  <2>3. ServerTypes
    BY DEF Init, ServerTypes, Trees, TreesOf, Nodes, Rows
  <2> QED  BY <2>1, <2>2, <2>3 DEF Init, AllTypes
<1>2. AllTypes /\ [Next]_vars => AllTypes'
  BY BoundsKept, ClientTypesKept, JobsKept, ServerTypesKept, StartedKept DEF AllTypes
<1> QED  BY <1>1, <1>2, PTL DEF Spec

\* All variables of the backup have their types (TypeOK).
THEOREM BackupTypeCorrect == Spec => []TypeOK
  BY BackupTypes, TypesAreAll, PTL

-----------------------------------------------------------------------------
\* What may be where.

\* A file, or a directory, may be at p: the user puts such things there, and
\* directories above it.
Possible(p) == \A a \in Ancestors[p] : "dir" \in Kinds[a]
FileAt(p) == "file" \in Kinds[p] /\ Possible(p)
DirAt(p)  == "dir" \in Kinds[p] /\ Possible(p)

Fits(p, n) == (n \in Contents => FileAt(p)) /\ (n = Dir => DirAt(p))
FitsPush(x) == /\ x.kind \in FileKinds => FileAt(x.path)
               /\ x.kind = "createdDir" => DirAt(x.path)

\* What is in the directory, on record, under way and stored is what the user
\* may have put there at some time.
FitsClient == /\ \A p \in Paths : Fits(p, local[p]) /\ Fits(p, files[p]) /\ (p \in dirs => DirAt(p))
              /\ item # None => FitsPush(item) /\ (item.at # "send" => item.kind \in FileKinds)
FitsServer == \A p \in Paths : Fits(p, disk[p]) /\ (db[p] \in FileRows => FileAt(p))
Fitting == FitsClient /\ FitsServer /\ \A j \in jobs : FitsPush(j)

\* The words of ServerStore are no contents.
LEMMA Words == /\ Absent \notin Contents /\ Dir \notin Contents /\ Absent # Dir
               /\ NoRow \notin FileRows /\ DirRow \notin FileRows /\ NoRow # DirRow
               /\ Empty \in Contents
  BY PathsAssumption, BackupAssumption DEF Absent, Dir, NoRow, DirRow, FileRows

\* Where something lies in a proper tree, something may.
LEMMA UnderDirs ==
    ASSUME NEW t \in [Paths -> Nodes], \A q \in Paths : Fits(q, t[q]), NEW p \in Paths, ParentIsDir(t, p)
    PROVE  Possible(p)
  BY PathsAssumption DEF ParentIsDir, Fits, DirAt, Possible

\* The ancestors of a path at which something may be may be directories.
LEMMA DirsAbove == ASSUME NEW p \in Paths, Possible(p), NEW a \in Ancestors[p]
                   PROVE  a \in Paths /\ DirAt(a)
  BY PathsAssumption DEF Possible, DirAt

LEMMA FitsClientKept == ASSUME AllTypes, Fitting, [Next]_vars PROVE FitsClient'
<1>0. FitsClient /\ local \in [Paths -> Nodes] /\ files \in [Paths -> Contents \cup {Absent}] /\ dirs \subseteq Paths
  BY DEF Fitting, AllTypes, ClientTypes, ServerTypes
<1> USE <1>0, Words DEF FitsClient
<1>1. CASE UNCHANGED vars
  BY <1>1 DEF vars
<1>2. ASSUME NEW p \in Paths, WriteFile(p) \/ MakeDir(p) PROVE FitsClient'
  <2>1. Possible(p)
    BY <1>2, UnderDirs DEF WriteFile, MakeDir
  <2>2. PICK c \in Contents \cup {Dir} : Fits(p, c) /\ local' = [local EXCEPT ![p] = c]
    BY <1>2, <2>1 DEF WriteFile, MakeDir, Edit, Fits, FileAt, DirAt
  <2> QED  BY <1>2, <2>2 DEF WriteFile, MakeDir, Edit, client, watch
<1>3. ASSUME NEW p \in Paths, RemoveTree(p) PROVE FitsClient'
  <2>1. \A q \in Paths : local'[q] = local[q] \/ local'[q] = Absent
    BY <1>3 DEF RemoveTree, Edit, RemoveAll
  <2>2. \A q \in Paths : Fits(q, local'[q])
    BY <2>1 DEF Fits
  <2> QED  BY <1>3, <2>2 DEF RemoveTree, Edit, client, watch
<1>4. CASE Start
  <2>1. \A p \in Paths : Fits(p, files'[p]) /\ (p \in dirs' => DirAt(p))
    BY <1>4 DEF Start, InitWatcher, IsFile, SHA256, ReadFromFile, Fits
  <2> QED  BY <1>4, <2>1 DEF Start, user
<1>5. CASE Ask \/ ProbeErasedDone \/ ProbeDone \/ NextCycle \/ GiveUp \/ ScanDone \/ IteratorThrows
  BY <1>5 DEF Ask, ProbeErasedDone, ProbeDone, NextCycle, GiveUp, ScanDone, IteratorThrows, Halt,
     FirstLoop, watch, user
<1>6. ASSUME NEW p \in Paths, ProbeErased(p) PROVE FitsClient'
  <2>1. item'.kind \in Erasures /\ item'.at = "send"
    BY <1>6 DEF ProbeErased, Push, Erasures
  <2>2. FitsPush(item')
    BY <2>1 DEF FitsPush, Erasures, FileKinds
  <2> QED  BY <1>6, <2>1, <2>2 DEF ProbeErased, user, watch
<1>7. CASE ProbeCreated
  <2> DEFINE p == Least(todo)
  <2>1. p \in Paths
    BY <1>7 DEF ProbeCreated, Visit, AllTypes, ClientTypes
  <2> HIDE DEF p
  <2>2. \/ IsFile(p) /\ \E k \in FileKinds : Push(p, k, HashOf(p), "read")
        \/ local[p] = Dir /\ Push(p, "createdDir", HashOf(p), "send")
        \/ item' = None
    BY <1>7 DEF ProbeCreated, p, FileKinds
  <2>3. item' = None \/ (FitsPush(item') /\ (item'.at # "send" => item'.kind \in FileKinds))
    BY <2>1, <2>2 DEF Push, FitsPush, FileKinds, Fits, IsFile
  <2> QED  BY <1>7, <2>3 DEF ProbeCreated, user, watch
<1>8. CASE ErasedFile \/ ErasedDir
  <2>1. item' = None \/ (item'.kind \in Erasures /\ item'.at = "send")
    BY <1>8 DEF ErasedFile, ErasedDir, Push, Erasures
  <2>2. item' = None \/ FitsPush(item')
    BY <2>1 DEF FitsPush, Erasures, FileKinds
  <2> QED  BY <1>8, <2>1, <2>2 DEF ErasedFile, ErasedDir, user, watch
<1>9. CASE CreatedOrModified
  <2> DEFINE p == Least(todo)
  <2>1. p \in Paths
    BY <1>9, LeastIsThere DEF CreatedOrModified, AllTypes, ClientTypes
  <2> HIDE DEF p
  <2>2. \/ IsFile(p) /\ dirs' = dirs /\ \E k \in FileKinds : Push(p, k, Dir, "hash")
        \/ local[p] = Dir /\ dirs' = dirs \cup {p} /\ Push(p, "createdDir", Dir, "send")
        \/ item' = None /\ dirs' = dirs
    BY <1>9 DEF CreatedOrModified, p, FileKinds
  <2>3. item' = None \/ (FitsPush(item') /\ (item'.at # "send" => item'.kind \in FileKinds))
    BY <2>1, <2>2 DEF Push, FitsPush, FileKinds, Fits, IsFile
  <2>4. \A q \in Paths : q \in dirs' => DirAt(q)
    BY <2>1, <2>2 DEF Fits
  <2> QED  BY <1>9, <2>3, <2>4 DEF CreatedOrModified, user
<1>10. CASE HashItem
  <2>1. item \in Items /\ item.path \in Paths /\ FileAt(item.path)
    BY <1>10 DEF HashItem, FitsPush, AllTypes, ClientTypes, Items
  <2>2. \/ files' = files /\ item' = None
        \/ /\ files' = [files EXCEPT ![item.path] = SHA256(item.path)]
           /\ item' = None \/ item' = [item EXCEPT !.hash = SHA256(item.path), !.at = "read"]
    BY <1>10 DEF HashItem, Halt
  <2>3. item' = None \/ (item'.path = item.path /\ item'.kind = item.kind /\ item.kind \in FileKinds)
    BY <1>10, <2>1, <2>2 DEF HashItem, Items
  <2>4. item' # None => FitsPush(item') /\ item'.kind \in FileKinds
    BY <1>10, <2>3 DEF HashItem, FitsPush
  <2>5. SHA256(item.path) # Dir
    BY <2>1, Reads DEF AllTypes, ServerTypes
  <2>6. \A q \in Paths : Fits(q, files'[q])
    BY <2>1, <2>2, <2>5 DEF Fits
  <2> QED  BY <1>10, <2>4, <2>6 DEF HashItem, user
<1>11. CASE ReadItem
  <2>1. item \in Items /\ item # None
    BY <1>11 DEF ReadItem, AllTypes, ClientTypes
  <2>2. item'.path = item.path /\ item'.kind = item.kind /\ item'.at = "send"
    BY <1>11, <2>1 DEF ReadItem, Items
  <2>3. FitsPush(item')
    BY <2>1, <2>2 DEF FitsPush
  <2> QED  BY <1>11, <2>2, <2>3 DEF ReadItem, user, watch
<1>12. CASE Send
  <2>1. \A q \in Paths : files'[q] = files[q] \/ files'[q] = Absent
    BY <1>12 DEF Send
  <2>2. \A q \in Paths : Fits(q, files'[q])
    BY <2>1 DEF Fits
  <2> QED  BY <1>12, <2>2 DEF Send, user
<1>14. CASE Worker
  BY <1>14 DEF Worker, EnterGate, Refuse, First, Second, client, watch, user
<1>15. CASE Faults
  BY <1>15 DEF Faults, DbFault, Lose, Lost, LoseRequest, LoseAnswer, Crash, Kill, client, watch, user
<1>16. CASE Quit
  BY <1>16 DEF Quit, watch, user
<1> QED  BY <1>1, <1>2, <1>3, <1>4, <1>5, <1>6, <1>7, <1>8, <1>9, <1>10,
          <1>11, <1>12, <1>14, <1>15, <1>16 DEF Next, User, Client

\* Two records are of one push, at different moments of it.
SamePush(j, k) == j.sess = k.sess /\ j.path = k.path /\ j.kind = k.kind /\ j.hash = k.hash /\ j.data = k.data

\* No step but Send adds a push, or makes two of one.
NoNewPush ==
    /\ \A m \in jobs' : \E j \in jobs : SamePush(j, m)
    /\ \A m, n \in jobs' : m # n => \E j, k \in jobs : j # k /\ SamePush(j, m) /\ SamePush(k, n)

LEMMA OneRestaged ==
    ASSUME jobs \subseteq Jobs, NEW j \in jobs, NEW m, SamePush(j, m),
           jobs' = jobs \ {j} \/ jobs' = (jobs \ {j}) \cup {m}
    PROVE  NoNewPush
<1>1. \A k \in jobs : SamePush(k, k)
  BY DEF SamePush
<1> QED  BY <1>1 DEF NoNewPush

LEMMA WorkerSteps ==
    ASSUME jobs \subseteq Jobs, NEW j \in jobs,
           EnterGate(j) \/ Refuse(j) \/ First(j) \/ Second(j) \/ DbFault(j) \/ Lose(j)
    PROVE  NoNewPush
<1>1. /\ SamePush(j, j) /\ SamePush(j, [j EXCEPT !.own = FALSE])
      /\ SamePush(j, [j EXCEPT !.stage = "first"]) /\ SamePush(j, [j EXCEPT !.stage = "second"])
  BY DEF SamePush, Jobs
<1>2. PICK m \in {j, [j EXCEPT !.own = FALSE], [j EXCEPT !.stage = "first"], [j EXCEPT !.stage = "second"]} :
        jobs' = jobs \ {j} \/ jobs' = (jobs \ {j}) \cup {m}
  BY DEF EnterGate, Refuse, First, Second, DbFault, Lose, Lost, LoseRequest, LoseAnswer, Fail, Succeed
<1> QED  BY <1>1, <1>2, OneRestaged

LEMMA PushSteps == ASSUME jobs \subseteq Jobs, [Next]_vars, ~Send PROVE NoNewPush
<1>0. \A j \in jobs : SamePush(j, j) /\ SamePush(j, [j EXCEPT !.own = FALSE])
  BY DEF SamePush, Jobs
<1>1. CASE jobs' = jobs \/ jobs' = {}
  BY <1>0, <1>1 DEF NoNewPush
<1>2. CASE Kill
  <2>1. jobs' = {[j EXCEPT !.own = FALSE] : j \in jobs}
    BY <1>2 DEF Kill
  <2>2. ASSUME NEW m \in jobs' PROVE \E j \in jobs : m = [j EXCEPT !.own = FALSE] /\ SamePush(j, m)
    BY <1>0, <2>1
  <2>3. ASSUME NEW m \in jobs', NEW n \in jobs', m # n
        PROVE  \E j, k \in jobs : j # k /\ SamePush(j, m) /\ SamePush(k, n)
    BY <2>2, <2>3
  <2> QED  BY <2>2, <2>3 DEF NoNewPush
<1>3. ASSUME Client PROVE jobs' = jobs
  BY <1>3 DEF Client, Ask, ProbeErased, ProbeErasedDone, ProbeCreated, ProbeDone, NextCycle, ErasedFile, ErasedDir,
     CreatedOrModified, IteratorThrows, ScanDone, HashItem, ReadItem, GiveUp
<1>4. ASSUME User \/ Start \/ Quit \/ Crash \/ UNCHANGED vars PROVE jobs' = jobs \/ jobs' = {}
  BY <1>4 DEF User, WriteFile, MakeDir, RemoveTree, Edit, Start, Quit, Crash, vars
<1> QED  BY <1>1, <1>2, <1>3, <1>4, WorkerSteps DEF Next, Worker, Faults

LEMMA FitsJobsKept == ASSUME AllTypes, Fitting, [Next]_vars PROVE \A j \in jobs' : FitsPush(j)
<1>1. CASE Send
  <2>1. FitsPush([sess |-> runs, path |-> item.path, kind |-> item.kind, hash |-> item.hash,
                  data |-> item.data, stage |-> "sent", own |-> TRUE])
    BY <1>1 DEF Send, Fitting, FitsClient, FitsPush
  <2> QED  BY <1>1, <2>1 DEF Send, Fitting
<1>2. CASE ~Send
  <2>1. NoNewPush
    BY <1>2, PushSteps DEF AllTypes
  <2> QED  BY <2>1 DEF Fitting, FitsPush, NoNewPush, SamePush
<1> QED  BY <1>1, <1>2

\* The disk after the operations of a push: what was there, nothing, a
\* directory above or at its path, or its contents there.
LEMMA DiskSteps ==
    ASSUME disk \in [Paths -> Nodes], \A p \in Paths : Fits(p, disk[p]), NEW j \in Jobs, FitsPush(j)
    PROVE  /\ \A p \in Paths : Fits(p, DiskAfterFirst(j)[p])
           /\ j.kind = "modifiedFile" => \A p \in Paths : Fits(p, WriteOnFile(disk, j.path, j.data)[p])
<1>0. j.path \in Paths /\ j.data \in Contents /\ j.kind \in PushKinds
  BY JobFields
<1> DEFINE Better(t) == t \in [Paths -> Nodes] /\ \A p \in Paths : Fits(p, t[p])
<1>1. ASSUME NEW t, Better(t), FileAt(j.path) PROVE Better(WriteOnFile(t, j.path, j.data))
  BY <1>0, <1>1, Words DEF WriteOnFile, Fits, Nodes
<1>2. ASSUME NEW t, Better(t), Possible(j.path) PROVE Better(CreateDirs(t, j.path))
  <2>1. \A a \in Ancestors[j.path] : DirAt(a)
    BY <1>0, <1>2, DirsAbove
  <2> QED  BY <1>0, <1>2, <2>1, Words DEF CreateDirs, Fits, Nodes
<1>3. ASSUME NEW t, Better(t), DirAt(j.path) PROVE Better(CreateDirectory(t, j.path))
  BY <1>0, <1>3, Words DEF CreateDirectory, Fits, Nodes
<1>4. Better(Remove(disk, j.path)) /\ Better(RemoveAll(disk, j.path))
  BY <1>0, Words DEF Remove, RemoveAll, Fits, Nodes
<1>5. Better(disk)
  OBVIOUS
<1> HIDE DEF Better
<1>6. Better(DiskAfterFirst(j))
  <2>1. CASE j.kind = "createdFile"
    BY <1>1, <1>2, <1>5, <2>1 DEF DiskAfterFirst, FitsPush, FileKinds, FileAt
  <2>2. CASE j.kind = "createdDir"
    BY <1>2, <1>3, <1>5, <2>2 DEF DiskAfterFirst, FitsPush, DirAt
  <2>3. CASE j.kind \in Erasures
    BY <1>4, <2>3 DEF DiskAfterFirst, Erasures
  <2>4. CASE j.kind = "modifiedFile"
    BY <1>5, <2>4 DEF DiskAfterFirst
  <2> QED  BY <1>0, <2>1, <2>2, <2>3, <2>4 DEF PushKinds, FileKinds
<1>7. j.kind = "modifiedFile" => Better(WriteOnFile(disk, j.path, j.data))
  BY <1>1, <1>5 DEF FitsPush, FileKinds
<1> QED  BY <1>6, <1>7 DEF Better

\* Only the two steps of a push's body change the stores.
LEMMA StoreSteps ==
    ASSUME [Next]_vars, ~(UNCHANGED <<disk, db>>) PROVE \E j \in jobs : First(j) \/ Second(j)
<1>1. CASE User \/ Start \/ Quit \/ UNCHANGED vars
  BY <1>1 DEF User, WriteFile, MakeDir, RemoveTree, Edit, Start, Quit, vars, server
<1>2. CASE Client
  BY <1>2 DEF Client, Ask, ProbeErased, ProbeErasedDone, ProbeCreated, ProbeDone, NextCycle, ErasedFile,
     ErasedDir, CreatedOrModified, IteratorThrows, ScanDone, HashItem, ReadItem, GiveUp, Send, server
<1>3. CASE Worker
  BY <1>3 DEF Worker, EnterGate, Refuse, Fail, server
<1>4. CASE Faults
  BY <1>4 DEF Faults, DbFault, Lose, Lost, LoseRequest, LoseAnswer, Crash, Kill, Fail, server
<1> QED  BY <1>1, <1>2, <1>3, <1>4 DEF Next

LEMMA FitsServerKept == ASSUME AllTypes, Fitting, [Next]_vars PROVE FitsServer'
<1>0. /\ FitsServer /\ disk \in [Paths -> Nodes] /\ db \in [Paths -> Rows] /\ jobs \subseteq Jobs
      /\ \A j \in jobs : FitsPush(j)
  BY DEF Fitting, AllTypes, ServerTypes
<1>1. CASE UNCHANGED <<disk, db>>
  BY <1>0, <1>1 DEF FitsServer
<1>2. ASSUME NEW j \in jobs, First(j) \/ Second(j) PROVE FitsServer'
  <2>0. j \in Jobs /\ j.path \in Paths /\ FitsPush(j)
    BY <1>0, JobFields
  <2>1. \A p \in Paths : Fits(p, disk'[p])
    BY <1>0, <1>2, <2>0, DiskSteps DEF First, Second, Fail, FitsServer
  <2>2. ASSUME NEW p \in Paths, db'[p] \in FileRows PROVE FileAt(p)
    <3>1. CASE db[p] \in FileRows
      BY <1>0, <3>1 DEF FitsServer
    <3>2. CASE db[p] \notin FileRows
      <4>1. p = j.path /\ j.kind = "createdFile"
        BY <1>0, <1>2, <2>0, <2>2, <3>2, Words
        DEF First, Second, Fail, UpdatePath, InsertPath, DeletePath
      <4> QED  BY <2>0, <4>1 DEF FitsPush, FileKinds
    <3> QED  BY <3>1, <3>2
  <2> QED  BY <2>1, <2>2 DEF FitsServer
<1> QED  BY <1>1, <1>2, StoreSteps

\* What is on record, under way and stored is what the user may have put there.
THEOREM BackupFits == Spec => []Fitting
<1>1. Init => Fitting
  <2> SUFFICES ASSUME Init PROVE Fitting
    OBVIOUS
  <2>1. local \in Trees /\ local \in [Paths -> Nodes]
    BY DEF Init, Trees, TreesOf
  <2>2. ASSUME NEW p \in Paths PROVE Fits(p, local[p])
    <3>1. local[p] # Absent => Possible(p)
      BY <2>1, PathsAssumption, Words DEF Trees, TreesOf, ParentIsDir, Possible
    <3> QED  BY <2>1, <3>1, Words DEF Trees, TreesOf, Fits, FileAt, DirAt
  <2>3. FitsClient
    BY <2>2, Words DEF Init, FitsClient, Fits
  <2>4. FitsServer
    BY Words DEF Init, FitsServer, Fits
  <2> QED  BY <2>3, <2>4 DEF Init, Fitting
<1>2. AllTypes /\ Fitting /\ [Next]_vars => Fitting'
  BY FitsClientKept, FitsServerKept, FitsJobsKept DEF Fitting
<1> QED  BY <1>1, <1>2, BackupTypes, PTL DEF Spec

-----------------------------------------------------------------------------
\* The order of the pushes.

\* The pushes of this start of the client; there are none of a later one.
Mine == {j \in jobs : j.sess = runs}
NoneLater == \A j \in jobs : j.sess <= runs

\* A push that is out of the client's hands has counted as a failure.
Noticed == phase # "off" => \A j \in Mine : j.own \/ failed

\* The element in hand is not one the loop has still to visit, and is what
\* the loop looks for.
Found == FileKinds \cup {"createdDir"}
InHand ==
    /\ phase = "probeCreated" => todo \subseteq Elements
    /\ phase = "scanDirs" => todo \subseteq dirs
    /\ item # None =>
          /\ item.path \notin todo
          /\ phase = "probeErased" => item.kind \in Erasures /\ item.path \notin Elements
          /\ phase = "probeCreated" => item.kind \in Found
          /\ phase = "scanFiles" => item.kind = "erasedFile"
          /\ phase = "scanDirs" => item.kind = "erasedDir" /\ item.path \in dirs
          /\ phase = "scanTree" => item.kind \in Found

\* The loop is through with p.
Passed(p) == p \notin todo /\ (item # None => item.path # p)

\* The probe erases what is not among the elements, then pushes those, each
\* once.
Probing == {"ask", "probeErased", "probeCreated"}
ProbeOrder ==
    /\ phase \in Probing => ~fresh /\ \A j \in Mine : phase # "ask" /\ sent /\ Passed(j.path)
    /\ phase = "probeErased" =>
          /\ todo \cap Elements = {}
          /\ \A j \in Mine : j.path \notin Elements

\* A cycle that has pushed something erases files, then directories, then
\* creates and modifies, each path once in each loop.  A file whose erasure is
\* in flight is off the record until the last loop finds it again.
Scanning == {"scanFiles", "scanDirs", "scanTree"}
PushedBy(j) ==
    /\ phase = "scanFiles" => j.kind = "erasedFile" /\ Passed(j.path)
    /\ phase = "scanDirs" => j.kind \in Erasures /\ (j.kind = "erasedDir" => Passed(j.path))
    /\ phase = "scanTree" => (j.kind \notin Erasures => Passed(j.path))
    /\ j.kind = "erasedFile" /\ (phase = "scanTree" => j.path \in todo) => files[j.path] = Absent
    /\ j.kind = "erasedDir" => "dir" \in Kinds[j.path]
    /\ phase = "scanTree" /\ item # None /\ item.kind = "modifiedFile" /\ item.path = j.path
          => j.kind # "erasedFile"
CycleOrder == phase \in Scanning /\ ~fresh => \A j \in Mine : PushedBy(j)

Orders == NoneLater /\ Noticed /\ InHand /\ ProbeOrder /\ CycleOrder

\* What the server's workers, faults and the user do, but for a kill, leaves
\* the orders as they are.
LEMMA OrdersApart ==
    ASSUME AllTypes, Orders, NoNewPush, UNCHANGED <<client, runs>>,
           Noticed'
    PROVE  Orders'
<1>0. /\ \A m \in Mine' : \E j \in Mine : SamePush(j, m)
      /\ \A m \in jobs' : \E j \in jobs : SamePush(j, m)
      /\ UNCHANGED <<phase, todo, item, files, dirs, fresh, sent, runs>>
  BY DEF NoNewPush, Mine, SamePush, client, watch
<1>1. NoneLater'
  BY <1>0 DEF Orders, NoneLater, SamePush
<1>2. InHand'
  BY <1>0 DEF Orders, InHand, Elements
<1>3. ProbeOrder'
  BY <1>0 DEF Orders, ProbeOrder, Elements, SamePush, Passed
<1>4. CycleOrder'
  BY <1>0 DEF Orders, CycleOrder, PushedBy, SamePush, Passed
<1> QED  BY <1>1, <1>2, <1>3, <1>4 DEF Orders

LEMMA NoticedByWorkers ==
    ASSUME AllTypes, Noticed, UNCHANGED <<client, runs>>, NEW j \in jobs,
           EnterGate(j) \/ Refuse(j) \/ First(j) \/ Second(j) \/ DbFault(j) \/ Lose(j)
    PROVE  Noticed'
<1>0. jobs \subseteq Jobs /\ UNCHANGED <<phase, runs>> /\ failed \in BOOLEAN
  BY DEF client, AllTypes, ServerTypes
<1>1. CASE EnterGate(j) \/ Second(j) \/ Refuse(j) \/ DbFault(j) \/ First(j)
  <2>1. PICK m \in {j, [j EXCEPT !.stage = "first"], [j EXCEPT !.stage = "second"]} :
          jobs' = jobs \ {j} \/ jobs' = (jobs \ {j}) \cup {m}
    BY <1>1 DEF EnterGate, Refuse, First, Second, DbFault, Fail, Succeed
  <2>2. m.own = j.own /\ m.sess = j.sess
    BY <1>0 DEF Jobs
  <2>3. failed => failed'
    BY <1>0, <1>1 DEF EnterGate, Refuse, First, Second, DbFault, Fail, Succeed
  <2> QED  BY <1>0, <2>1, <2>2, <2>3 DEF Noticed, Mine
<1>2. CASE Lose(j)
  BY <1>0, <1>2 DEF Lose, Lost, LoseRequest, LoseAnswer, Noticed, Mine
<1> QED  BY <1>1, <1>2

\* Nothing of this start is in flight: no order can be wrong.
LEMMA OrdersAfresh ==
    ASSUME AllTypes, NoneLater', InHand', phase' \in Probing => ~fresh',
           phase' = "probeErased" => todo' \cap Elements' = {}, Mine' = {}
    PROVE  Orders'
  BY DEF Orders, Noticed, ProbeOrder, CycleOrder

\* The client is at rest or has stopped: no order is kept.
LEMMA OrdersAtRest ==
    ASSUME NoneLater', Noticed', phase' \notin Loops \cup {"ask"}, item' = None
    PROVE  Orders'
  BY DEF Orders, InHand, ProbeOrder, CycleOrder, Probing, Scanning, Loops

\* What the client's own steps leave alone: its pushes, and what they have
\* come to.
Aside == UNCHANGED <<jobs, runs, failed>> /\ phase # "off"

LEMMA AsideKeeps == ASSUME NoneLater, Noticed, Aside PROVE NoneLater' /\ Noticed' /\ Mine' = Mine
  BY DEF NoneLater, Noticed, Aside, Mine

LEMMA OrdersOfProbe ==
    ASSUME AllTypes, Orders, Ask \/ (\E p \in Paths : ProbeErased(p)) \/ ProbeErasedDone \/ ProbeCreated \/ ProbeDone
    PROVE  Orders'
<1>0. NoneLater /\ Noticed /\ InHand /\ ProbeOrder /\ todo \subseteq Paths
  BY DEF Orders, AllTypes, ClientTypes
<1>1. CASE Ask
  <2>1. Aside /\ item = None
    BY <1>1 DEF Ask, Aside, AllTypes, Started, Loops
  <2>2. NoneLater' /\ Noticed' /\ Mine' = {}
    BY <1>0, <1>1, <2>1, AsideKeeps DEF Ask, ProbeOrder, Probing
  <2>3. InHand' /\ ~fresh' /\ (phase' = "probeErased" => todo' \cap Elements' = {})
    BY <1>0, <1>1, <2>1 DEF Ask, InHand, ProbeOrder, Probing, Elements, watch
  <2> QED  BY <2>2, <2>3, OrdersAfresh
<1>2. ASSUME NEW p \in Paths, ProbeErased(p) PROVE Orders'
  <2>1. NoneLater' /\ Noticed' /\ Mine' = Mine
    BY <1>0, <1>2, AsideKeeps DEF ProbeErased, Aside
  <2>2. /\ p \in todo /\ todo' = todo \ {p} /\ item'.path = p /\ item'.kind \in Erasures /\ phase = "probeErased"
        /\ UNCHANGED <<phase, files, dirs, fresh, sent>>
    BY <1>2 DEF ProbeErased, Visit, Push, Erasures, watch
  <2>3. Elements' = Elements /\ todo \cap Elements = {}
    BY <1>0, <2>2 DEF Elements, ProbeOrder
  <2>4. InHand'
    BY <2>2, <2>3 DEF InHand
  <2>5. \A j \in Mine : Passed(j.path)'
    BY <1>0, <2>2 DEF ProbeOrder, Probing, Passed
  <2>6. ProbeOrder'
    BY <1>0, <2>1, <2>2, <2>3, <2>5 DEF ProbeOrder, Probing
  <2>7. CycleOrder'
    BY <2>2 DEF CycleOrder, Scanning
  <2> QED  BY <2>1, <2>4, <2>6, <2>7 DEF Orders
<1>3. CASE ProbeErasedDone
  <2>1. NoneLater' /\ Noticed' /\ Mine' = Mine
    BY <1>0, <1>3, AsideKeeps DEF ProbeErasedDone, Aside
  <2>2. /\ phase = "probeErased" /\ phase' = "probeCreated" /\ item' = None /\ todo' = Elements
        /\ UNCHANGED <<files, dirs, fresh, sent>>
    BY <1>3 DEF ProbeErasedDone, watch
  <2>3. Elements' = Elements
    BY <2>2 DEF Elements
  <2>4. InHand'
    BY <2>2, <2>3 DEF InHand
  <2>6. ProbeOrder'
    BY <1>0, <2>1, <2>2, <2>3 DEF ProbeOrder, Probing, Passed
  <2>7. CycleOrder'
    BY <2>2 DEF CycleOrder, Scanning
  <2> QED  BY <2>1, <2>4, <2>6, <2>7 DEF Orders
<1>4. CASE ProbeCreated
  <2> DEFINE p == Least(todo)
  <2>1. NoneLater' /\ Noticed' /\ Mine' = Mine
    BY <1>0, <1>4, AsideKeeps DEF ProbeCreated, Aside
  <2>2. /\ p \in todo /\ todo' = todo \ {p} /\ phase = "probeCreated"
        /\ item' = None \/ (item'.path = p /\ item'.kind \in Found)
        /\ UNCHANGED <<phase, files, dirs, fresh, sent>>
    BY <1>4 DEF ProbeCreated, Visit, Push, Found, FileKinds, watch
  <2> HIDE DEF p
  <2>3. Elements' = Elements
    BY <2>2 DEF Elements
  <2>4. InHand'
    BY <1>0, <2>2, <2>3 DEF InHand
  <2>5. \A j \in Mine : Passed(j.path)'
    BY <1>0, <2>2 DEF ProbeOrder, Probing, Passed
  <2>6. ProbeOrder'
    BY <1>0, <2>1, <2>2, <2>5 DEF ProbeOrder, Probing
  <2>7. CycleOrder'
    BY <2>2 DEF CycleOrder, Scanning
  <2> QED  BY <2>1, <2>4, <2>6, <2>7 DEF Orders
<1>5. CASE ProbeDone
  <2>1. NoneLater' /\ item' = None /\ Mine' = Mine
    BY <1>0, <1>5 DEF ProbeDone, NoneLater, Mine
  <2>2. CASE phase' = "off"
    BY <2>1, <2>2, OrdersAtRest DEF Noticed, Loops
  <2>3. CASE phase' # "off"
    <3>1. FirstLoop /\ ~(sent /\ failed)
      BY <1>5, <2>3 DEF ProbeDone
    <3>2. Mine = {}
      <4>1. CASE ~sent
        BY <1>0, <1>5, <4>1 DEF ProbeOrder, Probing, ProbeDone
      <4>2. CASE sent
        <5>1. \A j \in Mine : j.own /\ j \in jobs
          BY <1>0, <1>5, <3>1, <4>2 DEF Noticed, Mine, ProbeDone
        <5> QED  BY <1>5, <4>2, <5>1 DEF ProbeDone, Own
      <4> QED  BY <4>1, <4>2
    <3>3. InHand' /\ phase' = "scanFiles"
      BY <2>1, <3>1 DEF FirstLoop, InHand
    <3> QED  BY <2>1, <3>2, <3>3, OrdersAfresh DEF Probing
  <2> QED  BY <2>2, <2>3
<1> QED  BY <1>1, <1>2, <1>3, <1>4, <1>5

LEMMA OrdersOfCycle ==
    ASSUME AllTypes, Fitting, Orders,
           NextCycle \/ ErasedFile \/ ErasedDir \/ CreatedOrModified \/ ScanDone \/ HashItem \/ ReadItem
    PROVE  Orders'
<1>0. NoneLater /\ Noticed /\ InHand /\ ProbeOrder /\ CycleOrder /\ todo \subseteq Paths
  BY DEF Orders, AllTypes, ClientTypes
<1>00. NoneLater' /\ Noticed' /\ Mine' = Mine
  <2>1. Aside
    BY DEF Aside, NextCycle, ErasedFile, ErasedDir, CreatedOrModified, ScanDone, HashItem, ReadItem,
       AllTypes, Started, Loops
  <2> QED  BY <1>0, <2>1, AsideKeeps
<1>1. CASE NextCycle
  <2>1. phase' = "scanFiles" /\ fresh' = TRUE /\ item = None /\ item' = None
    BY <1>1 DEF NextCycle, FirstLoop, AllTypes, Started, Loops
  <2> QED  BY <1>00, <2>1 DEF Orders, InHand, ProbeOrder, CycleOrder, Probing
<1>2. CASE ErasedFile
  <2> DEFINE p == Least(todo)
  <2>2. /\ p \in todo /\ todo' = todo \ {p} /\ phase = "scanFiles"
        /\ item' = None \/ (item'.path = p /\ item'.kind = "erasedFile")
        /\ UNCHANGED <<phase, files, dirs, fresh>>
    BY <1>2 DEF ErasedFile, Visit, Push, watch
  <2> HIDE DEF p
  <2>3. InHand'
    BY <2>2 DEF InHand
  <2>4. CycleOrder'
    BY <1>0, <1>00, <2>2 DEF CycleOrder, Scanning, PushedBy, Passed
  <2> QED  BY <1>00, <2>2, <2>3, <2>4 DEF Orders, ProbeOrder, Probing
<1>3. CASE ErasedDir
  <2> DEFINE p == Greatest(todo)
  <2>2. /\ p \in todo /\ todo' = todo \ {p} /\ phase = "scanDirs"
        /\ item' = None \/ (item'.path = p /\ item'.kind = "erasedDir")
        /\ UNCHANGED <<phase, files, dirs, fresh>>
    BY <1>3 DEF ErasedDir, Visit, Push, watch
  <2> HIDE DEF p
  <2>3. InHand'
    BY <1>0, <2>2 DEF InHand
  <2>4. CycleOrder'
    BY <1>0, <1>00, <2>2 DEF CycleOrder, Scanning, PushedBy, Passed
  <2> QED  BY <1>00, <2>2, <2>3, <2>4 DEF Orders, ProbeOrder, Probing
<1>4. CASE CreatedOrModified
  <2> DEFINE p == Least(todo)
  <2>1. p \in todo
    BY <1>0, <1>4, LeastIsThere DEF CreatedOrModified
  <2>2. /\ todo' \subseteq todo \ {p} /\ phase = "scanTree"
        /\ \/ item' = None
           \/ /\ item'.path = p /\ item'.kind \in Found
              /\ item'.kind = "modifiedFile" => files[p] # Absent
        /\ UNCHANGED <<phase, files, fresh>>
    BY <1>4 DEF CreatedOrModified, Push, Found, FileKinds
  <2> HIDE DEF p
  <2>3. InHand'
    BY <2>2 DEF InHand
  <2>4. ASSUME NEW j \in Mine, ~fresh PROVE PushedBy(j)'
    <3>1. PushedBy(j)
      BY <1>0, <2>2, <2>4 DEF CycleOrder, Scanning
    <3> QED  BY <2>1, <2>2, <3>1 DEF PushedBy, Passed
  <2>5. CycleOrder'
    BY <1>00, <2>2, <2>4 DEF CycleOrder
  <2> QED  BY <1>00, <2>2, <2>3, <2>5 DEF Orders, ProbeOrder, Probing
<1>5. CASE ScanDone
  <2>1. item' = None /\ UNCHANGED <<files, dirs, fresh>>
    BY <1>5 DEF ScanDone, watch
  <2>2. CASE phase = "scanFiles" /\ phase' = "scanDirs" /\ todo' = dirs
    <3>1. CycleOrder'
      BY <1>0, <1>00, <2>1, <2>2 DEF CycleOrder, Scanning, PushedBy, Erasures
    <3> QED  BY <1>00, <2>1, <2>2, <3>1 DEF Orders, InHand, ProbeOrder, Probing
  <2>3. CASE phase = "scanDirs" /\ phase' = "scanTree"
    <3>1. CycleOrder'
      BY <1>0, <1>00, <2>1, <2>3 DEF CycleOrder, Scanning, PushedBy
    <3> QED  BY <1>00, <2>1, <2>3, <3>1 DEF Orders, InHand, ProbeOrder, Probing
  <2>4. CASE phase' = "sleep"
    BY <1>00, <2>1, <2>4, OrdersAtRest DEF Loops
  <2> QED  BY <1>5, <2>2, <2>3, <2>4 DEF ScanDone
<1>6. CASE HashItem /\ phase' = "halted"
  BY <1>00, <1>6, OrdersAtRest DEF HashItem, Halt, Loops, AllTypes, Started
<1>7. CASE HashItem /\ phase' # "halted"
  <2>1. /\ item # None /\ item \in Items /\ item.kind \in FileKinds /\ phase \in Loops
        /\ files \in [Paths -> Contents \cup {Absent}]
    BY <1>7 DEF HashItem, AllTypes, ClientTypes, Started, Fitting, FitsClient
  <2>2. phase \in {"probeCreated", "scanTree"}
    BY <1>0, <2>1 DEF InHand, Loops, FileKinds, Erasures
  <2>3. /\ files' = [files EXCEPT ![item.path] = SHA256(item.path)]
        /\ item' = None \/ item' = [item EXCEPT !.hash = SHA256(item.path), !.at = "read"]
        /\ UNCHANGED <<phase, todo, dirs, fresh, sent>>
    BY <1>7 DEF HashItem, Halt
  <2>4. SHA256(item.path) \in Contents
    BY <2>1, Reads DEF AllTypes, ServerTypes, Items
  <2>5. item' = None \/ (item'.path = item.path /\ item'.kind = item.kind)
    BY <2>1, <2>3 DEF Items
  <2>6. Elements \subseteq Elements'
    BY <2>1, <2>3, <2>4, Words DEF Elements
  <2>7. InHand'
    BY <1>0, <2>1, <2>2, <2>3, <2>5, <2>6 DEF InHand
  <2>8. ProbeOrder'
    BY <1>0, <1>00, <2>1, <2>2, <2>3, <2>5 DEF ProbeOrder, Probing, Passed
  <2>9. ASSUME NEW j \in Mine, ~fresh, phase = "scanTree" PROVE PushedBy(j)'
    <3>1. PushedBy(j) /\ item.path \notin todo
      BY <1>0, <2>1, <2>9 DEF CycleOrder, Scanning, InHand
    <3> QED  BY <2>1, <2>3, <2>5, <2>9, <3>1 DEF PushedBy, Passed
  <2>10. CycleOrder'
    BY <1>00, <2>2, <2>3, <2>9 DEF CycleOrder, Scanning
  <2> QED  BY <1>00, <2>7, <2>8, <2>10 DEF Orders
<1>8. CASE ReadItem
  <2>1. item # None /\ item \in Items
    BY <1>8 DEF ReadItem, AllTypes, ClientTypes
  <2>2. item'.path = item.path /\ item'.kind = item.kind /\ UNCHANGED <<phase, todo, files, dirs, fresh, sent>>
    BY <1>8, <2>1 DEF ReadItem, Items, watch
  <2>3. InHand'
    BY <1>0, <2>1, <2>2 DEF InHand, Elements
  <2>4. ProbeOrder'
    BY <1>0, <1>00, <2>1, <2>2 DEF ProbeOrder, Passed, Elements
  <2>5. CycleOrder'
    BY <1>0, <1>00, <2>1, <2>2 DEF CycleOrder, PushedBy, Passed
  <2> QED  BY <1>00, <2>3, <2>4, <2>5 DEF Orders
<1> QED  BY <1>1, <1>2, <1>3, <1>4, <1>5, <1>6, <1>7, <1>8

\* The push that Send hands over.
Handed == [sess |-> runs, path |-> item.path, kind |-> item.kind, hash |-> item.hash,
           data |-> item.data, stage |-> "sent", own |-> TRUE]

\* The barrier: before the first push of a cycle nothing of this start is in
\* flight, not even what the client has given up.
LEMMA BarrierClears == ASSUME Noticed, Send, phase # "off", fresh PROVE Mine = {}
  BY DEF Noticed, Send, Barrier, Own, Mine

LEMMA OrdersOfSend == ASSUME AllTypes, Fitting, Orders, Send PROVE Orders'
<1>0. /\ NoneLater /\ Noticed /\ InHand /\ ProbeOrder /\ CycleOrder
      /\ item # None /\ item \in Items /\ phase \in Loops /\ runs \in Nat
      /\ files \in [Paths -> Contents \cup {Absent}] /\ dirs \subseteq Paths
  BY BackupAssumption DEF Orders, AllTypes, ClientTypes, Bounds, Started, Send
<1>1. PICK h : h = Handed
  OBVIOUS
<1>2. /\ jobs' = jobs \cup {h} /\ item' = None /\ fresh' = FALSE
      /\ phase \in Probing => sent'
      /\ UNCHANGED <<phase, todo, runs, failed>>
      /\ phase = "scanFiles" => files' = [files EXCEPT ![item.path] = Absent]
      /\ phase # "scanFiles" => files' = files
      /\ phase = "scanDirs" => dirs' = dirs \ {item.path}
      /\ phase # "scanDirs" => dirs' = dirs
  BY <1>0, <1>1 DEF Send, Handed, Probing, Loops
<1>3. h.sess = runs /\ h.path = item.path /\ h.kind = item.kind /\ h.own
  BY <1>1 DEF Handed
<1>4. Mine' = Mine \cup {h}
  BY <1>2, <1>3 DEF Mine
<1>5. NoneLater' /\ Noticed'
  BY <1>0, <1>2, <1>3, <1>4 DEF NoneLater, Noticed
<1>6. phase \in Probing => Elements' = Elements
  BY <1>2 DEF Elements, Probing
<1>7. InHand'
  BY <1>0, <1>2, <1>6 DEF InHand, Probing
<1>8. ProbeOrder'
  BY <1>0, <1>2, <1>3, <1>4, <1>6 DEF ProbeOrder, Probing, Passed, InHand, Loops
<1>9. ASSUME phase \in Scanning PROVE PushedBy(h)'
  <2>1. item.path \in Paths /\ (item.path \in dirs => "dir" \in Kinds[item.path])
    BY <1>0 DEF Items, Fitting, FitsClient, DirAt
  <2> QED  BY <1>0, <1>2, <1>3, <1>9, <2>1 DEF PushedBy, Passed, InHand, Scanning, Found, FileKinds, Erasures
<1>10. ASSUME phase \in Scanning, NEW j \in Mine PROVE PushedBy(j)'
  <2>1. PushedBy(j)
    BY <1>0, <1>10, BarrierClears DEF CycleOrder, Loops
  <2>2. j.path \in Paths
    BY JobFields DEF AllTypes, Mine
  <2> QED  BY <1>0, <1>2, <2>1, <2>2 DEF PushedBy, Passed
<1>11. CycleOrder'
  <2> SUFFICES ASSUME phase' \in Scanning, NEW j \in Mine' PROVE PushedBy(j)'
    BY DEF CycleOrder
  <2>1. phase \in Scanning
    BY <1>2
  <2> QED  BY <1>4, <1>9, <1>10, <2>1
<1> QED  BY <1>5, <1>7, <1>8, <1>11 DEF Orders

\* What this client has in flight on the path of the push it sends: a push of
\* another kind, and one of the two is an erasure.
LEMMA SentBeside ==
    ASSUME AllTypes, Fitting, Orders, Send, NEW j \in Mine, j.path = item.path
    PROVE  /\ j.kind # item.kind /\ {j.kind, item.kind} \cap Erasures # {}
           /\ "modifiedFile" \in {j.kind, item.kind} =>
                 {j.kind, item.kind} = {"modifiedFile", "erasedDir"} /\ Kinds[j.path] = {"file", "dir"}
<1>0. /\ Noticed /\ InHand /\ ProbeOrder /\ CycleOrder
      /\ item # None /\ item \in Items /\ phase \in Loops /\ FitsPush(item)
  BY DEF Orders, AllTypes, ClientTypes, Started, Send, Fitting, FitsClient
<1>1. phase \in Scanning /\ PushedBy(j)
  <2>1. phase \notin Probing
    BY <1>0 DEF ProbeOrder, Passed
  <2>2. phase \in Scanning
    BY <1>0, <2>1 DEF Loops, Scanning, Probing
  <2> QED  BY <1>0, <2>2, BarrierClears DEF CycleOrder, Loops
<1>2. ~Passed(j.path)
  BY <1>0 DEF Passed
<1>3. phase # "scanFiles"
  BY <1>1, <1>2 DEF PushedBy
<1>4. CASE phase = "scanDirs"
  BY <1>0, <1>1, <1>2, <1>4 DEF PushedBy, InHand, Erasures
<1>5. CASE phase = "scanTree"
  <2>1. j.kind \in Erasures /\ item.kind \in Found
    BY <1>0, <1>1, <1>2, <1>5 DEF PushedBy, InHand
  <2>2. item.kind = "modifiedFile" => j.kind = "erasedDir"
    BY <1>0, <1>1, <1>5, <2>1 DEF PushedBy, Erasures
  <2>3. item.kind = "modifiedFile" => "dir" \in Kinds[j.path] /\ "file" \in Kinds[j.path]
    BY <1>0, <1>1, <2>2 DEF PushedBy, FitsPush, FileKinds, FileAt
  <2>4. Kinds[j.path] \subseteq {"file", "dir"}
    BY <1>0, BackupAssumption DEF Items
  <2> QED  BY <2>1, <2>2, <2>3, <2>4 DEF Found, FileKinds, Erasures
<1> QED  BY <1>1, <1>3, <1>4, <1>5 DEF Scanning

\* The order in which the loops push keeps modifications alone.
LEMMA AloneAfterSend ==
    ASSUME AllTypes, Fitting, Orders, ModifiesAlone, Send
    PROVE  ModifiesAlone'
<1>0. jobs' = jobs \cup {Handed}
  BY DEF Send, Handed
<1>1. Handed.sess = runs /\ Handed.path = item.path /\ Handed.kind = item.kind
  BY DEF Handed
<1>2. ASSUME NEW j \in Mine, j.path = item.path
      PROVE  /\ j.kind # item.kind /\ {j.kind, item.kind} \cap Erasures # {}
             /\ "modifiedFile" \in {j.kind, item.kind} =>
                   {j.kind, item.kind} = {"modifiedFile", "erasedDir"} /\ Kinds[j.path] = {"file", "dir"}
  BY <1>2, SentBeside
<1>3. ASSUME NEW j \in jobs, NEW k \in jobs', j.sess = k.sess, j.path = k.path, j # k
      PROVE  /\ j.kind # k.kind /\ {j.kind, k.kind} \cap Erasures # {}
             /\ "modifiedFile" \in {j.kind, k.kind} =>
                   {j.kind, k.kind} = {"modifiedFile", "erasedDir"} /\ Kinds[j.path] = {"file", "dir"}
  <2>1. CASE k \in jobs
    BY <1>3, <2>1 DEF ModifiesAlone
  <2>2. CASE k = Handed
    BY <1>1, <1>2, <1>3, <2>2 DEF Mine
  <2> QED  BY <1>0, <2>1, <2>2
<1>4. ASSUME NEW j \in jobs', NEW k \in jobs', j.sess = k.sess, j.path = k.path, j # k
      PROVE  /\ j.kind # k.kind /\ {j.kind, k.kind} \cap Erasures # {}
             /\ "modifiedFile" \in {j.kind, k.kind} =>
                   {j.kind, k.kind} = {"modifiedFile", "erasedDir"} /\ Kinds[j.path] = {"file", "dir"}
  <2>1. CASE j \in jobs
    BY <1>3, <1>4, <2>1
  <2>2. CASE k \in jobs
    BY <1>3, <1>4, <2>2
  <2> QED  BY <1>0, <1>4, <2>1, <2>2
<1> QED  BY <1>4 DEF ModifiesAlone

LEMMA OrdersKept == ASSUME AllTypes, Fitting, Orders, [Next]_vars PROVE Orders'
<1>0. NoneLater /\ Noticed /\ InHand /\ jobs \subseteq Jobs
  BY DEF Orders, AllTypes
<1>1. CASE UNCHANGED vars
  <2>1. NoNewPush
    BY <1>0, <1>1, PushSteps DEF Send, vars
  <2> QED  BY <1>0, <1>1, <2>1, OrdersApart DEF vars, client, watch, Noticed, Mine
<1>2. CASE User
  <2>1. UNCHANGED <<client, runs, jobs, failed>>
    BY <1>2 DEF User, WriteFile, MakeDir, RemoveTree, Edit
  <2>2. NoNewPush
    BY <2>1 DEF NoNewPush, SamePush
  <2> QED  BY <1>0, <2>1, <2>2, OrdersApart DEF client, Noticed, Mine
<1>3. CASE Start
  <2>1. runs' = runs + 1 /\ jobs' = jobs /\ runs \in Nat /\ jobs \subseteq Jobs /\ MaxRuns \in Nat
    BY <1>3, BackupAssumption DEF Start, AllTypes, Bounds
  <2>2. \A j \in jobs : j.sess \in Nat /\ j.sess <= runs
    <3> SUFFICES ASSUME NEW j \in jobs PROVE j.sess \in Nat /\ j.sess <= runs
      OBVIOUS
    <3>1. j.sess \in 1..MaxRuns
      BY <2>1, JobFields
    <3> QED  BY <1>0, <2>1, <3>1 DEF NoneLater
  <2>3. NoneLater' /\ Mine' = {}
    BY <2>1, <2>2 DEF NoneLater, Mine
  <2> QED  BY <1>3, <2>3, OrdersAfresh DEF Start, InHand
<1>4. CASE Quit \/ GiveUp \/ Kill
  <2>1. NoneLater'
    <3>1. CASE Kill
      <4>1. \A j \in jobs : [j EXCEPT !.own = FALSE].sess = j.sess
        BY <1>0, JobFields DEF Jobs
      <4>2. jobs' = {[j EXCEPT !.own = FALSE] : j \in jobs} /\ runs' = runs
        BY <3>1 DEF Kill
      <4> QED  BY <1>0, <4>1, <4>2 DEF NoneLater
    <3>2. CASE Quit \/ GiveUp
      BY <1>0, <3>2 DEF NoneLater, Quit, GiveUp
    <3> QED  BY <1>4, <3>1, <3>2
  <2>2. phase' = "off" /\ item' = None
    BY <1>4 DEF Quit, GiveUp, Kill, AllTypes, Started, Loops
  <2> QED  BY <2>1, <2>2, OrdersAtRest DEF Noticed, Loops
<1>5. CASE IteratorThrows
  <2>1. NoneLater' /\ Noticed'
    BY <1>0, <1>5, AsideKeeps DEF IteratorThrows, Aside
  <2> QED  BY <1>5, <2>1, OrdersAtRest DEF IteratorThrows, Halt, Loops
<1>6. CASE Crash
  <2>1. jobs' = {} /\ UNCHANGED <<client, runs>>
    BY <1>6 DEF Crash
  <2>2. NoNewPush /\ Noticed'
    BY <2>1 DEF NoNewPush, Noticed, Mine
  <2> QED  BY <2>1, <2>2, OrdersApart
<1>7. ASSUME NEW j \in jobs, EnterGate(j) \/ Refuse(j) \/ First(j) \/ Second(j) \/ DbFault(j) \/ Lose(j)
      PROVE Orders'
  <2>1. UNCHANGED <<client, runs>>
    BY <1>7 DEF EnterGate, Refuse, First, Second, DbFault, Lose, Lost, LoseRequest, LoseAnswer
  <2> QED  BY <1>0, <1>7, <2>1, OrdersApart, WorkerSteps, NoticedByWorkers
<1> QED  BY <1>1, <1>2, <1>3, <1>4, <1>5, <1>6, <1>7, OrdersOfProbe, OrdersOfCycle, OrdersOfSend
         DEF Next, Client, Worker, Faults

LEMMA AloneKept ==
    ASSUME AllTypes, Fitting, Orders, ModifiesAlone, [Next]_vars
    PROVE  ModifiesAlone'
<1>1. CASE Send
  BY <1>1, AloneAfterSend
<1>2. CASE ~Send
  <2>1. NoNewPush
    BY <1>2, PushSteps DEF AllTypes
  <2> QED  BY <2>1 DEF NoNewPush, ModifiesAlone, SamePush
<1> QED  BY <1>1, <1>2

\* The pushes in flight are those of the loop at work and of those before it,
\* in the order of the loops; those the client gave up have counted.
THEOREM PushesInOrder == Spec => []Orders
<1>1. Init => Orders
  BY DEF Init, Orders, NoneLater, Noticed, InHand, ProbeOrder, CycleOrder, Probing, Scanning
<1>2. AllTypes /\ Fitting /\ Orders /\ [Next]_vars => Orders'
  BY OrdersKept
<1> QED  BY <1>1, <1>2, BackupTypes, BackupFits, PTL DEF Spec

\* The barrier between cycles keeps a modification alone in flight
\* (ModifiesAlone), whatever is lost, refused or left behind by a crash.
THEOREM ModificationsAlone == Spec => []ModifiesAlone
<1>1. Init => ModifiesAlone
  BY DEF Init, ModifiesAlone
<1>2. AllTypes /\ Fitting /\ Orders /\ ModifiesAlone /\ [Next]_vars => ModifiesAlone'
  BY AloneKept
<1> QED  BY <1>1, <1>2, BackupTypes, BackupFits, PushesInOrder, PTL DEF Spec

\* A first push of a cycle finds nothing of this client at the server, and no
\* push is sent again beside itself (SentApart): what the client has given up
\* is over before a next cycle, since it counts as a failure, and that ends it.
THEOREM PushesSentApart == Spec => SentApart
<1> DEFINE Apart == Send => \A j \in jobs : j.sess = runs =>
                       ~fresh /\ <<j.path, j.kind>> # <<item.path, item.kind>>
<1>1. AllTypes /\ Fitting /\ Orders /\ [Next]_vars => [Apart]_vars
  <2> SUFFICES ASSUME AllTypes, Fitting, Orders, Send, NEW j \in jobs, j.sess = runs
               PROVE  ~fresh /\ <<j.path, j.kind>> # <<item.path, item.kind>>
    OBVIOUS
  <2>1. j \in Mine
    BY DEF Mine
  <2>2. phase # "off"
    BY DEF AllTypes, Started, Loops, Send
  <2>3. ~fresh
    BY <2>1, <2>2, BarrierClears DEF Orders
  <2>4. ~(j.path = item.path /\ j.kind = item.kind)
    BY <2>1, SentBeside
  <2> QED  BY <2>3, <2>4
<1> QED  BY <1>1, BackupTypes, BackupFits, PushesInOrder, PTL DEF Spec, SentApart

-----------------------------------------------------------------------------
\* The two stores.

\* A push belongs to the client that runs, or its path is suspect.
Owned == \A j \in jobs : IF j.own THEN j.sess = runs /\ phase # "off" ELSE j.path \in suspect

\* The gate lets one push of a session at a time to the stores.
Gated == \A j, k \in jobs : j.sess = k.sess /\ j.stage # "sent" /\ k.stage # "sent" => j = k

\* What is pushed with a hash has it, or its path is suspect.
DataRight == \A j \in jobs : j.kind \in FileKinds /\ j.path \notin suspect => j.data = j.hash

\* Where no path is a file now and a directory then, the hash of a file is
\* never the empty one.
HashRight(x) == x.kind \in FileKinds => x.hash \in Contents
HashesReal == OneKind => /\ item # None /\ item.at # "hash" => HashRight(item)
                         /\ \A j \in jobs : HashRight(j)
                         /\ \A p \in Paths : db[p] # Dir

Clean == Owned /\ Gated /\ DataRight /\ HashesReal

\* Only a push that succeeds alone on its path takes it off the suspects.
LEMMA SuspectSteps ==
    ASSUME [Next]_vars, NEW p \in suspect, p \notin suspect'
    PROVE  \E j \in jobs : Second(j) /\ Succeed(j) /\ j.path = p /\ ~\E k \in jobs' : k.path = p
<1>1. CASE User \/ Start \/ Quit \/ UNCHANGED vars
  BY <1>1 DEF User, WriteFile, MakeDir, RemoveTree, Edit, Start, Quit, vars
<1>2. CASE Client
  BY <1>2 DEF Client, Ask, ProbeErased, ProbeErasedDone, ProbeCreated, ProbeDone, NextCycle, ErasedFile,
     ErasedDir, CreatedOrModified, IteratorThrows, ScanDone, HashItem, ReadItem, GiveUp, Send
<1>3. CASE Faults
  BY <1>3 DEF Faults, DbFault, Lose, Lost, LoseRequest, LoseAnswer, Crash, Kill, Fail
<1>4. ASSUME NEW j \in jobs, EnterGate(j) \/ Refuse(j) \/ First(j) PROVE FALSE
  BY <1>4 DEF EnterGate, Refuse, First, Fail
<1>5. ASSUME NEW j \in jobs, Second(j)
      PROVE  Succeed(j) /\ j.path = p /\ ~\E k \in jobs' : k.path = p
  <2>1. Succeed(j)
    BY <1>5 DEF Second, Fail
  <2> QED  BY <2>1 DEF Succeed
<1> QED  BY <1>1, <1>2, <1>3, <1>4, <1>5 DEF Next, Worker

LEMMA OwnedKept == ASSUME AllTypes, Orders, Owned, [Next]_vars PROVE Owned'
<1>0. jobs \subseteq Jobs /\ ProbeOrder
  BY DEF AllTypes, Orders
<1>1. \A m \in jobs' : m.path \in suspect => m.path \in suspect'
  BY SuspectSteps
<1>2. CASE Send
  <2>1. phase # "off" /\ UNCHANGED <<phase, runs>>
    BY <1>2 DEF Send, AllTypes, Started, Loops
  <2> QED  BY <1>1, <1>2, <2>1 DEF Owned, Send
<1>3. CASE UNCHANGED <<jobs, runs>> /\ (phase # "off" => phase' # "off")
  BY <1>1, <1>3 DEF Owned
<1>4. CASE UNCHANGED jobs /\ Own = {}
  BY <1>1, <1>4 DEF Owned, Own
<1>5. ASSUME NEW j \in jobs, EnterGate(j) \/ Refuse(j) \/ First(j) \/ Second(j) \/ DbFault(j) PROVE Owned'
  <2>1. PICK m \in {j, [j EXCEPT !.stage = "first"], [j EXCEPT !.stage = "second"]} :
          jobs' = jobs \ {j} \/ jobs' = (jobs \ {j}) \cup {m}
    BY <1>5 DEF EnterGate, Refuse, First, Second, DbFault, Fail, Succeed
  <2>2. m.own = j.own /\ m.sess = j.sess /\ m.path = j.path
    BY <1>0 DEF Jobs
  <2>3. UNCHANGED <<phase, runs>>
    BY <1>5 DEF EnterGate, Refuse, First, Second, DbFault, client
  <2> QED  BY <1>1, <2>1, <2>2, <2>3 DEF Owned
<1>6. ASSUME NEW j \in jobs, Lose(j) PROVE Owned'
  <2>1. PICK m \in {j, [j EXCEPT !.own = FALSE]} :
          \/ jobs' = jobs \ {j}
          \/ jobs' = (jobs \ {j}) \cup {m} /\ m = [j EXCEPT !.own = FALSE] /\ j.path \in suspect'
    BY <1>6 DEF Lose, Lost, LoseRequest, LoseAnswer, Touched
  <2>2. [j EXCEPT !.own = FALSE].own = FALSE /\ [j EXCEPT !.own = FALSE].path = j.path
    BY <1>0 DEF Jobs
  <2>3. UNCHANGED <<phase, runs>>
    BY <1>6 DEF Lose, Lost, LoseRequest, LoseAnswer, client
  <2> QED  BY <1>1, <2>1, <2>2, <2>3 DEF Owned
<1>7. CASE Crash
  BY <1>7 DEF Crash, Owned
<1>8. CASE Kill
  <2>1. ASSUME NEW m \in jobs' PROVE m.own = FALSE /\ m.path \in suspect'
    <3>1. PICK j \in jobs : m = [j EXCEPT !.own = FALSE]
      BY <1>8 DEF Kill
    <3>2. j.path \in suspect'
      BY <1>8 DEF Kill, Touched
    <3> QED  BY <1>0, <3>1, <3>2 DEF Jobs
  <2> QED  BY <2>1 DEF Owned
<1>9. CASE User \/ UNCHANGED vars
  BY <1>3, <1>9 DEF User, WriteFile, MakeDir, RemoveTree, Edit, client, vars
<1>10. CASE Start \/ Quit \/ GiveUp
  <2>1. phase = "off" => Own = {}
    BY DEF Owned, Own
  <2> QED  BY <1>4, <1>10, <2>1 DEF Start, Quit, GiveUp
<1>11. CASE Ask
  <2>1. Own = {}
    BY <1>0, <1>11 DEF Ask, ProbeOrder, Probing, Owned, Own, Mine
  <2> QED  BY <1>4, <1>11, <2>1 DEF Ask
<1>12. CASE ProbeDone
  <2>1. CASE sent
    BY <1>3, <1>4, <1>12, <2>1 DEF ProbeDone, FirstLoop
  <2>2. CASE ~sent
    <3>1. Own = {}
      BY <1>0, <1>12, <2>2 DEF ProbeDone, ProbeOrder, Probing, Owned, Own, Mine
    <3> QED  BY <1>4, <1>12, <3>1 DEF ProbeDone
  <2> QED  BY <2>1, <2>2
<1>13. CASE Client /\ ~Send /\ ~Ask /\ ~ProbeDone /\ ~GiveUp
  <2>1. UNCHANGED <<jobs, runs>> /\ (phase # "off" => phase' # "off")
    BY <1>13 DEF Client, ProbeErased, ProbeErasedDone, ProbeCreated, NextCycle, ErasedFile,
       ErasedDir, CreatedOrModified, IteratorThrows, ScanDone, HashItem, ReadItem, FirstLoop, Halt
  <2> QED  BY <1>3, <2>1
<1> QED  BY <1>2, <1>5, <1>6, <1>7, <1>8, <1>9, <1>10, <1>11, <1>12, <1>13 DEF Next, Worker, Faults, Client

LEMMA GatedKept == ASSUME AllTypes, Gated, [Next]_vars PROVE Gated'
<1>0. jobs \subseteq Jobs
  BY DEF AllTypes
<1>1. CASE UNCHANGED jobs
  BY <1>1 DEF Gated
<1>2. CASE Send
  BY <1>2 DEF Send, Gated
<1>3. ASSUME NEW j \in jobs, EnterGate(j) PROVE Gated'
  <2>1. PICK m : m = [j EXCEPT !.stage = "first"]
    OBVIOUS
  <2>2. m.sess = j.sess /\ jobs' = (jobs \ {j}) \cup {m}
    BY <1>0, <1>3, <2>1 DEF Jobs, EnterGate
  <2>3. \A k \in jobs : k.sess = j.sess => k.stage = "sent"
    BY <1>3 DEF EnterGate, GateFree
  <2> QED  BY <2>2, <2>3 DEF Gated
<1>4. ASSUME NEW j \in jobs, Refuse(j) \/ First(j) \/ Second(j) \/ DbFault(j) \/ Lose(j) PROVE Gated'
  <2>1. PICK m \in {[j EXCEPT !.own = FALSE], [j EXCEPT !.stage = "second"]} :
          /\ jobs' = jobs \ {j} \/ jobs' = (jobs \ {j}) \cup {m}
          /\ m = [j EXCEPT !.own = FALSE] \/ j.stage = "first" \/ jobs' = jobs \ {j}
    BY <1>4 DEF Refuse, First, Second, DbFault, Lose, Lost, LoseRequest, LoseAnswer, Fail, Succeed
  <2>2. m.sess = j.sess /\ (jobs' = jobs \ {j} \/ m.stage = "sent" \/ j.stage # "sent")
    BY <1>0, <2>1 DEF Jobs
  <2> QED  BY <2>1, <2>2 DEF Gated
<1>5. CASE Crash
  BY <1>5 DEF Crash, Gated
<1>6. CASE Kill
  <2>1. \A j \in jobs : [j EXCEPT !.own = FALSE].sess = j.sess /\ [j EXCEPT !.own = FALSE].stage = j.stage
    BY <1>0 DEF Jobs
  <2>2. jobs' = {[j EXCEPT !.own = FALSE] : j \in jobs}
    BY <1>6 DEF Kill
  <2>3. \A m \in jobs' : \E j \in jobs : m = [j EXCEPT !.own = FALSE] /\ m.sess = j.sess /\ m.stage = j.stage
    BY <2>1, <2>2
  <2>4. ASSUME NEW m \in jobs', NEW n \in jobs', m.sess = n.sess, m.stage # "sent", n.stage # "sent"
        PROVE  m = n
    <3>1. PICK j \in jobs : m = [j EXCEPT !.own = FALSE] /\ m.sess = j.sess /\ m.stage = j.stage
      BY <2>3
    <3>2. PICK k \in jobs : n = [k EXCEPT !.own = FALSE] /\ n.sess = k.sess /\ n.stage = k.stage
      BY <2>3
    <3>3. j = k
      BY <2>4, <3>1, <3>2 DEF Gated
    <3> QED  BY <3>1, <3>2, <3>3
  <2> QED  BY <2>4 DEF Gated
<1>7. CASE User \/ Start \/ Quit \/ UNCHANGED vars \/ (Client /\ ~Send)
  BY <1>1, <1>7 DEF User, WriteFile, MakeDir, RemoveTree, Edit, Start, Quit, vars, Client, Ask, ProbeErased,
     ProbeErasedDone, ProbeCreated, ProbeDone, NextCycle, ErasedFile, ErasedDir, CreatedOrModified,
     IteratorThrows, ScanDone, HashItem, ReadItem, GiveUp
<1> QED  BY <1>2, <1>3, <1>4, <1>5, <1>6, <1>7 DEF Next, Worker, Faults, Client

LEMMA DataRightKept == ASSUME AllTypes, DataRight, [Next]_vars PROVE DataRight'
<1>1. \A m \in jobs' : m.path \in suspect => m.path \in suspect'
  BY SuspectSteps
<1>2. CASE Send
  BY <1>1, <1>2 DEF Send, DataRight, Spoils
<1>3. CASE ~Send
  <2>1. NoNewPush
    BY <1>3, PushSteps DEF AllTypes
  <2> QED  BY <1>1, <2>1 DEF NoNewPush, SamePush, DataRight
<1> QED  BY <1>2, <1>3

LEMMA HashesKept == ASSUME OneKind, AllTypes, Fitting, Orders, HashesReal, [Next]_vars PROVE HashesReal'
<1>0. /\ jobs \subseteq Jobs /\ db \in [Paths -> Rows] /\ InHand /\ FitsClient
      /\ files \in [Paths -> Contents \cup {Absent}]
      /\ \A j \in jobs : HashRight(j) /\ FitsPush(j) /\ j.path \in Paths /\ j.kind \in PushKinds
      /\ \A p \in Paths : db[p] # Dir
      /\ item # None => item \in Items /\ (item.at # "hash" => HashRight(item))
  BY JobFields DEF AllTypes, ServerTypes, ClientTypes, Orders, Fitting, HashesReal
<1>1. \A j \in jobs' : HashRight(j)
  <2>1. CASE Send
    BY <1>0, <2>1 DEF Send, HashRight
  <2>2. CASE ~Send
    <3>1. NoNewPush
      BY <1>0, <2>2, PushSteps
    <3> QED  BY <1>0, <3>1 DEF NoNewPush, SamePush, HashRight
  <2> QED  BY <2>1, <2>2
<1>2. ASSUME NEW p \in Paths PROVE db'[p] # Dir
  <2>1. CASE UNCHANGED db
    BY <1>0, <2>1
  <2>2. ASSUME NEW j \in jobs, First(j) \/ Second(j) PROVE db'[p] # Dir
    <3>1. DirRow # Dir /\ NoRow # Dir
      BY DEF DirRow, NoRow, Dir
    <3>2. CASE First(j)
      BY <1>0, <2>2, <3>1, <3>2, Words DEF First, Fail, UpdatePath, HashRight, FileKinds
    <3>3. CASE Second(j)
      BY <1>0, <2>2, <3>1, <3>3, Words DEF Second, Fail, InsertPath, DeletePath, HashRight, FileKinds
    <3> QED  BY <2>2, <3>2, <3>3
  <2> QED  BY <2>1, <2>2, StoreSteps
<1>3. item' # None /\ item'.at # "hash" => HashRight(item')
  <2>1. CASE UNCHANGED item \/ item' = None
    BY <1>0, <2>1
  <2>2. ASSUME NEW p \in Paths, ProbeErased(p) PROVE HashRight(item')
    BY <2>2 DEF ProbeErased, Push, HashRight, FileKinds
  <2>3. CASE (ErasedFile \/ ErasedDir) /\ item' # None
    BY <2>3 DEF ErasedFile, ErasedDir, Push, HashRight, FileKinds
  <2>4. CASE CreatedOrModified /\ item' # None
    BY <2>4 DEF CreatedOrModified, Push, HashRight, FileKinds
  <2>5. CASE ProbeCreated /\ item' # None
    <3> DEFINE p == Least(todo)
    <3>1. p \in Paths /\ p \in Elements
      BY <1>0, <2>5 DEF ProbeCreated, Visit, AllTypes, ClientTypes, InHand
    <3>2. \/ IsFile(p) /\ \E k \in FileKinds : Push(p, k, HashOf(p), "read")
          \/ local[p] = Dir /\ Push(p, "createdDir", HashOf(p), "send")
      BY <2>5 DEF ProbeCreated, FileKinds
    <3> HIDE DEF p
    <3>3. IsFile(p) => HashOf(p) \in Contents
      <4>1. IsFile(p) => FileAt(p)
        BY <1>0, <3>1 DEF FitsClient, Fits, IsFile
      <4>2. IsFile(p) => p \notin dirs
        BY <1>0, <3>1, <4>1, BackupAssumption DEF OneKind, FitsClient, FileAt, DirAt
      <4> QED  BY <1>0, <3>1, <4>2, Words DEF Elements, HashOf
    <3> QED  BY <3>2, <3>3 DEF Push, HashRight, FileKinds
  <2>6. CASE HashItem /\ item' # None
    <3>1. item \in Items /\ item' = [item EXCEPT !.hash = SHA256(item.path), !.at = "read"]
      BY <1>0, <2>6 DEF HashItem, Halt
    <3>2. SHA256(item.path) \in Contents
      BY <3>1, Reads DEF AllTypes, ServerTypes, Items
    <3> QED  BY <3>1, <3>2 DEF HashRight, Items
  <2>7. CASE ReadItem
    BY <1>0, <2>7 DEF ReadItem, HashRight, Items
  <2>8. CASE User \/ Quit \/ UNCHANGED vars \/ Worker \/ Start \/ Faults
    BY <2>1, <2>8 DEF User, WriteFile, MakeDir, RemoveTree, Edit, client, Quit, vars, Worker, EnterGate, Refuse,
       First, Second, Start, Faults, DbFault, Lose, Lost, LoseRequest, LoseAnswer, Crash, Kill
  <2>9. CASE Ask \/ ProbeErasedDone \/ ProbeDone \/ NextCycle \/ IteratorThrows \/ ScanDone \/ GiveUp \/ Send
    BY <2>1, <2>9 DEF Ask, ProbeErasedDone, ProbeDone, NextCycle, IteratorThrows, Halt, ScanDone, GiveUp, Send
  <2> QED  BY <2>2, <2>3, <2>4, <2>5, <2>6, <2>7, <2>8, <2>9, <2>1 DEF Next, Client
<1> QED  BY <1>1, <1>2, <1>3 DEF HashesReal

-----------------------------------------------------------------------------
\* The tree on the server's disk.

\* What exists is in its directories.
TreeOk(t) == \A p \in Paths : t[p] # Absent => ParentIsDir(t, p)

\* Where there are no files in the place of directories, the operations of a
\* push keep the tree, find a parent to write in, and throw nothing but for a
\* directory that is to be removed as a file.
LEMMA CreatesAbove ==
    ASSUME OneKind, NEW t \in [Paths -> Nodes], \A p \in Paths : Fits(p, t[p]), TreeOk(t),
           NEW q \in Paths, Possible(q)
    PROVE  /\ CreateDirs(t, q) \in [Paths -> Nodes] /\ TreeOk(CreateDirs(t, q)) /\ ParentIsDir(CreateDirs(t, q), q)
           /\ CreateDirs(t, q)[q] = t[q]
           /\ \A p \in Paths : CreateDirs(t, q)[p] # t[p] => DirAt(p) /\ t[p] = Absent
<1>1. \A a \in Ancestors[q] : a \in Paths /\ DirAt(a) /\ Ancestors[a] \subseteq Ancestors[q]
  BY DirsAbove, PathsAssumption
<1>2. \A a \in Ancestors[q] : t[a] = Absent \/ t[a] = Dir
  <2> TAKE a \in Ancestors[q]
  <2>1. t[a] \notin Contents
    BY <1>1, BackupAssumption DEF OneKind, Fits, FileAt, DirAt
  <2> QED  BY <1>1, <2>1 DEF Nodes
<1>3. /\ CreateDirs(t, q) \in [Paths -> Nodes]
      /\ \A p \in Paths : CreateDirs(t, q)[p] = IF p \in Ancestors[q] THEN Dir ELSE t[p]
  BY <1>1, <1>2 DEF CreateDirs, Nodes
<1>4. q \notin Ancestors[q] /\ \A p \in Paths : Ancestors[p] \subseteq Paths
  BY PathsAssumption
<1>5. TreeOk(CreateDirs(t, q)) /\ ParentIsDir(CreateDirs(t, q), q)
  BY <1>1, <1>3, <1>4 DEF TreeOk, ParentIsDir
<1> QED  BY <1>1, <1>2, <1>3, <1>4, <1>5

LEMMA WritesThere ==
    ASSUME NEW t \in [Paths -> Nodes], TreeOk(t), NEW q \in Paths, ParentIsDir(t, q), NEW c \in Contents
    PROVE  /\ TreeOk(WriteOnFile(t, q, c)) /\ TreeOk(CreateDirectory(t, q))
           /\ \A p \in Paths \ {q} : WriteOnFile(t, q, c)[p] = t[p] /\ CreateDirectory(t, q)[p] = t[p]
           /\ t[q] # Dir => WriteOnFile(t, q, c)[q] = c
<1>1. q \notin Ancestors[q] /\ \A p \in Paths : Ancestors[p] \subseteq Paths
  BY PathsAssumption
<1>2. t[q] # Dir => \A p \in Paths : q \in Ancestors[p] => t[p] = Absent
  BY DEF TreeOk, ParentIsDir
<1>3. TreeOk(WriteOnFile(t, q, c))
  <2>1. CASE t[q] = Dir
    BY <2>1 DEF WriteOnFile
  <2>2. CASE t[q] # Dir
    BY <1>1, <1>2, <2>2 DEF WriteOnFile, TreeOk, ParentIsDir
  <2> QED  BY <2>1, <2>2
<1>4. TreeOk(CreateDirectory(t, q))
  BY <1>1, <1>2, Words DEF CreateDirectory, TreeOk, ParentIsDir
<1> QED  BY <1>3, <1>4 DEF WriteOnFile, CreateDirectory

LEMMA RemovesThere ==
    ASSUME NEW t \in [Paths -> Nodes], TreeOk(t), NEW q \in Paths
    PROVE  /\ ~RemoveThrows(t, q) => TreeOk(Remove(t, q))
           /\ TreeOk(RemoveAll(t, q))
           /\ \A p \in Paths \ {q} : Remove(t, q)[p] = t[p]
           /\ \A p \in Paths : q \notin Ancestors[p] /\ p # q => RemoveAll(t, q)[p] = t[p]
<1>1. q \notin Ancestors[q] /\ \A p \in Paths : Ancestors[p] \subseteq Paths
  BY PathsAssumption
<1>2. \A p \in Paths : \A a \in Ancestors[p] : Ancestors[a] \subseteq Ancestors[p]
  BY PathsAssumption
<1>3. ~RemoveThrows(t, q) => \A p \in Paths : q \in Ancestors[p] => t[p] = Absent
  BY DEF RemoveThrows, TreeOk, ParentIsDir, Below
<1>4. ~RemoveThrows(t, q) => TreeOk(Remove(t, q))
  BY <1>1, <1>3 DEF Remove, TreeOk, ParentIsDir
<1>5. TreeOk(RemoveAll(t, q))
  BY <1>1, <1>2 DEF RemoveAll, TreeOk, ParentIsDir
<1> QED  BY <1>4, <1>5 DEF Remove, RemoveAll

LEMMA TreeOkKept ==
    ASSUME OneKind, AllTypes, Fitting, TreeOk(disk), [Next]_vars
    PROVE  TreeOk(disk)'
<1>0. /\ disk \in [Paths -> Nodes] /\ jobs \subseteq Jobs /\ \A p \in Paths : Fits(p, disk[p])
      /\ \A j \in jobs : FitsPush(j) /\ j.path \in Paths /\ j.data \in Contents
  BY JobFields DEF AllTypes, ServerTypes, Fitting, FitsServer
<1>1. CASE UNCHANGED disk
  BY <1>1 DEF TreeOk, ParentIsDir
<1>2. ASSUME NEW j \in jobs, First(j) PROVE TreeOk(disk)'
  <2>1. CASE ~FirstThrows(j) /\ disk' = DiskAfterFirst(j)
    <3> DEFINE t == CreateDirs(disk, j.path)
    <3>1. Possible(j.path) => t \in [Paths -> Nodes] /\ TreeOk(t) /\ ParentIsDir(t, j.path)
      BY <1>0, CreatesAbove
    <3> HIDE DEF t
    <3>2. Possible(j.path) => TreeOk(WriteOnFile(t, j.path, j.data)) /\ TreeOk(CreateDirectory(t, j.path))
      BY <1>0, <3>1, WritesThere
    <3>3. j.kind \in {"createdFile", "createdDir"} => Possible(j.path)
      BY <1>0 DEF FitsPush, FileKinds, FileAt, DirAt
    <3>4. j.kind = "erasedFile" => TreeOk(Remove(disk, j.path))
      BY <1>0, <2>1, RemovesThere DEF FirstThrows
    <3>5. TreeOk(RemoveAll(disk, j.path))
      BY <1>0, RemovesThere
    <3>6. TreeOk(DiskAfterFirst(j))
      BY <3>2, <3>3, <3>4, <3>5 DEF DiskAfterFirst, t
    <3> QED  BY <2>1, <3>6 DEF TreeOk, ParentIsDir
  <2>2. CASE disk' = disk
    BY <1>1, <2>2
  <2> QED  BY <1>2, <2>1, <2>2 DEF First, Fail
<1>3. ASSUME NEW j \in jobs, Second(j) PROVE TreeOk(disk)'
  <2>1. CASE disk' = WriteOnFile(disk, j.path, j.data)
    <3>1. TreeOk(WriteOnFile(disk, j.path, j.data))
      <4>1. CASE ParentIsDir(disk, j.path)
        BY <1>0, <4>1, WritesThere
      <4>2. CASE ~ParentIsDir(disk, j.path)
        BY <4>2 DEF WriteOnFile
      <4> QED  BY <4>1, <4>2
    <3> QED  BY <2>1, <3>1 DEF TreeOk, ParentIsDir
  <2>2. CASE disk' = disk
    BY <1>1, <2>2
  <2> QED  BY <1>3, <2>1, <2>2 DEF Second, Fail
<1> QED  BY <1>1, <1>2, <1>3, StoreSteps

-----------------------------------------------------------------------------
\* The stores agree but for the push halfway through, whose first half is done.
Half(j) ==
    /\ j.kind = "createdFile" => disk[j.path] = j.data
    /\ j.kind = "modifiedFile" /\ db[j.path] \in Contents =>
          db[j.path] = j.hash /\ disk[j.path] \in Contents
HalfOn(p) == {j \in jobs : j.path = p /\ j.stage = "second"}
Good(p) == IF HalfOn(p) = {} THEN Agree(disk, db, p) ELSE \A j \in HalfOn(p) : Half(j)
AllGood == \A p \in Paths \ suspect : Good(p)

\* A step that leaves the stores alone, takes no path off the suspects, brings
\* no push halfway, and drops one halfway only on a suspect or without a row.
LEMMA GoodApart ==
    ASSUME AllTypes, AllGood, UNCHANGED <<disk, db>>,
           \A p \in Paths \ suspect' : p \notin suspect,
           \A p \in Paths \ suspect' : \A m \in HalfOn(p)' : \E j \in HalfOn(p) : SamePush(j, m),
           \A p \in Paths \ suspect' : db[p] = NoRow \/ (HalfOn(p)' = {} => HalfOn(p) = {})
    PROVE  AllGood'
<1> SUFFICES ASSUME NEW p \in Paths, p \notin suspect' PROVE Good(p)'
  BY DEF AllGood
<1>1. Good(p)
  BY DEF AllGood
<1>2. CASE HalfOn(p)' = {}
  <2>1. CASE HalfOn(p) = {}
    BY <1>1, <1>2, <2>1 DEF Good, Agree
  <2>2. CASE db[p] = NoRow
    BY <1>2, <2>2, Words DEF Good, Agree, FileRows
  <2>3. db[p] = NoRow \/ HalfOn(p) = {}
    BY <1>2
  <2> QED  BY <2>1, <2>2, <2>3
<1>3. CASE HalfOn(p)' # {}
  <2>1. ASSUME NEW m \in HalfOn(p)' PROVE Half(m)'
    <3>1. PICK j \in HalfOn(p) : SamePush(j, m)
      OBVIOUS
    <3>2. Half(j)
      BY <1>1, <3>1 DEF Good
    <3> QED  BY <3>1, <3>2 DEF Half, SamePush
  <2> QED  BY <1>3, <2>1 DEF Good
<1> QED  BY <1>2, <1>3

\* One push at most is at the stores for a path that is not suspect.
LEMMA OneHalf ==
    ASSUME Owned, Gated, NEW j \in jobs, j.stage # "sent", NEW k \in jobs, k.stage # "sent",
           j.path = k.path, j.path \notin suspect
    PROVE  j = k
  BY DEF Owned, Gated

LEMMA GoodBetween ==
    ASSUME AllTypes, AllGood, [Next]_vars, ~(\E j \in jobs : First(j) \/ Second(j))
    PROVE  AllGood'
<1>0. jobs \subseteq Jobs /\ UNCHANGED <<disk, db>>
  BY StoreSteps DEF AllTypes
<1>1. \A p \in Paths \ suspect' : p \notin suspect
  BY SuspectSteps
<1>2. CASE UNCHANGED jobs \/ Send
  <2>1. \A p \in Paths : HalfOn(p)' = HalfOn(p)
    BY <1>2 DEF HalfOn, Send
  <2>2. \A j : SamePush(j, j)
    BY DEF SamePush
  <2> QED  BY <1>0, <1>1, <2>1, <2>2, GoodApart
<1>3. ASSUME NEW j \in jobs, EnterGate(j) \/ Refuse(j) \/ DbFault(j) \/ Lose(j) PROVE AllGood'
  <2>1. PICK m \in {[j EXCEPT !.own = FALSE], [j EXCEPT !.stage = "first"]} :
          jobs' = jobs \ {j} \/ jobs' = (jobs \ {j}) \cup {m}
    BY <1>3 DEF EnterGate, Refuse, DbFault, Lose, Lost, LoseRequest, LoseAnswer, Fail
  <2>2. /\ SamePush(j, m) /\ m.path = j.path /\ \A k : SamePush(k, k)
        /\ m.stage = j.stage \/ m.stage = "first"
    BY <1>0, <2>1 DEF SamePush, Jobs
  <2>3. \A p \in Paths \ suspect' : \A n \in HalfOn(p)' : \E k \in HalfOn(p) : SamePush(k, n)
    BY <2>1, <2>2 DEF HalfOn
  <2>4. j.stage = "second" => j.path \in suspect' \/ db[j.path] = NoRow
    BY <1>3 DEF EnterGate, Refuse, DbFault, Lose, Lost, LoseRequest, LoseAnswer, Fail, HalfDone, Touched
  <2>5. \A p \in Paths \ suspect' : db[p] = NoRow \/ (HalfOn(p)' = {} => HalfOn(p) = {})
    BY <2>1, <2>4 DEF HalfOn
  <2> QED  BY <1>0, <1>1, <2>3, <2>5, GoodApart
<1>4. CASE Crash
  <2>1. \A p \in Paths \ suspect' : HalfOn(p)' = {}
    BY <1>4 DEF Crash, HalfOn
  <2>2. \A p \in Paths \ suspect' : db[p] = NoRow \/ HalfOn(p) = {}
    BY <1>4 DEF Crash, HalfOn, HalfDone
  <2> QED  BY <1>0, <1>1, <2>1, <2>2, GoodApart
<1>5. CASE Kill
  <2>1. \A j \in jobs : j.path \in suspect'
    BY <1>5 DEF Kill, Touched
  <2>2. \A m \in jobs' : m.path \in suspect'
    <3>1. \A m \in jobs' : \E j \in jobs : m = [j EXCEPT !.own = FALSE]
      BY <1>5 DEF Kill
    <3> QED  BY <1>0, <2>1, <3>1 DEF Jobs
  <2>3. \A p \in Paths \ suspect' : HalfOn(p) = {} /\ HalfOn(p)' = {}
    BY <2>1, <2>2 DEF HalfOn
  <2> QED  BY <1>0, <1>1, <2>3, GoodApart
<1>6. CASE User \/ Start \/ Quit \/ UNCHANGED vars \/ (Client /\ ~Send)
  BY <1>2, <1>6 DEF User, WriteFile, MakeDir, RemoveTree, Edit, Start, Quit, vars, Client, Ask, ProbeErased,
     ProbeErasedDone, ProbeCreated, ProbeDone, NextCycle, ErasedFile, ErasedDir, CreatedOrModified,
     IteratorThrows, ScanDone, HashItem, ReadItem, GiveUp
<1> QED  BY <1>2, <1>3, <1>4, <1>5, <1>6 DEF Next, Worker, Faults, Client

\* The first half of a push, that is not refused: its own path is halfway
\* then, and what it does to other paths leaves them good or makes them suspect.
LEMMA GoodFirst ==
    ASSUME OneKind, AllTypes, Fitting, Owned, Gated, HashesReal, TreeOk(disk), AllGood, NEW j \in jobs, First(j)
    PROVE  AllGood'
<1>0. /\ jobs \subseteq Jobs /\ disk \in [Paths -> Nodes] /\ db \in [Paths -> Rows]
      /\ j.path \in Paths /\ j.data \in Contents /\ j.kind \in PushKinds /\ j.stage = "first"
      /\ \A p \in Paths : Fits(p, disk[p]) /\ (db[p] \in FileRows => FileAt(p)) /\ db[p] # Dir
      /\ \A k \in jobs : FitsPush(k)
  BY JobFields DEF AllTypes, ServerTypes, Fitting, FitsServer, HashesReal, First
<1>1. ASSUME NEW p \in Paths, FileAt(p) PROVE ~DirAt(p) /\ disk[p] # Dir
  BY <1>0, <1>1, BackupAssumption DEF OneKind, FileAt, DirAt, Fits
<1>2. CASE FirstThrows(j)
  <2>1. /\ UNCHANGED <<disk, db>> /\ jobs' = jobs \ {j} /\ suspect' = suspect
    BY <1>0, <1>2 DEF First, Fail, HalfDone
  <2>2. \A p \in Paths : HalfOn(p)' = HalfOn(p)
    BY <1>0, <2>1 DEF HalfOn
  <2>3. \A k : SamePush(k, k)
    BY DEF SamePush
  <2> QED  BY <2>1, <2>2, <2>3, GoodApart
<1>3. CASE ~FirstThrows(j)
  <2>1. PICK m : m = [j EXCEPT !.stage = "second"]
    OBVIOUS
  <2>2. m.path = j.path /\ m.kind = j.kind /\ m.data = j.data /\ m.hash = j.hash /\ m.stage = "second"
    BY <1>0, <2>1 DEF Jobs
  <2>3. /\ disk' = DiskAfterFirst(j) /\ jobs' = (jobs \ {j}) \cup {m}
        /\ db' = IF j.kind = "modifiedFile" THEN UpdatePath(db, j.path, j.hash) ELSE db
        /\ suspect' = suspect \cup {p \in Touched(j) \ {j.path} :
                             db[p] # NoRow \/ \E k \in jobs : k.path = p /\ k.stage = "second"}
    BY <1>3, <2>1 DEF First
  <2> DEFINE q == j.path
  <2>4. ASSUME q \notin suspect' PROVE Good(q)'
    <3>1. HalfOn(q) = {} /\ Agree(disk, db, q)
      <4>1. HalfOn(q) = {}
        BY <1>0, <2>3, <2>4, OneHalf DEF HalfOn
      <4> QED  BY <1>0, <2>3, <2>4, <4>1 DEF AllGood, Good
    <3>2. HalfOn(q)' = {m}
      BY <2>2, <2>3, <3>1 DEF HalfOn
    <3>3. CASE j.kind = "createdFile"
      <4> DEFINE t == CreateDirs(disk, q)
      <4>1. FileAt(q) /\ disk[q] # Dir
        BY <1>0, <1>1, <3>3 DEF FitsPush, FileKinds
      <4>2. t \in [Paths -> Nodes] /\ TreeOk(t) /\ ParentIsDir(t, q) /\ t[q] = disk[q]
        BY <1>0, <4>1, CreatesAbove DEF FileAt
      <4> HIDE DEF t
      <4>3. WriteOnFile(t, q, j.data)[q] = j.data
        BY <1>0, <4>1, <4>2, WritesThere
      <4>4. disk'[q] = j.data
        BY <2>3, <3>3, <4>3 DEF DiskAfterFirst, t
      <4>5. Half(m)'
        BY <2>2, <3>3, <4>4 DEF Half
      <4> QED  BY <3>2, <4>5 DEF Good
    <3>4. CASE j.kind = "modifiedFile"
      <4>1. disk' = disk /\ db' = UpdatePath(db, q, j.hash)
        BY <2>3, <3>4 DEF DiskAfterFirst
      <4>2. db'[q] \in Contents => db'[q] = j.hash /\ disk[q] \in Contents
        BY <1>0, <3>1, <4>1, Words DEF UpdatePath, FileRows, Agree
      <4>3. Half(m)'
        BY <2>2, <3>4, <4>1, <4>2 DEF Half
      <4> QED  BY <3>2, <4>3 DEF Good
    <3>5. CASE j.kind \notin FileKinds
      <4>1. Half(m)'
        BY <2>2, <3>5 DEF Half, FileKinds
      <4> QED  BY <3>2, <4>1 DEF Good
    <3> QED  BY <3>3, <3>4, <3>5 DEF FileKinds
  <2>5. ASSUME NEW p \in Paths, p # q, p \notin suspect' PROVE Good(p)'
    <3>1. HalfOn(p)' = HalfOn(p) /\ Good(p) /\ db'[p] = db[p]
      BY <1>0, <2>2, <2>3, <2>5 DEF HalfOn, AllGood, UpdatePath
    <3>2. CASE q \in Ancestors[p] /\ j.kind = "erasedDir"
      <4>1. p \in Touched(j) \ {q}
        BY <2>5, <3>2 DEF Touched, Below
      <4>2. db[p] = NoRow /\ HalfOn(p) = {}
        BY <2>3, <2>5, <4>1 DEF HalfOn
      <4> QED  BY <3>1, <4>2, Words DEF Good, Agree, FileRows
    <3>3. CASE disk'[p] = disk[p]
      <4>1. CASE HalfOn(p) = {}
        BY <3>1, <3>3, <4>1 DEF Good, Agree
      <4>2. CASE HalfOn(p) # {}
        <5>1. ASSUME NEW k \in HalfOn(p) PROVE Half(k)'
          <6>1. Half(k) /\ k.path = p
            BY <3>1, <4>2 DEF Good, HalfOn
          <6> QED  BY <3>1, <3>3, <6>1 DEF Half
        <5> QED  BY <3>1, <4>2, <5>1 DEF Good
      <4> QED  BY <4>1, <4>2
    <3>4. CASE DirAt(p)
      <4>1. db[p] \notin Contents /\ \A k \in HalfOn(p) : k.kind \notin FileKinds
        BY <1>0, <1>1, <3>4 DEF FileRows, HalfOn, FitsPush
      <4>2. HalfOn(p) = {} => Good(p)'
        BY <3>1, <4>1 DEF Good, Agree
      <4>3. ASSUME NEW k \in HalfOn(p) PROVE Half(k)'
        BY <4>1 DEF Half, FileKinds
      <4> QED  BY <3>1, <4>2, <4>3 DEF Good
    <3>5. disk'[p] = disk[p] \/ DirAt(p) \/ (q \in Ancestors[p] /\ j.kind = "erasedDir")
      <4> DEFINE t == CreateDirs(disk, q)
      <4>1. j.kind \in {"createdFile", "createdDir"} => Possible(q)
        BY <1>0 DEF FitsPush, FileKinds, FileAt, DirAt
      <4>2. Possible(q) => /\ t \in [Paths -> Nodes] /\ TreeOk(t) /\ ParentIsDir(t, q)
                           /\ t[p] = disk[p] \/ DirAt(p)
        BY <1>0, CreatesAbove
      <4> HIDE DEF t
      <4>3. Possible(q) => WriteOnFile(t, q, j.data)[p] = t[p] /\ CreateDirectory(t, q)[p] = t[p]
        BY <1>0, <2>5, <4>2, WritesThere
      <4>4. Remove(disk, q)[p] = disk[p] /\ (q \notin Ancestors[p] => RemoveAll(disk, q)[p] = disk[p])
        BY <1>0, <2>5, RemovesThere
      <4> QED  BY <1>0, <2>3, <4>1, <4>2, <4>3, <4>4
               DEF DiskAfterFirst, t, PushKinds, FileKinds, Erasures
    <3> QED  BY <3>2, <3>3, <3>4, <3>5
  <2> QED  BY <2>4, <2>5 DEF AllGood
<1> QED  BY <1>2, <1>3

\* The second half brings the stores together.
LEMMA GoodSecond ==
    ASSUME OneKind, AllTypes, Fitting, Owned, Gated, DataRight, HashesReal, TreeOk(disk), AllGood,
           NEW j \in jobs, Second(j)
    PROVE  AllGood'
<1>0. /\ jobs \subseteq Jobs /\ disk \in [Paths -> Nodes] /\ db \in [Paths -> Rows]
      /\ j.path \in Paths /\ j.data \in Contents /\ j.kind \in PushKinds /\ j.stage = "second"
      /\ \A p \in Paths : Fits(p, disk[p]) /\ (db[p] \in FileRows => FileAt(p)) /\ db[p] # Dir
      /\ FitsPush(j)
  BY JobFields DEF AllTypes, ServerTypes, Fitting, FitsServer, HashesReal, Second
<1> DEFINE q == j.path
<1>1. jobs' = jobs \ {j}
  BY DEF Second, Fail, Succeed
<1>2. ASSUME NEW p \in Paths, p # q, p \notin suspect' PROVE Good(p)'
  <2>1. disk'[p] = disk[p] /\ db'[p] = db[p]
    BY <1>0, <1>2 DEF Second, Fail, WriteOnFile, InsertPath, DeletePath
  <2>2. p \notin suspect
    BY <1>2 DEF Second, Fail, Succeed
  <2>3. HalfOn(p)' = HalfOn(p) /\ Good(p)
    BY <1>1, <1>2, <2>2 DEF HalfOn, AllGood
  <2>4. CASE HalfOn(p) = {}
    BY <2>1, <2>3, <2>4 DEF Good, Agree
  <2>5. CASE HalfOn(p) # {}
    <3>1. ASSUME NEW k \in HalfOn(p) PROVE Half(k)'
      <4>1. Half(k) /\ k.path = p
        BY <2>3, <2>5 DEF Good, HalfOn
      <4> QED  BY <2>1, <4>1 DEF Half
    <3> QED  BY <2>3, <2>5, <3>1 DEF Good
  <2> QED  BY <2>4, <2>5
<1>3. ASSUME q \notin suspect' PROVE Good(q)'
  <2>1. CASE j.kind \in {"createdFile", "createdDir"} /\ InsertFails(db, q)
    <3>1. q \in suspect'
      BY <1>0, <2>1 DEF Second, Fail, HalfDone, InsertFails
    <3> QED  BY <1>3, <3>1
  <2>2. CASE ~(j.kind \in {"createdFile", "createdDir"} /\ InsertFails(db, q))
    <3>1. Succeed(j) /\ disk' = (IF j.kind = "modifiedFile" THEN WriteOnFile(disk, q, j.data) ELSE disk)
          /\ db' = CASE j.kind = "createdFile" -> InsertPath(db, q, j.hash)
                     [] j.kind = "createdDir"  -> InsertPath(db, q, DirRow)
                     [] j.kind = "modifiedFile" -> db
                     [] OTHER -> DeletePath(db, q)
      BY <2>2 DEF Second
    <3>2. CASE q \in suspect
      <4>1. Agree(disk', db', q) /\ ~\E k \in jobs' : k.path = q
        BY <1>1, <1>3, <3>1, <3>2 DEF Succeed
      <4>2. HalfOn(q)' = {}
        BY <4>1 DEF HalfOn
      <4> QED  BY <4>1, <4>2 DEF Good, Agree
    <3>3. CASE q \notin suspect
      <4>1. HalfOn(q) = {j} /\ HalfOn(q)' = {}
        BY <1>0, <1>1, <3>3, OneHalf DEF HalfOn
      <4>2. Half(j)
        BY <1>0, <3>3, <4>1 DEF AllGood, Good
      <4>3. Agree(disk', db', q)
        <5>1. CASE j.kind = "createdFile"
          <6>1. disk'[q] = j.hash /\ db'[q] = j.hash
            BY <1>0, <3>1, <3>3, <4>2, <5>1 DEF Half, DataRight, FileKinds, InsertPath
          <6> QED  BY <6>1 DEF Agree
        <5>2. CASE j.kind = "modifiedFile"
          <6>1. db' = db /\ disk' = WriteOnFile(disk, q, j.data) /\ j.data = j.hash
            BY <3>1, <3>3, <5>2 DEF DataRight, FileKinds
          <6>2. ASSUME db[q] \in Contents PROVE disk'[q] = j.data
            <7>1. disk[q] \in Contents /\ disk[q] # Absent /\ disk[q] # Dir
              BY <4>2, <5>2, <6>2, Words DEF Half
            <7>2. ParentIsDir(disk, q)
              BY <1>0, <7>1 DEF TreeOk
            <7> QED  BY <1>0, <6>1, <7>1, <7>2 DEF WriteOnFile
          <6> QED  BY <4>2, <5>2, <6>1, <6>2 DEF Half, Agree
        <5>3. CASE j.kind \notin FileKinds
          <6>1. db'[q] \in {NoRow, DirRow}
            BY <1>0, <3>1, <5>3 DEF InsertPath, DeletePath, FileKinds
          <6> QED  BY <6>1, Words DEF Agree, FileRows
        <5> QED  BY <5>1, <5>2, <5>3 DEF FileKinds
      <4> QED  BY <4>1, <4>3 DEF Good, Agree
    <3> QED  BY <3>2, <3>3
  <2> QED  BY <2>1, <2>2
<1> QED  BY <1>2, <1>3 DEF AllGood

\* The invariant the agreement of the stores rests on.
Stored == OneKind => TreeOk(disk) /\ AllGood

\* Who owns a push, one push of a session at a time, contents with their hash,
\* and a tree on disk where what is halfway is told by one push.
THEOREM StoreInvariant == Spec => [](Clean /\ Stored)
<1>1. Init => Clean /\ Stored
  <2> SUFFICES ASSUME Init PROVE Clean /\ Stored
    OBVIOUS
  <2>1. Clean
    BY DEF Init, Clean, Owned, Gated, DataRight, HashesReal, NoRow, Dir
  <2>2. TreeOk(disk)
    BY DEF Init, TreeOk
  <2>3. AllGood
    BY Words DEF Init, AllGood, Good, HalfOn, Agree, FileRows
  <2> QED  BY <2>1, <2>2, <2>3 DEF Stored
<1>2. AllTypes /\ Fitting /\ Orders /\ Clean /\ Stored /\ [Next]_vars => (Clean /\ Stored)'
  <2> SUFFICES ASSUME AllTypes, Fitting, Orders, Clean, Stored, [Next]_vars PROVE (Clean /\ Stored)'
    OBVIOUS
  <2>1. Owned' /\ Gated' /\ DataRight'
    BY OwnedKept, GatedKept, DataRightKept DEF Clean
  <2>2. HashesReal'
    BY HashesKept DEF Clean, HashesReal
  <2>3. ASSUME OneKind PROVE TreeOk(disk)' /\ AllGood'
    BY <2>3, TreeOkKept, GoodFirst, GoodSecond, GoodBetween DEF Clean, Stored
  <2> QED  BY <2>1, <2>2, <2>3 DEF Clean, Stored
<1> QED  BY <1>1, <1>2, BackupTypes, BackupFits, PushesInOrder, PTL DEF Spec

\* The two stores agree on every path that no known race or fault has spoiled
\* and no push is halfway through (StoresAgree): clients that are killed,
\* answers that are lost and crashes of the server between the stores included.
THEOREM StoresAlwaysAgree == Spec => []StoresAgree
<1>1. Stored => StoresAgree
  BY DEF Stored, AllGood, Good, HalfOn, StoresAgree, Halfway
<1> QED  BY <1>1, StoreInvariant, PTL

-----------------------------------------------------------------------------
\* The record and the rows.

\* A row of a directory is where a directory may be, so that it tells from the
\* row what the server delivers.
RowsFit == \A p \in Paths : db[p] = DirRow => DirAt(p)
Reported(row) == IF row = NoRow THEN Absent ELSE IF row = DirRow THEN Dir ELSE row

\* The element in hand is on record as it will be pushed, once it is hashed.
Given(x) == IF x.kind = "createdDir" THEN Dir ELSE x.hash
InView == item # None =>
    /\ item.kind \in Found /\ item.at # "hash" => View(item.path) = Given(item)
    /\ item.at = "hash" => /\ phase = "scanTree"
                           /\ item.kind = "createdFile" <=> files[item.path] = Absent

\* A probe that has pushed nothing has not failed.
Unfailed == phase \in Probing /\ ~sent => ~failed

\* Files are erased where files may be.
ErasesFile(x) == x.kind = "erasedFile" => FileAt(x.path)
Erasing ==
    /\ \A p \in Paths : schema[p] \in FileRows => FileAt(p)
    /\ phase = "probeErased" => \A p \in todo : schema[p] # NoRow
    /\ phase = "scanFiles" => \A p \in todo : files[p] # Absent
    /\ item # None => ErasesFile(item) /\ (phase = "scanFiles" => files[item.path] # Absent)
    /\ \A j \in jobs : ErasesFile(j)

\* When the pushes in flight on p have succeeded, its row is reported as v.
On(p) == {j \in jobs : j.path = p}
Leads(p, v) ==
    /\ On(p) = {} => v = Reported(db[p])
    /\ On(p) # {} /\ (\A j \in On(p) : j.kind \in Erasures) => v = Absent
    /\ \A j \in On(p) : j.kind \notin Erasures => v = Given(j)

\* A creation that is served before the erasure it was sent after fails, as
\* there is a row; a modification finds the row it is for.
InTurn(p) ==
    /\ \A j, k \in On(p) : j.kind \in Erasures /\ k.kind \in Erasures => j = k
    /\ \A j, k \in On(p) : j.kind \in Erasures /\ k.kind \notin Erasures => db[p] # NoRow
    /\ \A j \in On(p) : j.kind = "modifiedFile" =>
          db[p] # NoRow /\ (j.stage = "second" => db[p] = j.hash)

\* The probe has not come to p yet.
Held(p) == item # None /\ item.path = p
Ahead(p) == \/ phase = "probeErased" /\ p \in Elements
            \/ phase \in Probing /\ (p \in todo \/ Held(p))

\* What is in flight leads to what is on record; but where the element in hand
\* is on record already, to what there was before.
Noted(p) == Held(p) /\ item.kind \in Found /\ item.at # "hash"
Follows(p) ==
    IF Noted(p)
    THEN /\ item.kind = "modifiedFile" => \E v \in Contents : Leads(p, v)
         /\ item.kind # "modifiedFile" => Leads(p, Absent) \/ (On(p) = {} /\ Leads(p, View(p)))
    ELSE Ahead(p) \/ Leads(p, View(p))
Tracked(p) == /\ InTurn(p)
              /\ Ahead(p) => On(p) = {} /\ db[p] = schema[p]
              /\ Follows(p)

Tracking == phase \in {"probeErased", "probeCreated"} \cup Watching
Kept == RowsFit /\ Erasing /\ (OneKind => InView) /\ Unfailed
AllTracked == OneKind /\ Tracking /\ ~failed => \A p \in Paths \ suspect : Tracked(p)

-----------------------------------------------------------------------------
\* Rows of directories come from pushes of directories.
LEMMA RowsFitKept == ASSUME AllTypes, Fitting, RowsFit, [Next]_vars PROVE RowsFit'
<1>1. CASE UNCHANGED db
  BY <1>1 DEF RowsFit
<1>2. ASSUME NEW j \in jobs, First(j) \/ Second(j) PROVE RowsFit'
  <2>0. j \in Jobs /\ j.path \in Paths /\ FitsPush(j) /\ db \in [Paths -> Rows] /\ j.hash \in Contents \cup {Dir}
    BY JobFields DEF AllTypes, ServerTypes, Fitting
  <2>1. ASSUME NEW p \in Paths, db'[p] = DirRow PROVE DirAt(p)
    <3>1. CASE db[p] = DirRow
      BY <3>1 DEF RowsFit
    <3>2. CASE db[p] # DirRow
      <4>0. DirRow # Dir /\ j.hash # DirRow
        BY <2>0, Words DEF DirRow, Dir, FileRows
      <4>1. p = j.path /\ j.kind = "createdDir"
        BY <1>2, <2>0, <2>1, <3>2, <4>0, Words
        DEF First, Second, Fail, UpdatePath, InsertPath, DeletePath
      <4> QED  BY <2>0, <4>1 DEF FitsPush
    <3> QED  BY <3>1, <3>2
  <2> QED  BY <2>1 DEF RowsFit
<1> QED  BY <1>1, <1>2, StoreSteps

\* What the server delivers is what the row is reported as.
LEMMA Reports ==
    ASSUME OneKind, NEW p \in Paths, NEW t \in [Paths -> Nodes], NEW rows \in [Paths -> Rows],
           Fits(p, t[p]), rows[p] = DirRow => DirAt(p), rows[p] # Dir, Agree(t, rows, p)
    PROVE  Delivered(t, rows, p) = Reported(rows[p])
<1>0. rows[p] \in Rows /\ t[p] \in Nodes
  OBVIOUS
<1>1. CASE rows[p] \in Contents
  BY <1>1, Words DEF Agree, Delivered, Reported, Listed, FileRows
<1>2. CASE rows[p] = DirRow
  <2>1. t[p] \notin Contents
    BY <1>0, <1>2, BackupAssumption DEF OneKind, Fits, FileAt, DirAt
  <2> QED  BY <1>2, <2>1, Words DEF Delivered, Reported, Listed
<1>3. CASE rows[p] = NoRow
  BY <1>3 DEF Delivered, Reported, Listed
<1> QED  BY <1>0, <1>1, <1>2, <1>3 DEF Rows, FileRows

\* On a path that is not suspect all pushes are of the client that runs.
LEMMA OnMine == ASSUME Owned, NEW p \in Paths \ suspect, NEW j \in On(p)
                PROVE  j \in jobs /\ j.path = p /\ j.own /\ j \in Mine /\ phase # "off"
  BY DEF Owned, On, Mine

\* Only a push of one's own can fail, and a probe that has one has sent it.
LEMMA UnfailedKept == ASSUME AllTypes, Orders, Owned, Unfailed, [Next]_vars PROVE Unfailed'
<1>0. ProbeOrder /\ failed \in BOOLEAN /\ jobs \subseteq Jobs
  BY DEF Orders, AllTypes, ServerTypes
<1>1. CASE UNCHANGED failed /\ (phase' \in Probing => phase \in Probing) /\ (sent => sent')
  BY <1>1 DEF Unfailed
<1>2. CASE phase' \in Probing => ~failed'
  BY <1>2 DEF Unfailed
<1>3. \A j \in jobs : phase \in Probing /\ j.own => sent
  BY <1>0 DEF Owned, ProbeOrder, Mine
<1>4. ASSUME NEW j \in jobs, EnterGate(j) \/ Refuse(j) \/ First(j) \/ Second(j) \/ DbFault(j) \/ Lose(j)
      PROVE  Unfailed'
  <2>1. UNCHANGED <<phase, sent>>
    BY <1>4 DEF EnterGate, Refuse, First, Second, DbFault, Lose, Lost, LoseRequest, LoseAnswer, client
  <2>2. (failed' => failed) \/ j.own
    BY <1>4 DEF EnterGate, Refuse, First, Second, DbFault, Lose, Lost, LoseRequest, LoseAnswer, Fail, Succeed
  <2> QED  BY <1>3, <2>1, <2>2 DEF Unfailed
<1>5. CASE Crash
  BY <1>3, <1>5 DEF Crash, Own, Unfailed, client
<1>6. CASE User \/ UNCHANGED vars
  BY <1>1, <1>6 DEF User, WriteFile, MakeDir, RemoveTree, Edit, client, vars
<1>7. CASE Start \/ Quit \/ Kill
  BY <1>2, <1>7 DEF Start, Quit, Kill, Probing
<1>8. CASE Client
  <2>1. CASE Ask \/ ProbeErasedDone \/ ProbeCreated \/ HashItem \/ ReadItem \/ (\E p \in Paths : ProbeErased(p))
    BY <1>1, <2>1 DEF Ask, ProbeErasedDone, ProbeCreated, HashItem, Halt, ReadItem, ProbeErased, Probing
  <2>2. CASE ProbeDone \/ NextCycle \/ ErasedFile \/ ErasedDir \/ CreatedOrModified \/ IteratorThrows \/ ScanDone \/ GiveUp
    BY <1>2, <2>2 DEF ProbeDone, FirstLoop, NextCycle, ErasedFile, ErasedDir, CreatedOrModified, IteratorThrows,
       Halt, ScanDone, GiveUp, Probing
  <2>3. CASE Send
    BY <1>1, <2>3 DEF Send
  <2> QED  BY <1>8, <2>1, <2>2, <2>3 DEF Client
<1> QED  BY <1>4, <1>5, <1>6, <1>7, <1>8 DEF Next, Worker, Faults

\* What may be a file is no directory on record, and the other way round.
LEMMA Kind ==
    ASSUME OneKind, AllTypes, Fitting, NEW p \in Paths
    PROVE  /\ files[p] \in Contents \cup {Absent}
           /\ IsFile(p) => p \notin dirs
           /\ local[p] = Dir => files[p] = Absent
           /\ View(p) = IF files[p] # Absent THEN files[p] ELSE IF p \in dirs THEN Dir ELSE Absent
           /\ files[p] # Absent => p \notin dirs
<1>0. /\ Fits(p, local[p]) /\ Fits(p, files[p]) /\ (p \in dirs => DirAt(p))
      /\ files[p] \in Contents \cup {Absent} /\ ~(FileAt(p) /\ DirAt(p))
  BY BackupAssumption DEF Fitting, FitsClient, AllTypes, ClientTypes, OneKind, FileAt, DirAt
<1> QED  BY <1>0, Words DEF Fits, IsFile, View, Elements, HashOf

\* The watcher notes what it found before it pushes it, and the probe pushes
\* what the watcher has noted.
LEMMA InViewKept == ASSUME OneKind, AllTypes, Fitting, Orders, InView, [Next]_vars PROVE InView'
<1>0. InHand /\ todo \subseteq Paths /\ (item # None => item \in Items /\ item.path \in Paths)
  BY DEF Orders, AllTypes, ClientTypes, Items
<1>1. CASE item' = None
  BY <1>1 DEF InView
<1>2. CASE UNCHANGED <<item, files, dirs, phase>>
  BY <1>2 DEF InView, View, Elements, HashOf
<1>3. CASE item' # None /\ item'.kind \in Erasures /\ item'.at = "send"
  BY <1>3 DEF InView, Found, FileKinds, Erasures
<1>4. ASSUME NEW p \in Paths, ProbeErased(p) PROVE InView'
  BY <1>3, <1>4, BackupAssumption DEF ProbeErased, Push, Erasures, InView, Found, FileKinds
<1>5. CASE ErasedFile \/ ErasedDir
  BY <1>1, <1>3, <1>5 DEF ErasedFile, ErasedDir, Push, Erasures
<1>6. CASE ProbeCreated /\ item' # None
  <2>0. PICK p : p = Least(todo)
    OBVIOUS
  <2>1. p \in Paths /\ p \in Elements /\ UNCHANGED <<files, dirs>>
    BY <1>0, <1>6, <2>0 DEF ProbeCreated, Visit, InHand, watch
  <2>2. \/ IsFile(p) /\ \E k \in FileKinds : Push(p, k, HashOf(p), "read")
        \/ local[p] = Dir /\ Push(p, "createdDir", HashOf(p), "send")
    BY <1>6, <2>0 DEF ProbeCreated, FileKinds
  <2>3. View(p) = HashOf(p) /\ View(p)' = View(p) /\ (local[p] = Dir => HashOf(p) = Dir)
    BY <2>1, Kind DEF View, Elements, HashOf
  <2> QED  BY <2>2, <2>3 DEF Push, InView, Given, FileKinds
<1>7. CASE CreatedOrModified /\ item' # None
  <2>0. PICK p : p = Least(todo)
    OBVIOUS
  <2>1. p \in Paths /\ UNCHANGED <<files, phase>> /\ phase = "scanTree" /\ dirs \subseteq Paths
    BY <1>0, <1>7, <2>0, LeastIsThere DEF CreatedOrModified, AllTypes, ClientTypes
  <2>2. \/ Push(p, "createdFile", Dir, "hash") /\ files[p] = Absent
        \/ Push(p, "modifiedFile", Dir, "hash") /\ files[p] # Absent
        \/ local[p] = Dir /\ Push(p, "createdDir", Dir, "send") /\ dirs' = dirs \cup {p}
    BY <1>7, <2>0 DEF CreatedOrModified
  <2>3. local[p] = Dir => files[p] = Absent
    BY <2>1, Kind
  <2> QED  BY <2>1, <2>2, <2>3 DEF Push, InView, Given, View, Elements, HashOf, FileKinds
<1>8. CASE HashItem /\ item' # None
  <2>0. PICK p, h : p = item.path /\ h = SHA256(p)
    OBVIOUS
  <2>1. /\ p \in Paths /\ item \in Items /\ files' = [files EXCEPT ![p] = h]
        /\ item' = [item EXCEPT !.hash = h, !.at = "read"] /\ UNCHANGED dirs
        /\ h \in Contents /\ files \in [Paths -> Contents \cup {Absent}]
        /\ item.kind \in FileKinds
    BY <1>0, <1>8, <2>0, Reads DEF HashItem, Halt, AllTypes, ClientTypes, ServerTypes, Fitting, FitsClient
  <2>2. item'.path = p /\ item'.hash = h /\ item'.kind = item.kind /\ item'.at = "read"
    BY <2>0, <2>1 DEF Items
  <2>3. View(p)' = h
    BY <2>1, Words DEF View, Elements, HashOf
  <2> QED  BY <2>1, <2>2, <2>3 DEF InView, Given, FileKinds
<1>9. CASE ReadItem
  <2>1. /\ UNCHANGED <<files, dirs, phase>> /\ item \in Items /\ item.at = "read"
        /\ item' = [item EXCEPT !.data = ReadFromFile(item.path), !.at = "send"]
    BY <1>0, <1>9 DEF ReadItem, watch
  <2>2. item'.path = item.path /\ item'.hash = item.hash /\ item'.kind = item.kind /\ item'.at = "send"
    BY <2>1 DEF Items
  <2>3. PICK p : p = item.path
    OBVIOUS
  <2>4. View(p)' = View(p) /\ item # None
    BY <1>9, <2>1 DEF ReadItem, View, Elements, HashOf
  <2> QED  BY <2>1, <2>2, <2>3, <2>4 DEF InView, Given
<1>10. CASE Start \/ Quit \/ Kill \/ ProbeDone \/ NextCycle \/ ScanDone \/ Ask \/ ProbeErasedDone
  <2>1. phase = "off" => item = None
    BY DEF AllTypes, Started, Loops
  <2>2. phase = "sleep" \/ phase = "halted" \/ phase = "ask" => item = None
    BY DEF AllTypes, Started, Loops
  <2> QED  BY <1>1, <1>10, <2>1, <2>2
      DEF Start, Quit, Kill, ProbeDone, NextCycle, ScanDone, Ask, ProbeErasedDone
<1>11. CASE IteratorThrows \/ GiveUp \/ Send
  BY <1>1, <1>11 DEF IteratorThrows, Halt, GiveUp, Send
<1>12. CASE User \/ Worker \/ Crash \/ UNCHANGED vars \/ (\E j \in jobs : DbFault(j) \/ Lose(j))
  BY <1>2, <1>12 DEF User, WriteFile, MakeDir, RemoveTree, Edit, client, watch, Worker, EnterGate, Refuse, First, Second,
     Crash, DbFault, Lose, Lost, LoseRequest, LoseAnswer, vars
<1> QED  BY <1>1, <1>4, <1>5, <1>6, <1>7, <1>8, <1>9, <1>10, <1>11, <1>12 DEF Next, Client, Faults

\* What is erased as a file was on record, or had a row, as a file.
LEMMA ErasingKept == ASSUME AllTypes, Fitting, Orders, Erasing, [Next]_vars PROVE Erasing'
<1>0. /\ todo \subseteq Paths /\ InHand /\ (item # None => item \in Items /\ item.path \in Paths)
      /\ files \in [Paths -> Contents \cup {Absent}] /\ schema \in [Paths -> Rows] /\ jobs \subseteq Jobs
      /\ (phase = "off" => item = None) /\ (phase = "sleep" => item = None) /\ (phase = "ask" => item = None)
  BY DEF Orders, AllTypes, ClientTypes, Items, Started, Loops
<1>1. \A j \in jobs' : ErasesFile(j)
  <2>1. CASE Send
    BY <2>1 DEF Send, Erasing, ErasesFile
  <2>2. CASE ~Send
    <3>1. NoNewPush
      BY <1>0, <2>2, PushSteps
    <3> QED  BY <3>1 DEF NoNewPush, SamePush, Erasing, ErasesFile
  <2> QED  BY <2>1, <2>2
<1>2. \A p \in Paths : files[p] # Absent => FileAt(p)
  BY <1>0 DEF Fitting, FitsClient, Fits
<1>3. CASE UNCHANGED <<phase, todo, item, files, schema>>
  BY <1>1, <1>3 DEF Erasing
<1>4. ASSUME item' = None, phase' \notin {"probeErased", "scanFiles"},
             schema' = schema \/ \A p \in Paths : schema'[p] = NoRow
      PROVE  Erasing'
  BY <1>1, <1>4, Words DEF Erasing
<1>5. CASE Ask
  BY <1>0, <1>1, <1>5 DEF Ask, Erasing, Fitting, FitsServer
<1>6. ASSUME NEW p \in Paths, ProbeErased(p) PROVE Erasing'
  <2>1. /\ phase = "probeErased" /\ UNCHANGED <<phase, schema>> /\ p \in todo /\ todo' = todo \ {p}
        /\ item'.path = p /\ (item'.kind = "erasedFile" => SchemaHash(p) # Dir)
    BY <1>6 DEF ProbeErased, Visit, Push
  <2>2. schema[p] \in Rows /\ schema[p] # NoRow
    BY <1>0, <2>1 DEF Erasing
  <2>3. item'.kind = "erasedFile" => schema[p] \in FileRows
    BY <2>1, <2>2 DEF SchemaHash, Rows
  <2> QED  BY <1>1, <2>1, <2>3 DEF Erasing, ErasesFile
<1>7. CASE ErasedFile
  <2>0. PICK p : p = Least(todo)
    OBVIOUS
  <2>1. /\ phase = "scanFiles" /\ UNCHANGED <<phase, schema, files>> /\ p \in todo /\ todo' = todo \ {p}
        /\ item' = None \/ item'.path = p
    BY <1>7, <2>0 DEF ErasedFile, Visit, Push, watch
  <2>2. FileAt(p) /\ files[p] # Absent
    BY <1>0, <1>2, <2>1 DEF Erasing
  <2> QED  BY <1>1, <2>1, <2>2 DEF Erasing, ErasesFile
<1>8. CASE ErasedDir \/ ProbeCreated \/ CreatedOrModified
  <2>1. /\ phase \notin {"probeErased", "scanFiles"} /\ UNCHANGED <<phase, schema, files>>
        /\ item' # None => item'.kind # "erasedFile"
    BY <1>8 DEF ErasedDir, ProbeCreated, CreatedOrModified, Push, watch
  <2> QED  BY <1>1, <2>1 DEF Erasing, ErasesFile
<1>9. CASE HashItem
  <2>1. UNCHANGED <<phase, todo, schema>> \/ (item' = None /\ phase' = "halted" /\ UNCHANGED schema)
    BY <1>9 DEF HashItem, Halt
  <2>2. item' # None => item'.kind = item.kind /\ item'.path = item.path /\ item # None
    BY <1>0, <1>9 DEF HashItem, Halt, Items
  <2>3. \A p \in Paths : files[p] # Absent => files'[p] # Absent
    <3>1. SHA256(item.path) # Absent
      BY <1>0, <1>9, Reads, Words DEF HashItem, AllTypes, ServerTypes
    <3> QED  BY <1>0, <1>9, <3>1 DEF HashItem
  <2> QED  BY <1>0, <1>1, <2>1, <2>2, <2>3 DEF Erasing, ErasesFile
<1>10. CASE ReadItem
  <2>1. item'.kind = item.kind /\ item'.path = item.path /\ UNCHANGED <<phase, todo, files, schema>> /\ item # None
    BY <1>0, <1>10 DEF ReadItem, Items, watch
  <2> QED  BY <1>1, <2>1 DEF Erasing, ErasesFile
<1>11. CASE Send
  <2>1. /\ item' = None /\ UNCHANGED <<phase, todo, schema>> /\ item.path \notin todo
        /\ \A p \in todo : files'[p] = files[p]
    BY <1>0, <1>11 DEF Send, InHand
  <2> QED  BY <1>1, <2>1 DEF Erasing
<1>12. CASE ProbeDone \/ NextCycle
  <2>1. /\ item' = None /\ (phase' = "scanFiles" => \A p \in todo' : files'[p] # Absent)
        /\ phase' # "probeErased"
        /\ schema' = schema \/ \A p \in Paths : schema'[p] = NoRow
    BY <1>0, <1>12 DEF ProbeDone, NextCycle, FirstLoop, watch
  <2> QED  BY <1>1, <2>1, Words DEF Erasing
<1>13. CASE ProbeErasedDone \/ IteratorThrows \/ ScanDone \/ GiveUp \/ Start \/ Quit \/ Kill
  <2>1. /\ item' = None /\ UNCHANGED schema /\ phase' \notin {"probeErased", "scanFiles"}
    BY <1>0, <1>13 DEF ProbeErasedDone, IteratorThrows, Halt, ScanDone, GiveUp, Start, Quit, Kill, AllTypes, Started, Loops
  <2> QED  BY <1>4, <2>1
<1>14. CASE User \/ Worker \/ Crash \/ UNCHANGED vars \/ (\E j \in jobs : DbFault(j) \/ Lose(j))
  BY <1>3, <1>14 DEF User, WriteFile, MakeDir, RemoveTree, Edit, client, Worker, EnterGate, Refuse, First, Second,
     Crash, DbFault, Lose, Lost, LoseRequest, LoseAnswer, vars
<1> QED  BY <1>5, <1>6, <1>7, <1>8, <1>9, <1>10, <1>11, <1>12, <1>13, <1>14 DEF Next, Client, Faults

-----------------------------------------------------------------------------
\* Every step keeps a path tracked.

\* What a path is tracked by, none of which a step changed.
LEMMA Steady ==
    ASSUME NEW p, On(p)' = On(p), db'[p] = db[p], View(p)' = View(p), Tracked(p),
           Ahead(p)' <=> Ahead(p), Ahead(p) => schema'[p] = schema[p],
           Noted(p)' <=> Noted(p), Noted(p) => item'.kind = item.kind
    PROVE  Tracked(p)'
<1>1. InTurn(p)'
  BY DEF Tracked, InTurn
<1>2. Ahead(p)' => On(p)' = {} /\ db'[p] = schema'[p]
  BY DEF Tracked
<1>3. \A v : Leads(p, v) => Leads(p, v)'
  BY DEF Leads
<1>4. Follows(p)'
  <2>1. CASE Noted(p)
    <3>1. (item'.kind = "modifiedFile") = (item.kind = "modifiedFile")
      BY <2>1
    <3>2. Leads(p, View(p)) => Leads(p, View(p))'
      BY DEF Leads
    <3> QED  BY <1>3, <2>1, <3>1, <3>2 DEF Tracked, Follows
  <2>2. CASE ~Noted(p)
    <3>1. Leads(p, View(p)) => Leads(p, View(p))'
      BY DEF Leads
    <3> QED  BY <2>2, <3>1 DEF Tracked, Follows
  <2> QED  BY <2>1, <2>2
<1> QED  BY <1>1, <1>2, <1>4 DEF Tracked

\* What a path is tracked by before a step, and what holds beside it.
Basis == /\ OneKind /\ AllTypes /\ Fitting /\ Orders /\ ModifiesAlone /\ Clean /\ Kept
         /\ Tracking /\ ~failed

\* The probe compares a path with its row and pushes what differs.
LEMMA TrackedByProbe ==
    ASSUME Basis, NEW p \in Paths, p \notin suspect', Tracked(p),
           (\E q \in Paths : ProbeErased(q)) \/ ProbeErasedDone \/ ProbeCreated \/ ProbeDone
    PROVE  Tracked(p)'
<1>0. /\ On(p)' = On(p) /\ db'[p] = db[p] /\ UNCHANGED <<files, dirs>> /\ View(p)' = View(p)
      /\ todo \subseteq Paths /\ (item # None => item \in Items)
  BY DEF ProbeErased, ProbeErasedDone, ProbeCreated, ProbeDone, On, server, watch, View, Elements, HashOf,
     Basis, AllTypes, ClientTypes
<1>1. ASSUME NEW q \in Paths, ProbeErased(q) PROVE Tracked(p)'
  <2>1. /\ UNCHANGED <<phase, schema>> /\ item = None /\ phase = "probeErased" /\ q \in todo /\ todo' = todo \ {q}
        /\ item'.path = q /\ item'.kind \in Erasures /\ item' # None
    <3>1. PICK k \in Erasures : Push(q, k, Dir, "send")
      BY <1>1 DEF ProbeErased, Erasures
    <3>2. item' \in Items
      BY <3>1, Pushes DEF PushKinds
    <3> QED  BY <1>1, <3>1, <3>2, NoneAssumption DEF ProbeErased, Visit, Push
  <2>2. ~Noted(p) /\ ~Noted(p)'
    BY <2>1 DEF Noted, Held, Found, FileKinds, Erasures
  <2>3. Ahead(p)' <=> Ahead(p)
    BY <1>0, <2>1 DEF Ahead, Held, Probing, Elements
  <2> QED  BY <1>0, <2>1, <2>2, <2>3, Steady
<1>2. CASE ProbeErasedDone
  <2>1. Ahead(p)' <=> Ahead(p)
    BY <1>0, <1>2 DEF ProbeErasedDone, Ahead, Held, Probing, Elements
  <2> QED  BY <1>0, <1>2, <2>1, Steady DEF ProbeErasedDone, Noted, Held
<1>3. CASE ProbeDone
  <2>1. ~Ahead(p) /\ ~Ahead(p)' /\ UNCHANGED item /\ item = None
    BY <1>3 DEF ProbeDone, FirstLoop, Ahead, Held, Probing
  <2> QED  BY <1>0, <2>1, Steady DEF Noted, Held
<1>4. CASE ProbeCreated
  <2>0. PICK q : q = Least(todo)
    OBVIOUS
  <2>1. /\ UNCHANGED <<phase, schema>> /\ item = None /\ phase = "probeCreated" /\ q \in todo /\ todo' = todo \ {q}
        /\ item' # None => item'.path = q
    BY <1>4, <2>0 DEF ProbeCreated, Visit, Push
  <2>2. CASE p # q
    <3>1. ~Noted(p) /\ ~Noted(p)' /\ (Ahead(p)' <=> Ahead(p))
      BY <2>1, <2>2 DEF Noted, Held, Ahead
    <3> QED  BY <1>0, <2>1, <3>1, Steady
  <2>3. CASE p = q
    <3>1. On(p) = {} /\ db[p] = schema[p] /\ Ahead(p) /\ InTurn(p)
      BY <2>1, <2>3 DEF Tracked, Ahead, Probing
    <3>2. /\ db[p] \in Rows /\ db[p] # Dir /\ (IsFile(p) => db[p] # DirRow)
          /\ p \in Elements /\ View(p) = HashOf(p) /\ HashOf(p) \in Contents \cup {Dir}
      <4>1. IsFile(p) => db[p] # DirRow
        BY BackupAssumption DEF Basis, Kept, RowsFit, Fitting, FitsClient, Fits, IsFile, OneKind, FileAt, DirAt
      <4> QED  BY <2>1, <2>3, <4>1, HashesOf DEF Basis, AllTypes, ServerTypes, ClientTypes, Clean, HashesReal, Orders, InHand, View
    <3>3. InTurn(p)' /\ (Ahead(p)' => On(p)' = {} /\ db'[p] = schema'[p])
      BY <1>0, <2>1, <3>1 DEF InTurn
    <3>4. CASE item' = None
      <4>1. SchemaHash(p) = HashOf(p)
        BY <1>4, <2>0, <2>3, <3>4 DEF ProbeCreated
      <4>2. Reported(db[p]) = View(p)
        BY <3>1, <3>2, <4>1, Words DEF SchemaHash, Reported, NoRow, Dir, FileRows
      <4> QED  BY <1>0, <3>1, <3>3, <3>4, <4>2 DEF Tracked, Follows, Noted, Held, Leads
    <3>5. CASE item' # None
      <4>1. \/ IsFile(p) /\ schema[p] # NoRow /\ Push(p, "modifiedFile", HashOf(p), "read")
            \/ schema[p] = NoRow /\ \E k \in {"createdFile", "createdDir"}, at \in {"read", "send"} : Push(p, k, HashOf(p), at)
        BY <1>4, <2>0, <2>3, <3>5 DEF ProbeCreated
      <4>2. CASE schema[p] = NoRow
        <5>1. Leads(p, Absent)'
          BY <1>0, <3>1, <4>2 DEF Leads, Reported
        <5>2. Noted(p)' /\ item'.kind # "modifiedFile"
          BY <3>5, <4>1, <4>2 DEF Push, Noted, Held, Found, FileKinds
        <5> QED  BY <3>3, <5>1, <5>2 DEF Tracked, Follows
      <4>3. CASE schema[p] # NoRow
        <5>1. Noted(p)' /\ item'.kind = "modifiedFile" /\ db[p] \in Contents
          BY <3>1, <3>2, <3>5, <4>1, <4>3, BackupAssumption DEF Push, Noted, Held, Found, FileKinds, Rows, FileRows
        <5>2. Leads(p, db[p])'
          BY <1>0, <3>1, <3>2, <5>1, Words DEF Leads, Reported, FileRows
        <5>3. \E v \in Contents : Leads(p, v)'
          <6>1. PICK v : v = db[p]
            OBVIOUS
          <6>2. Leads(p, v)'
            BY <1>0, <3>1, <3>2, <5>1, <6>1, Words DEF Leads, Reported, FileRows
          <6> QED  BY <5>1, <6>1, <6>2
        <5> QED  BY <3>3, <5>1, <5>3 DEF Tracked, Follows
      <4> QED  BY <4>2, <4>3
    <3> QED  BY <3>4, <3>5
  <2> QED  BY <2>2, <2>3
<1> QED  BY <1>1, <1>2, <1>3, <1>4

\* A cycle puts on record what it finds changed, and then has it in hand.
LEMMA TrackedByCycle ==
    ASSUME Basis, NEW p \in Paths, Tracked(p), Tracking',
           NextCycle \/ ErasedFile \/ ErasedDir \/ CreatedOrModified \/ ScanDone \/ HashItem \/ ReadItem
    PROVE  Tracked(p)'
<1>0. /\ On(p)' = On(p) /\ db'[p] = db[p] /\ UNCHANGED schema
      /\ todo \subseteq Paths /\ (item # None => item \in Items) /\ InView
      /\ files \in [Paths -> Contents \cup {Absent}]
      /\ (phase = "sleep" => item = None)
      /\ (item # None => FitsPush(item)) /\ InTurn(p)
  BY DEF NextCycle, ErasedFile, ErasedDir, CreatedOrModified, ScanDone, HashItem, ReadItem, On, server,
     Basis, AllTypes, ClientTypes, Kept, Started, Loops, Fitting, FitsClient, Tracked
<1>1. ASSUME UNCHANGED <<files, dirs>>, phase \notin Probing, phase' \notin Probing, ~Noted(p), ~Noted(p)'
      PROVE  Tracked(p)'
  <2>1. View(p)' = View(p) /\ ~Ahead(p) /\ ~Ahead(p)'
    BY <1>1 DEF View, Elements, HashOf, Ahead, Probing
  <2> QED  BY <1>0, <1>1, <2>1, Steady
<1>2. CASE NextCycle \/ ScanDone
  BY <1>0, <1>1, <1>2 DEF NextCycle, FirstLoop, ScanDone, Noted, Held, Probing, watch
<1>3. CASE ErasedFile \/ ErasedDir
  <2>1. item = None /\ (item' = None \/ item'.kind \in Erasures)
    BY <1>3 DEF ErasedFile, ErasedDir, Visit, Push, Erasures
  <2>2. ~Noted(p) /\ ~Noted(p)'
    BY <2>1 DEF Noted, Held, Found, FileKinds, Erasures
  <2> QED  BY <1>1, <1>3, <2>2 DEF ErasedFile, ErasedDir, Probing, watch
<1>4. CASE CreatedOrModified
  <2>0. PICK q : q = Least(todo)
    OBVIOUS
  <2>1. /\ item = None /\ phase = "scanTree" /\ UNCHANGED <<phase, files>>
        /\ \/ UNCHANGED dirs /\ (item' = None \/ item'.at = "hash")
           \/ local[q] = Dir /\ q \notin dirs /\ item'.path = q /\ item'.kind = "createdDir" /\ dirs' = dirs \cup {q}
    BY <1>4, <2>0 DEF CreatedOrModified, Push
  <2>2. CASE UNCHANGED dirs /\ (item' = None \/ item'.at = "hash")
    BY <1>1, <2>1, <2>2 DEF Noted, Held, Probing
  <2>3. CASE local[q] = Dir /\ q \notin dirs /\ item'.path = q /\ item'.kind = "createdDir" /\ dirs' = dirs \cup {q}
    <3>0. ~Noted(p) /\ ~Ahead(p) /\ ~Ahead(p)' /\ Leads(p, View(p))
      BY <2>1 DEF Noted, Held, Ahead, Probing, Tracked, Follows
    <3>1. CASE p # q
      <4>1. ~Noted(p)' /\ View(p)' = View(p)
        BY <2>1, <2>3, <3>1 DEF Noted, Held, View, Elements, HashOf
      <4> QED  BY <1>0, <3>0, <4>1, Steady
    <3>2. CASE p = q
      <4>1. View(p) = Absent
        BY <2>3, <3>2, Kind DEF Basis
      <4>2. Leads(p, Absent)'
        BY <1>0, <3>0, <4>1 DEF Leads
      <4>3. Noted(p)' => item'.kind # "modifiedFile"
        BY <2>3
      <4>4. InTurn(p)'
        BY <1>0 DEF InTurn
      <4>5. Noted(p)'
        <5>1. item' # None /\ item'.at # "hash"
          <6>1. q \in Paths /\ Push(q, "createdDir", Dir, "send")
            BY <1>0, <1>4, <2>0, <2>3, <3>2 DEF CreatedOrModified, Push
          <6> QED  BY <6>1, Pushes, NoneAssumption DEF PushKinds, Push
        <5> QED  BY <2>3, <3>2, <5>1 DEF Noted, Held, Found
      <4> QED  BY <3>0, <4>2, <4>3, <4>4, <4>5 DEF Tracked, Follows
    <3> QED  BY <3>1, <3>2
  <2> QED  BY <2>1, <2>2, <2>3
<1>5. CASE HashItem
  <2>0. PICK q, h : q = item.path /\ h = SHA256(q)
    OBVIOUS
  <2>1. /\ item \in Items /\ item # None /\ q \in Paths /\ h \in Contents /\ files' = [files EXCEPT ![q] = h]
        /\ UNCHANGED <<phase, todo, dirs>> /\ phase = "scanTree" /\ item.at = "hash"
        /\ item' = IF files[q] = h THEN None ELSE [item EXCEPT !.hash = h, !.at = "read"]
        /\ item.kind = "createdFile" <=> files[q] = Absent
        /\ item.kind \in FileKinds
    <3>1. phase' # "halted"
      BY DEF Tracking, Watching
    <3> QED  BY <1>0, <1>5, <2>0, <3>1, Reads DEF HashItem, Halt, Items, InView, Basis, AllTypes, ServerTypes, Fitting, FitsClient
  <2>2. ~Noted(p) /\ ~Ahead(p) /\ ~Ahead(p)' /\ Leads(p, View(p))
    BY <2>1 DEF Noted, Held, Ahead, Probing, Tracked, Follows
  <2>3. CASE files[q] = h
    <3>1. files' = files
      BY <1>0, <2>1, <2>3
    <3> QED  BY <1>1, <2>1, <2>2, <2>3, <3>1 DEF Noted, Held, Probing
  <2>4. CASE files[q] # h
    <3>1. /\ item'.path = q /\ item'.kind = item.kind /\ item'.at = "read" /\ item' \in Items
      BY <2>0, <2>1, <2>4 DEF Items
    <3>2. CASE p # q
      <4>1. ~Noted(p)' /\ View(p)' = View(p)
        BY <1>0, <2>1, <3>1, <3>2 DEF Noted, Held, View, Elements, HashOf
      <4> QED  BY <1>0, <2>2, <4>1, Steady
    <3>3. CASE p = q
      <4>1. p \notin dirs
        <5>1. FileAt(p)
          BY <1>0, <2>0, <2>1, <3>3 DEF FitsPush
        <5>2. ~DirAt(p)
          BY <5>1, BackupAssumption DEF Basis, OneKind, FileAt, DirAt
        <5> QED  BY <5>2 DEF Basis, Fitting, FitsClient
      <4>2. View(p) = files[p]
        BY <2>1, <3>3, <4>1, Kind DEF Basis
      <4>3. InTurn(p)' /\ Noted(p)'
        BY <1>0, <2>1, <3>1, <3>3, NoneAssumption DEF InTurn, Noted, Held, Found
      <4>4. PICK v : v = View(p)
        OBVIOUS
      <4>5. Leads(p, v)'
        BY <1>0, <2>2, <4>4 DEF Leads
      <4>6. CASE item.kind = "createdFile"
        <5>1. v = Absent
          BY <2>1, <3>3, <4>2, <4>4, <4>6
        <5> QED  BY <2>2, <3>1, <4>3, <4>5, <4>6, <5>1 DEF Tracked, Follows
      <4>7. CASE item.kind # "createdFile"
        <5>1. v \in Contents /\ item'.kind = "modifiedFile"
          BY <1>0, <2>1, <3>1, <3>3, <4>2, <4>4, <4>7 DEF FileKinds
        <5> QED  BY <2>2, <4>3, <4>5, <5>1 DEF Tracked, Follows
      <4> QED  BY <4>6, <4>7
    <3> QED  BY <3>2, <3>3
  <2> QED  BY <2>3, <2>4
<1>6. CASE ReadItem
  <2>1. /\ UNCHANGED <<phase, todo, files, dirs>> /\ item # None /\ item \in Items /\ item.at = "read"
        /\ item' = [item EXCEPT !.data = ReadFromFile(item.path), !.at = "send"]
    BY <1>0, <1>6 DEF ReadItem, watch
  <2>2. /\ item'.path = item.path /\ item'.kind = item.kind /\ item'.at = "send" /\ item' # None
    <3>1. ReadFromFile(item.path) \in Contents
      BY <2>1, Reads DEF Items, Basis, AllTypes, ServerTypes
    <3>2. item' \in Items
      BY <2>1, <3>1 DEF Items
    <3> QED  BY <2>1, <3>2, NoneAssumption DEF Items
  <2>3. View(p)' = View(p) /\ (Ahead(p)' <=> Ahead(p)) /\ (Noted(p)' <=> Noted(p))
    BY <2>1, <2>2 DEF View, Elements, HashOf, Ahead, Held, Noted
  <2> QED  BY <1>0, <2>2, <2>3, Steady
<1> QED  BY <1>2, <1>3, <1>4, <1>5, <1>6

\* Pushes of one path: at most one that is no erasure.
LEMMA OneFound ==
    ASSUME OneKind, ModifiesAlone, Owned, NEW p \in Paths \ suspect, NEW j \in On(p), NEW k \in On(p)
    PROVE  /\ j.kind = "modifiedFile" => k = j
           /\ j.kind \notin Erasures /\ k.kind \notin Erasures => k = j
<1>1. j \in jobs /\ k \in jobs /\ j.path = k.path /\ j.sess = k.sess /\ Kinds[j.path] # {"file", "dir"}
  BY OnMine DEF OneKind, Mine, On
<1> QED  BY <1>1 DEF ModifiesAlone

\* A push that is sent leads to what is on record from where the pushes before
\* it lead: the only pushes beside it are erasures, and there is a row that
\* keeps it from being served before them.
LEMMA TrackedBySend ==
    ASSUME Basis, NEW p \in Paths, p \notin suspect, p \notin suspect', Tracked(p), Send, ModifiesAlone', Owned'
    PROVE  Tracked(p)'
<1>0. /\ NoneLater /\ Noticed /\ InHand /\ CycleOrder /\ InView /\ Owned /\ Erasing
      /\ item # None /\ item \in Items /\ phase \in Loops /\ item.at = "send"
      /\ files \in [Paths -> Contents \cup {Absent}] /\ jobs \subseteq Jobs /\ dirs \subseteq Paths
      /\ FitsPush(item) /\ InTurn(p) /\ HashRight(item)
  BY BackupAssumption DEF Basis, Kept, Clean, HashesReal, Orders, AllTypes, ClientTypes, Started, Send, Fitting, FitsClient, Tracked
<1>1. PICK h : h = Handed
  OBVIOUS
<1>2. /\ jobs' = jobs \cup {h} /\ item' = None /\ UNCHANGED <<phase, todo, schema, db>>
      /\ phase = "scanFiles" => files' = [files EXCEPT ![item.path] = Absent]
      /\ phase # "scanFiles" => files' = files
      /\ phase = "scanDirs" => dirs' = dirs \ {item.path}
      /\ phase # "scanDirs" => dirs' = dirs
      /\ suspect' = suspect \cup Spoils
  BY <1>1 DEF Send, Handed, server
<1>3. /\ h.path = item.path /\ h.kind = item.kind /\ h.own /\ h.hash = item.hash /\ h.stage = "sent"
      /\ h.sess = runs
  BY <1>1 DEF Handed
<1>4. ~Noted(p)' /\ item.path \in Paths
  BY <1>0, <1>2 DEF Noted, Held, Items
<1>5. CASE item.path # p
  <2>1. On(p)' = On(p) /\ View(p)' = View(p) /\ ~Noted(p)
    BY <1>0, <1>2, <1>3, <1>5 DEF On, View, Elements, HashOf, Noted, Held
  <2>2. Ahead(p)' <=> Ahead(p)
    <3>1. phase \in Probing => Elements' = Elements
      BY <1>2 DEF Elements, Probing
    <3> QED  BY <1>2, <1>5, <3>1 DEF Ahead, Held, Probing
  <2> QED  BY <1>2, <1>4, <2>1, <2>2, Steady
<1>6. CASE item.path = p
  <2>1. On(p)' = On(p) \cup {h}
    BY <1>2, <1>3, <1>6 DEF On
  <2>2. ~Ahead(p)'
    <3>1. phase \in Probing => Elements' = Elements
      BY <1>2 DEF Elements, Probing
    <3> QED  BY <1>0, <1>2, <1>6, <3>1 DEF Ahead, Held, Probing, InHand
  <2> SUFFICES InTurn(p)' /\ Leads(p, View(p))'
    BY <1>4, <2>2 DEF Tracked, Follows
  <2>3. \A j \in On(p) : j \in Mine /\ j \in Jobs
    BY <1>0, OnMine DEF On
  <2>4. \A v : On(p) # {} /\ Leads(p, v) /\ v = Absent => \A j \in On(p) : j.kind \in Erasures
    BY <1>0, Words DEF Leads, Given, On, Jobs
  <2>5. CASE item.kind \in Erasures
    <3>1. \A j \in On(p) : j.kind = "erasedFile" /\ phase = "scanDirs"
      <4>1. phase \in Probing => On(p) = {}
        BY <1>0, <1>6 DEF Tracked, Ahead, Held, Probing
      <4>2. phase \in Scanning /\ ~fresh => \A j \in On(p) : j.kind = "erasedFile" /\ phase = "scanDirs"
        <5> SUFFICES ASSUME phase \in Scanning, ~fresh, NEW j \in On(p)
                     PROVE  j.kind = "erasedFile" /\ phase = "scanDirs"
          OBVIOUS
        <5>1. PushedBy(j) /\ ~Passed(j.path)
          BY <1>0, <1>6, <2>3 DEF CycleOrder, Passed, On
        <5>2. phase # "scanTree"
          BY <1>0, <2>5 DEF InHand, Found, FileKinds, Erasures
        <5> QED  BY <5>1, <5>2 DEF PushedBy, Scanning, Erasures
      <4>3. fresh => On(p) = {}
        BY <1>0, <2>3, BarrierClears DEF Loops
      <4> QED  BY <1>0, <4>1, <4>2, <4>3 DEF Loops, Probing, Scanning
    <3>2. On(p) = {}
      <4> SUFFICES ASSUME NEW j \in On(p) PROVE FALSE
        OBVIOUS
      <4>1. j.kind = "erasedFile" /\ phase = "scanDirs" /\ j.path = p /\ j \in jobs
        BY <3>1 DEF On
      <4>2. FileAt(p) /\ DirAt(p)
        BY <1>0, <1>6, <4>1 DEF Erasing, ErasesFile, InHand, Basis, Fitting, FitsClient
      <4> QED  BY <4>2, BackupAssumption DEF Basis, OneKind, FileAt, DirAt
    <3>3. View(p)' = Absent
      <4>1. phase \in {"probeErased", "scanFiles", "scanDirs"}
        BY <1>0, <2>5 DEF InHand, Loops, Found, FileKinds, Erasures
      <4>2. CASE phase = "probeErased"
        BY <1>0, <1>2, <1>6, <4>2 DEF InHand, View, Elements
      <4>3. CASE phase = "scanFiles"
        <5>1. p \notin dirs
          BY <1>0, <1>6, <4>3, Kind DEF Basis, Erasing
        <5> QED  BY <1>0, <1>2, <1>6, <4>3, <5>1 DEF View, Elements
      <4>4. CASE phase = "scanDirs"
        <5>1. files[p] = Absent
          BY <1>0, <1>6, <4>4, Kind DEF Basis, InHand
        <5> QED  BY <1>0, <1>2, <1>6, <4>4, <5>1 DEF View, Elements
      <4> QED  BY <4>1, <4>2, <4>3, <4>4
    <3>4. On(p)' = {h} /\ h.kind \in Erasures
      BY <1>3, <2>1, <2>5, <3>2
    <3>5. InTurn(p)'
      BY <3>4 DEF InTurn, Erasures
    <3> QED  BY <3>3, <3>4, <3>5 DEF Leads
  <2>6. ASSUME item.kind \in Found PROVE View(p)' = View(p) /\ View(p) = Given(h) /\ Noted(p)
    <3>1. phase \in {"probeCreated", "scanTree"}
      BY <1>0, <2>6 DEF InHand, Loops, Found, FileKinds, Erasures
    <3> QED  BY <1>0, <1>2, <1>3, <1>6, <2>6, <3>1 DEF View, Elements, HashOf, InView, Given, Noted, Held
  <2>7. CASE item.kind = "modifiedFile"
    <3>0. View(p)' = View(p) /\ View(p) = Given(h) /\ Noted(p) /\ Given(h) = h.hash
      BY <1>3, <2>6, <2>7 DEF Found, FileKinds, Given
    <3>1. PICK v \in Contents : Leads(p, v)
      BY <2>7, <3>0 DEF Tracked, Follows
    <3>2. \A j \in On(p) : j = h
      <4>1. h \in On(p)' /\ p \in Paths \ suspect' /\ On(p) \subseteq On(p)'
        BY <2>1
      <4>2. \A j \in On(p)' : j = h
        <5>1. ASSUME NEW j \in jobs', j.path = p, j # h PROVE FALSE
          <6>1. j.sess = h.sess /\ h \in jobs' /\ j.path = h.path
            BY <1>2, <1>3, <1>6, <2>3, <5>1 DEF On, Mine
          <6>2. Kinds[j.path] = {"file", "dir"}
            BY <1>3, <2>7, <5>1, <6>1 DEF ModifiesAlone
          <6> QED  BY <5>1, <6>2 DEF Basis, OneKind
        <5> QED  BY <5>1 DEF On
      <4> QED  BY <4>1, <4>2
    <3>3. On(p)' = {h}
      BY <2>1, <3>2
    <3>4. db[p] # NoRow
      <4>1. CASE On(p) = {}
        BY <3>1, <4>1, Words DEF Leads, Reported
      <4>2. CASE h \in On(p)
        BY <1>0, <1>3, <2>7, <4>2 DEF InTurn
      <4> QED  BY <3>2, <4>1, <4>2
    <3>5. InTurn(p)'
      BY <1>2, <1>3, <2>7, <3>3, <3>4 DEF InTurn, Erasures
    <3> QED  BY <3>0, <3>3, <3>5, <1>3, <2>7 DEF Leads, Erasures
  <2>8. CASE item.kind \in {"createdFile", "createdDir"}
    <3>0. View(p)' = View(p) /\ View(p) = Given(h) /\ Noted(p) /\ h.kind \notin Erasures
      BY <1>3, <2>6, <2>8 DEF Found, FileKinds, Erasures
    <3>1. \A j \in On(p) : j.kind \in Erasures
      BY <2>4, <2>8, <3>0 DEF Tracked, Follows
    <3>2. On(p) # {} => db[p] # NoRow
      BY <1>2, <1>6, <2>8, <3>1 DEF Spoils, On, FileKinds
    <3>3. InTurn(p)'
      BY <1>0, <1>2, <1>3, <2>1, <2>8, <3>0, <3>1, <3>2 DEF InTurn, Erasures
    <3> QED  BY <2>1, <3>0, <3>1, <3>3 DEF Leads
  <2> QED  BY <1>0, <2>5, <2>7, <2>8 DEF Items, PushKinds, FileKinds, Erasures
<1> QED  BY <1>5, <1>6

\* A step of the server that leaves the client alone.
LEMMA Followed ==
    ASSUME NEW p, UNCHANGED client, Tracked(p), ~Ahead(p), InTurn(p)', On(p) # {},
           \A v : Leads(p, v) => Leads(p, v)'
    PROVE  Tracked(p)'
<1>1. /\ View(p)' = View(p) /\ ~Ahead(p)' /\ (Noted(p)' <=> Noted(p)) /\ item' = item
  BY DEF client, watch, View, Elements, HashOf, Ahead, Held, Noted
<1>2. PICK w : w = View(p)
  OBVIOUS
<1>3. Leads(p, w) => Leads(p, View(p))'
  <2>1. Leads(p, w) => Leads(p, w)'
    OBVIOUS
  <2> QED  BY <1>1, <1>2, <2>1 DEF Leads
<1>4. Follows(p)'
  BY <1>1, <1>2, <1>3 DEF Tracked, Follows
<1> QED  BY <1>1, <1>4 DEF Tracked

\* A push of the client's own that does not fail does to the row what it was
\* sent for.
LEMMA TrackedByWorker ==
    ASSUME Basis, NEW p \in Paths, p \notin suspect, p \notin suspect', Tracked(p), ~failed', NEW j \in jobs,
           EnterGate(j) \/ Refuse(j) \/ First(j) \/ Second(j) \/ DbFault(j) \/ Lose(j)
    PROVE  Tracked(p)'
<1>0. /\ UNCHANGED client /\ jobs \subseteq Jobs /\ j \in Jobs /\ InTurn(p) /\ j.path \in Paths
      /\ db \in [Paths -> Rows] /\ Owned /\ ModifiesAlone /\ OneKind
      /\ HashRight(j) /\ FitsPush(j) /\ j.kind \in PushKinds
  BY JobFields DEF Basis, Clean, HashesReal, AllTypes, ServerTypes, Tracked, Fitting,
     EnterGate, Refuse, First, Second, DbFault, Lose, Lost, LoseRequest, LoseAnswer
<1>1. PICK m : /\ m \in {[j EXCEPT !.own = FALSE], [j EXCEPT !.stage = "first"], [j EXCEPT !.stage = "second"]}
               /\ jobs' = jobs \ {j} \/ jobs' = (jobs \ {j}) \cup {m}
  BY DEF EnterGate, Refuse, First, Second, DbFault, Lose, Lost, LoseRequest, LoseAnswer, Fail, Succeed
<1>2. m.path = j.path /\ m.kind = j.kind /\ m.hash = j.hash
  BY <1>0, <1>1 DEF Jobs
<1>3. CASE j.path # p
  <2>1. On(p)' = On(p)
    BY <1>1, <1>2, <1>3 DEF On
  <2>2. db'[p] = db[p]
    BY <1>0, <1>3 DEF EnterGate, Refuse, First, Second, DbFault, Lose, Lost, LoseRequest, LoseAnswer, Fail, server,
       UpdatePath, InsertPath, DeletePath
  <2>3. View(p)' = View(p) /\ (Ahead(p)' <=> Ahead(p)) /\ (Noted(p)' <=> Noted(p)) /\ UNCHANGED <<item, schema>>
    BY <1>0 DEF client, watch, View, Elements, HashOf, Ahead, Held, Noted
  <2> QED  BY <2>1, <2>2, <2>3, Steady
<1>4. CASE j.path = p
  <2>1. j \in On(p) /\ j.own /\ ~Ahead(p) /\ On(p) # {}
    BY <1>0, <1>4, OnMine DEF On, Tracked
  <2>2. ~Fail(j) /\ ~Lose(j) /\ ~Refuse(j) /\ ~DbFault(j)
    BY <2>1 DEF Fail, Lose, Lost, LoseRequest, LoseAnswer, Refuse, DbFault
  <2>3. \A k \in On(p) : /\ j.kind = "modifiedFile" => k = j
                         /\ j.kind \notin Erasures /\ k.kind \notin Erasures => k = j
    BY <1>0, <2>1, OneFound
  <2>4. CASE EnterGate(j) \/ First(j)
    <3>1. PICK n : /\ n \in {[j EXCEPT !.stage = "first"], [j EXCEPT !.stage = "second"]}
                   /\ jobs' = (jobs \ {j}) \cup {n}
                   /\ n.stage = "first" \/ First(j)
      <4>1. [j EXCEPT !.stage = "first"].stage = "first"
        BY <1>0 DEF Jobs
      <4> QED  BY <2>2, <2>4, <4>1 DEF EnterGate, First
    <3>2. /\ On(p)' = (On(p) \ {j}) \cup {n} /\ n.kind = j.kind /\ n.hash = j.hash /\ n.path = p
      <4>1. n.kind = j.kind /\ n.hash = j.hash /\ n.path = p
        BY <1>0, <1>4, <3>1 DEF Jobs
      <4> QED  BY <1>4, <3>1, <4>1 DEF On
    <3>3. \A v : Leads(p, v) => Leads(p, v)'
      <4> SUFFICES ASSUME NEW v, Leads(p, v) PROVE Leads(p, v)'
        OBVIOUS
      <4>1. (\A k \in On(p)' : k.kind \in Erasures) => v = Absent
        BY <2>1, <3>2 DEF Leads
      <4>2. \A k \in On(p)' : k.kind \notin Erasures => v = Given(k)
        BY <2>1, <3>2 DEF Leads, Given
      <4> QED  BY <3>2, <4>1, <4>2 DEF Leads
    <3>4. IF j.kind = "modifiedFile" /\ First(j) THEN db'[p] = j.hash /\ db[p] # NoRow ELSE db'[p] = db[p]
      <4>1. CASE j.kind = "modifiedFile" /\ First(j)
        <5>1. db[p] # NoRow /\ FileAt(p)
          BY <1>0, <1>4, <2>1, <4>1 DEF InTurn, FitsPush, FileKinds
        <5>2. db[p] # DirRow
          BY <5>1, BackupAssumption DEF Basis, Kept, RowsFit, OneKind, FileAt, DirAt
        <5>3. db[p] \in FileRows
          BY <1>0, <5>1, <5>2 DEF Rows
        <5> QED  BY <1>0, <1>4, <2>2, <4>1, <5>1, <5>3 DEF First, UpdatePath
      <4>2. CASE ~(j.kind = "modifiedFile" /\ First(j))
        BY <2>2, <2>4, <4>2 DEF First, EnterGate, server
      <4> QED  BY <4>1, <4>2
    <3>5. j.kind = "modifiedFile" => j.hash # NoRow
      BY <1>0, Words DEF HashRight, FileKinds, FileRows
    <3>6. InTurn(p)'
      <4>1. CASE j.kind = "modifiedFile"
        <5>1. On(p)' = {n}
          BY <2>3, <3>2, <4>1
        <5>2. n.kind \notin Erasures
          BY <3>2, <4>1 DEF Erasures
        <5>3. db'[p] # NoRow /\ (n.stage = "second" => db'[p] = n.hash)
          BY <1>0, <2>1, <3>1, <3>2, <3>4, <3>5, <4>1 DEF InTurn
        <5> QED  BY <5>1, <5>2, <5>3 DEF InTurn
      <4>2. CASE j.kind # "modifiedFile"
        <5>1. db'[p] = db[p] /\ n.kind # "modifiedFile"
          BY <3>2, <3>4, <4>2
        <5>2. \A k, l \in On(p)' : k.kind \in Erasures /\ l.kind \in Erasures => k = l
          BY <1>0, <2>1, <3>2 DEF InTurn
        <5>3. \A k, l \in On(p)' : k.kind \in Erasures /\ l.kind \notin Erasures => db'[p] # NoRow
          BY <1>0, <2>1, <3>2, <5>1 DEF InTurn
        <5>4. \A k \in On(p)' : k.kind = "modifiedFile" => db'[p] # NoRow /\ (k.stage = "second" => db'[p] = k.hash)
          BY <1>0, <3>2, <5>1 DEF InTurn
        <5> QED  BY <5>2, <5>3, <5>4 DEF InTurn
      <4> QED  BY <4>1, <4>2
    <3> QED  BY <1>0, <2>1, <3>3, <3>6, Followed
  <2>5. CASE Second(j)
    <3>1. /\ jobs' = jobs \ {j} /\ j.stage = "second"
          /\ j.kind \in {"createdFile", "createdDir"} => db[p] = NoRow
          /\ db'[p] = CASE j.kind = "createdFile" -> j.hash
                        [] j.kind = "createdDir" -> DirRow
                        [] j.kind = "modifiedFile" -> db[p]
                        [] OTHER -> NoRow
      BY <1>0, <1>4, <2>2, <2>5 DEF Second, Succeed, InsertFails, InsertPath, DeletePath
    <3>2. On(p)' = On(p) \ {j}
      BY <3>1 DEF On
    <3>3. CASE j.kind \in Erasures
      <4>1. db'[p] = NoRow /\ \A k \in On(p)' : k.kind \notin Erasures
        BY <1>0, <2>1, <3>1, <3>2, <3>3 DEF Erasures, InTurn
      <4>2. \A k \in On(p)' : k.kind # "modifiedFile"
        BY <1>0, <2>1, <3>2, <3>3, OneFound DEF Erasures
      <4>3. InTurn(p)'
        BY <4>1, <4>2 DEF InTurn
      <4>4. \A v : Leads(p, v) => Leads(p, v)'
        <5> SUFFICES ASSUME NEW v, Leads(p, v) PROVE Leads(p, v)'
          OBVIOUS
        <5>1. On(p)' = {} => v = Absent
          BY <2>1, <3>2, <3>3 DEF Leads
        <5> QED  BY <3>2, <4>1, <5>1 DEF Leads, Reported
      <4> QED  BY <1>0, <2>1, <4>3, <4>4, Followed
    <3>4. CASE j.kind \notin Erasures
      <4>1. On(p)' = {}
        <5> SUFFICES ASSUME NEW k \in On(p), k # j PROVE FALSE
          BY <3>2
        <5>1. k.kind \in Erasures /\ j.kind \in {"createdFile", "createdDir"}
          BY <1>0, <2>3, <3>4 DEF PushKinds, FileKinds, Erasures
        <5>2. db[p] # NoRow
          BY <1>0, <2>1, <3>4, <5>1 DEF InTurn
        <5> QED  BY <3>1, <5>1, <5>2
      <4>2. Reported(db'[p]) = Given(j)
        <5>1. j.kind \in FileKinds => j.hash # NoRow /\ j.hash # DirRow
          BY <1>0, Words DEF HashRight, FileRows
        <5>2. j.kind = "modifiedFile" => db[p] = j.hash
          BY <1>0, <2>1, <3>1 DEF InTurn
        <5> QED  BY <1>0, <3>1, <3>4, <5>1, <5>2, Words DEF Reported, Given, PushKinds, FileKinds, Erasures
      <4>3. \A v : Leads(p, v) => Leads(p, v)'
        BY <2>1, <3>4, <4>1, <4>2 DEF Leads
      <4>4. InTurn(p)'
        BY <4>1 DEF InTurn
      <4> QED  BY <1>0, <2>1, <4>3, <4>4, Followed
    <3> QED  BY <3>3, <3>4
  <2> QED  BY <2>2, <2>4, <2>5
<1> QED  BY <1>3, <1>4

\* A path that has just come off the suspects has nothing in flight, and is
\* reported as it is on record.
LEMMA TrackedAgain ==
    ASSUME OneKind, AllTypes, AllTypes', Fitting', RowsFit', HashesReal, HashesReal', Orders, Owned, InView, [Next]_vars,
           NEW p \in suspect, p \notin suspect', p \in Paths
    PROVE  Tracked(p)'
<1>0. PICK j \in jobs : Second(j) /\ Succeed(j) /\ j.path = p /\ ~\E k \in jobs' : k.path = p
  BY SuspectSteps
<1>1. /\ UNCHANGED client /\ j.own /\ Agree(disk', db', p) /\ Delivered(disk', db', p) = View(p)
  BY <1>0 DEF Second, Succeed
<1>2. On(p)' = {}
  BY <1>0 DEF On
<1>3. View(p)' = View(p) /\ (Ahead(p)' <=> Ahead(p)) /\ (Noted(p)' <=> Noted(p)) /\ item' = item
  BY <1>1 DEF client, watch, View, Elements, HashOf, Ahead, Held, Noted
<1>4. Reported(db'[p]) = View(p)
  <2>1. Delivered(disk', db', p) = Reported(db'[p])
    <3>1. /\ disk' \in [Paths -> Nodes] /\ db' \in [Paths -> Rows] /\ Fits(p, disk'[p])
          /\ db'[p] = DirRow => DirAt(p)
          /\ db'[p] # Dir
      BY DEF AllTypes, ServerTypes, Fitting, FitsServer, RowsFit, HashesReal, OneKind
    <3> QED  BY <1>1, <3>1, Reports
  <2> QED  BY <1>1, <2>1
<1>5. ~Ahead(p)
  <2>1. j \in Mine /\ phase # "off"
    BY <1>1 DEF Owned, Mine
  <2> QED  BY <1>0, <2>1 DEF Orders, ProbeOrder, Passed, Ahead, Held, Probing
<1>6. Leads(p, View(p))'
  BY <1>2, <1>3, <1>4 DEF Leads
<1>7. InTurn(p)'
  BY <1>2 DEF InTurn
<1>8. ASSUME Noted(p), item.kind = "modifiedFile" PROVE \E v \in Contents : Leads(p, v)'
  <2>1. View(p) \in Contents
    BY <1>8 DEF Noted, Held, InView, Given, HashesReal, HashRight, FileKinds
  <2>2. PICK v \in Contents : v = View(p)
    BY <2>1
  <2>3. Leads(p, v)'
    BY <1>2, <1>4, <2>2 DEF Leads
  <2> QED  BY <2>3
<1> QED  BY <1>2, <1>3, <1>5, <1>6, <1>7, <1>8 DEF Tracked, Follows

\* The probe's answer has the rows of the paths as they are.
LEMMA TrackedByAsk ==
    ASSUME AllTypes, Orders, Owned, NEW p \in Paths \ suspect, Ask, Tracking'
    PROVE  Tracked(p)'
<1>1. /\ phase = "ask" /\ phase' = "probeErased" /\ schema' = db /\ item = None
      /\ todo' = {q \in Paths : db[q] # NoRow} \ Elements
      /\ UNCHANGED <<item, files, dirs, jobs, db>>
  BY DEF Ask, Tracking, Watching, AllTypes, Started, Loops, watch, server
<1>2. On(p) = {} /\ On(p)' = {}
  <2>1. On(p) = {}
    BY <1>1, OnMine DEF Orders, ProbeOrder, Probing
  <2> QED  BY <1>1, <2>1 DEF On
<1>3. InTurn(p)' /\ ~Noted(p)' /\ (Ahead(p)' => db'[p] = schema'[p])
  BY <1>1, <1>2 DEF InTurn, Noted, Held
<1>4. CASE Ahead(p)'
  BY <1>2, <1>3, <1>4 DEF Tracked, Follows
<1>5. CASE ~Ahead(p)'
  <2>1. p \notin Elements /\ db[p] = NoRow /\ View(p)' = Absent
    BY <1>1, <1>5 DEF Ahead, Probing, View, Elements
  <2>2. Leads(p, View(p))'
    BY <1>1, <1>2, <2>1 DEF Leads, Reported
  <2> QED  BY <1>2, <1>3, <1>5, <2>2 DEF Tracked, Follows
<1> QED  BY <1>4, <1>5

\* A client that goes on has not just begun to, nor forgotten a failure.
LEMMA GoesOn ==
    ASSUME Unfailed, failed \in BOOLEAN, Next, ~Ask, Tracking', ~failed'
    PROVE  Tracking /\ ~failed
<1>1. ~Start /\ ~Quit /\ ~Kill /\ ~GiveUp
  BY DEF Start, Quit, Kill, GiveUp, Tracking, Watching
<1>2. CASE Client
  <2>1. CASE ProbeDone
    BY <2>1 DEF ProbeDone, Tracking, Watching, Unfailed, Probing
  <2>2. CASE ~ProbeDone
    <3>1. failed' = failed
      BY <1>1, <1>2, <2>2 DEF Client, Ask, ProbeErased, ProbeErasedDone, ProbeCreated, NextCycle, ErasedFile,
         ErasedDir, CreatedOrModified, IteratorThrows, ScanDone, HashItem, ReadItem, Send
    <3>2. phase' = phase \/ phase \in {"probeErased", "sleep", "scanFiles", "scanDirs", "scanTree"} \/ HashItem
      BY <1>1, <1>2, <2>2 DEF Client, ProbeErased, ProbeErasedDone, ProbeCreated, NextCycle, ErasedFile,
         ErasedDir, CreatedOrModified, IteratorThrows, ScanDone, ReadItem, Send
    <3>3. HashItem => phase' = phase
      BY DEF HashItem, Halt, Tracking, Watching
    <3> QED  BY <3>1, <3>2, <3>3 DEF Tracking, Watching
  <2> QED  BY <2>1, <2>2
<1>3. CASE User \/ Crash
  BY <1>3 DEF User, WriteFile, MakeDir, RemoveTree, Edit, Crash, client, Tracking
<1>4. ASSUME NEW j \in jobs, EnterGate(j) \/ Refuse(j) \/ First(j) \/ Second(j) \/ DbFault(j) \/ Lose(j)
      PROVE  phase' = phase /\ (failed => failed')
  BY <1>4 DEF EnterGate, Refuse, First, Second, DbFault, Lose, Lost, LoseRequest, LoseAnswer, Fail, Succeed, client
<1>5. CASE Worker \/ \E j \in jobs : DbFault(j) \/ Lose(j)
  BY <1>4, <1>5 DEF Worker, Tracking
<1> QED  BY <1>1, <1>2, <1>3, <1>5 DEF Next, Faults

\* Every step of every part keeps every path tracked.
LEMMA AllTrackedKept ==
    ASSUME AllTypes, AllTypes', Fitting, Fitting', Orders, ModifiesAlone, ModifiesAlone', Clean, Clean',
           Kept, Kept', AllTracked, [Next]_vars
    PROVE  AllTracked'
<1> SUFFICES ASSUME OneKind, Tracking', ~failed', NEW p \in Paths, p \notin suspect'
             PROVE  Tracked(p)'
  BY DEF AllTracked, OneKind
<1>0. Owned /\ Owned' /\ HashesReal /\ HashesReal' /\ RowsFit' /\ InView /\ Unfailed
  BY DEF Clean, Kept
<1>1. CASE p \in suspect
  BY <1>0, <1>1, TrackedAgain
<1>2. CASE p \notin suspect /\ Ask
  BY <1>0, <1>2, TrackedByAsk
<1>3. ASSUME p \notin suspect, On(p)' = On(p), UNCHANGED <<client, db>>, Tracked(p) PROVE Tracked(p)'
  <2>1. View(p)' = View(p) /\ (Ahead(p)' <=> Ahead(p)) /\ (Noted(p)' <=> Noted(p)) /\ UNCHANGED <<item, schema>>
    BY <1>3 DEF client, watch, View, Elements, HashOf, Ahead, Held, Noted
  <2>2. db'[p] = db[p]
    BY <1>3
  <2> QED  BY <1>3, <2>1, <2>2, Steady
<1>4. CASE p \notin suspect /\ UNCHANGED vars
  <2>1. Tracked(p) /\ On(p)' = On(p)
    BY <1>4 DEF vars, AllTracked, Tracking, On
  <2> QED  BY <1>3, <1>4, <2>1 DEF vars, client, watch
<1>5. CASE p \notin suspect /\ ~Ask /\ Next
  <2>0. Tracking /\ ~failed /\ Tracked(p) /\ Basis
    <3>1. Tracking /\ ~failed
      BY <1>0, <1>5, GoesOn DEF AllTypes, ServerTypes
    <3> QED  BY <1>5, <3>1 DEF AllTracked, Basis
  <2>1. CASE Client
    <3>1. ~GiveUp /\ ~IteratorThrows
      BY DEF GiveUp, IteratorThrows, Halt, Tracking, Watching
    <3>2. CASE Send
      BY <1>0, <1>5, <2>0, <3>2, TrackedBySend
    <3>3. CASE (\E q \in Paths : ProbeErased(q)) \/ ProbeErasedDone \/ ProbeCreated \/ ProbeDone
      BY <2>0, <3>3, TrackedByProbe
    <3>4. CASE NextCycle \/ ErasedFile \/ ErasedDir \/ CreatedOrModified \/ ScanDone \/ HashItem \/ ReadItem
      BY <2>0, <3>4, TrackedByCycle
    <3> QED  BY <1>5, <2>1, <3>1, <3>2, <3>3, <3>4 DEF Client
  <2>2. CASE User
    <3>1. On(p)' = On(p) /\ UNCHANGED <<client, db>>
      BY <2>2 DEF User, WriteFile, MakeDir, RemoveTree, Edit, On, server
    <3> QED  BY <1>3, <1>5, <2>0, <3>1
  <2>3. CASE Crash
    <3>1. On(p) = {}
      BY <1>0, <1>5, <2>3, OnMine DEF Crash, Own, On
    <3>2. On(p)' = On(p) /\ UNCHANGED <<client, db>>
      BY <2>3, <3>1 DEF Crash, On
    <3> QED  BY <1>3, <1>5, <2>0, <3>2
  <2>4. CASE Worker \/ \E j \in jobs : DbFault(j) \/ Lose(j)
    BY <1>5, <2>0, <2>4, TrackedByWorker DEF Worker
  <2>5. CASE Start \/ Quit \/ Kill
    BY <2>5 DEF Start, Quit, Kill, Tracking, Watching
  <2> QED  BY <1>5, <2>1, <2>2, <2>3, <2>4, <2>5 DEF Next, Faults
<1> QED  BY <1>1, <1>2, <1>4, <1>5

\* What the client has on record, what is in flight and what the server has
\* on record stay related as the names above say.
THEOREM RecordFollows == Spec => [](Kept /\ AllTracked)
<1>1. Init => Kept /\ AllTracked
  <2> SUFFICES ASSUME Init PROVE Kept /\ AllTracked
    OBVIOUS
  <2>1. RowsFit /\ Erasing /\ InView /\ Unfailed
    BY Words DEF Init, RowsFit, Erasing, InView, Unfailed, Probing
  <2>2. ~Tracking
    BY DEF Init, Tracking, Watching
  <2> QED  BY <2>1, <2>2 DEF Kept, AllTracked
<1>2. AllTypes /\ Fitting /\ Orders /\ Clean /\ Kept /\ [Next]_vars => Kept'
  BY RowsFitKept, ErasingKept, InViewKept, UnfailedKept DEF Kept, Clean, OneKind
<1>3. AllTypes /\ AllTypes' /\ Fitting /\ Fitting' /\ Orders /\ ModifiesAlone /\ ModifiesAlone' /\ Clean /\ Clean'
      /\ Kept /\ Kept' /\ AllTracked /\ [Next]_vars => AllTracked'
  BY AllTrackedKept
<1> QED  BY <1>1, <1>2, <1>3, BackupTypes, BackupFits, PushesInOrder, ModificationsAlone, StoreInvariant, PTL DEF Spec

\* Whenever the watcher sleeps and nothing of its own is in flight or has
\* failed, a client that asked for everything back would be given what the
\* watcher has on record, but for paths that a known race or fault has spoiled
\* (Faithful): whatever was edited, lost, killed or restarted before, where no
\* path is a file now and a directory then.
THEOREM BackupIsFaithful == Spec => []Faithful
<1>1. AllTypes /\ Fitting /\ Clean /\ Kept /\ AllTracked /\ StoresAgree => Faithful
  <2> SUFFICES ASSUME AllTypes, Fitting, Clean, Kept, AllTracked, StoresAgree,
                      OneKind, phase = "sleep", Own = {}, ~failed, NEW p \in Paths \ suspect
               PROVE  Delivered(disk, db, p) = View(p)
    BY DEF Faithful
  <2>1. On(p) = {}
    BY OnMine DEF Clean, Own
  <2>2. ~Noted(p) /\ ~Ahead(p) /\ Tracked(p)
    BY DEF AllTypes, Started, Loops, Noted, Ahead, Held, Probing, AllTracked, Tracking, Watching
  <2>3. View(p) = Reported(db[p])
    BY <2>1, <2>2 DEF Tracked, Follows, Leads
  <2>4. Agree(disk, db, p)
    BY <2>1 DEF StoresAgree, Halfway, On
  <2>5. /\ disk \in [Paths -> Nodes] /\ db \in [Paths -> Rows] /\ Fits(p, disk[p])
        /\ (db[p] = DirRow => DirAt(p)) /\ db[p] # Dir
    BY DEF AllTypes, ServerTypes, Fitting, FitsServer, Kept, RowsFit, Clean, HashesReal
  <2> QED  BY <2>3, <2>4, <2>5, Reports
<1> QED  BY <1>1, BackupTypes, BackupFits, StoreInvariant, StoresAlwaysAgree, RecordFollows, PTL

-----------------------------------------------------------------------------
\* The gates of the sessions, which PushGate implements.

\* A push, whatever has become of it, and those past the gate of session s.
PushOf(j) == [path |-> j.path, kind |-> j.kind, hash |-> j.hash, data |-> j.data]
PastGate(J, s) == {PushOf(j) : j \in {k \in J : k.sess = s /\ k.stage # "sent"}}

Lk == INSTANCE Mutex WITH Workers <- {PushOf(j) : j \in Jobs}, Sessions <- 1..MaxRuns,
                          inside <- [s \in 1..MaxRuns |-> PastGate(jobs, s)]

\* Pushes are handed over, given up, refused or lost on one side of the gate.
LEMMA SameSide ==
    ASSUME NEW J, NEW K, NEW s,
           \A m \in K : \E j \in J : PushOf(m) = PushOf(j) /\ m.sess = j.sess /\ (m.stage = "sent" <=> j.stage = "sent"),
           \A j \in J : \/ j.stage = "sent"
                       \/ \E m \in K : PushOf(m) = PushOf(j) /\ m.sess = j.sess /\ (m.stage = "sent" <=> j.stage = "sent")
    PROVE  PastGate(K, s) = PastGate(J, s)
<1>1. ASSUME NEW x \in PastGate(K, s) PROVE x \in PastGate(J, s)
  <2>1. PICK m \in K : x = PushOf(m) /\ m.sess = s /\ m.stage # "sent"
    BY <1>1 DEF PastGate
  <2>2. PICK j \in J : x = PushOf(j) /\ j.sess = s /\ j.stage # "sent"
    BY <2>1
  <2> QED  BY <2>2 DEF PastGate
<1>2. ASSUME NEW x \in PastGate(J, s) PROVE x \in PastGate(K, s)
  <2>1. PICK j \in J : x = PushOf(j) /\ j.sess = s /\ j.stage # "sent"
    BY <1>2 DEF PastGate
  <2>2. PICK m \in K : x = PushOf(m) /\ m.sess = s /\ m.stage # "sent"
    BY <2>1
  <2> QED  BY <2>2 DEF PastGate
<1> QED  BY <1>1, <1>2

\* A push that changes but its owner or its way through the stores.
LEMMA Restaged ==
    ASSUME NEW j \in Jobs
    PROVE  /\ PushOf([j EXCEPT !.own = FALSE]) = PushOf(j) /\ [j EXCEPT !.own = FALSE].sess = j.sess
           /\ [j EXCEPT !.own = FALSE].stage = j.stage
           /\ \A st \in {"first", "second"} : /\ PushOf([j EXCEPT !.stage = st]) = PushOf(j)
                                            /\ [j EXCEPT !.stage = st].sess = j.sess
                                            /\ [j EXCEPT !.stage = st].stage # "sent"
  BY DEF PushOf, Jobs

LEMMA GateEntered ==
    ASSUME jobs \subseteq Jobs, NEW j \in jobs, EnterGate(j)
    PROVE  Lk!Acquire(PushOf(j), j.sess)
<1>1. j \in Jobs /\ j.sess \in 1..MaxRuns
  BY JobFields
<1>2. PICK m : m = [j EXCEPT !.stage = "first"]
  OBVIOUS
<1>3. /\ PushOf(m) = PushOf(j) /\ m.sess = j.sess /\ m.stage # "sent" /\ j.stage = "sent"
      /\ jobs' = (jobs \ {j}) \cup {m} /\ \A k \in jobs : k.sess = j.sess => k.stage = "sent"
  BY <1>1, <1>2, Restaged DEF EnterGate, GateFree
<1>4. PastGate(jobs, j.sess) = {} /\ PastGate(jobs', j.sess) = {PushOf(j)}
  BY <1>3 DEF PastGate
<1>5. \A s \in 1..MaxRuns : s # j.sess => PastGate(jobs', s) = PastGate(jobs, s)
  BY <1>3 DEF PastGate
<1> QED  BY <1>1, <1>4, <1>5 DEF Lk!Acquire

LEMMA GateLeft ==
    ASSUME jobs \subseteq Jobs, Gated, NEW j \in jobs, j.stage # "sent", jobs' = jobs \ {j}
    PROVE  Lk!Release(PushOf(j), j.sess)
<1>1. j.sess \in 1..MaxRuns
  BY JobFields
<1>2. \A k \in jobs : k.sess = j.sess /\ k.stage # "sent" => k = j
  BY DEF Gated
<1>3. PastGate(jobs, j.sess) = {PushOf(j)} /\ PastGate(jobs', j.sess) = {}
  BY <1>2 DEF PastGate
<1>4. \A s \in 1..MaxRuns : s # j.sess => PastGate(jobs', s) = PastGate(jobs, s)
  BY DEF PastGate
<1> QED  BY <1>1, <1>3, <1>4 DEF Lk!Release

\* For every session the pushes past its gate are a lock, also those of a client
\* that is gone: a step enters a gate nobody is past, leaves it, or has nothing
\* to do with it; only a crash frees them all at once.  It is the lock of
\* PushGate (GateIsLock), so the pushes of Backup may have a gate built so.
THEOREM PushesPassGate == Spec => Lk!Init /\ [][Crash \/ Lk!Next]_[s \in 1..MaxRuns |-> PastGate(jobs, s)]
<1>1. Init => Lk!Init
  BY DEF Init, Lk!Init, PastGate
<1>2. AllTypes /\ Gated /\ [Next]_vars => [Crash \/ Lk!Next]_[s \in 1..MaxRuns |-> PastGate(jobs, s)]
  <2> SUFFICES ASSUME AllTypes, Gated, [Next]_vars, ~Crash
               PROVE  Lk!Next \/ \A s \in 1..MaxRuns : PastGate(jobs', s) = PastGate(jobs, s)
    BY DEF PastGate
  <2>0. jobs \subseteq Jobs
    BY DEF AllTypes
  <2>1. CASE UNCHANGED jobs
    BY <2>1 DEF PastGate
  <2>2. CASE Send
    <3>1. jobs' = jobs \cup {Handed} /\ Handed.stage = "sent"
      BY <2>2 DEF Send, Handed
    <3> QED  BY <3>1 DEF PastGate
  <2>3. ASSUME NEW j \in jobs, EnterGate(j) PROVE Lk!Next
    <3>1. Lk!Acquire(PushOf(j), j.sess) /\ j \in Jobs /\ j.sess \in 1..MaxRuns
      BY <2>0, <2>3, GateEntered, JobFields
    <3> QED  BY <3>1 DEF Lk!Next
  <2>4. ASSUME NEW j \in jobs, j.stage # "sent", jobs' = jobs \ {j} PROVE Lk!Next
    <3>1. Lk!Release(PushOf(j), j.sess) /\ j \in Jobs /\ j.sess \in 1..MaxRuns
      BY <2>0, <2>4, GateLeft, JobFields
    <3> QED  BY <3>1 DEF Lk!Next
  <2>5. ASSUME NEW j \in jobs, j.stage = "sent", jobs' = jobs \ {j}
        PROVE  \A s \in 1..MaxRuns : PastGate(jobs', s) = PastGate(jobs, s)
    BY <2>5 DEF PastGate
  <2>6. ASSUME NEW j \in jobs, NEW m, jobs' = (jobs \ {j}) \cup {m}, PushOf(m) = PushOf(j), m.sess = j.sess,
               m.stage = "sent" <=> j.stage = "sent", NEW s \in 1..MaxRuns
        PROVE  PastGate(jobs', s) = PastGate(jobs, s)
    BY <2>6, SameSide
  <2>7. ASSUME NEW j \in jobs, Refuse(j) \/ First(j) \/ Second(j) \/ DbFault(j) \/ Lose(j)
        PROVE  Lk!Next \/ \A s \in 1..MaxRuns : PastGate(jobs', s) = PastGate(jobs, s)
    <3>1. CASE jobs' = jobs \ {j}
      BY <2>4, <2>5, <3>1
    <3>2. CASE jobs' = (jobs \ {j}) \cup {[j EXCEPT !.stage = "second"]} /\ j.stage = "first"
      <4>1. PICK m : m = [j EXCEPT !.stage = "second"]
        OBVIOUS
      <4>2. PushOf(m) = PushOf(j) /\ m.sess = j.sess /\ m.stage # "sent"
        BY <2>0, <4>1, Restaged
      <4> QED  BY <2>6, <3>2, <4>1, <4>2
    <3>3. CASE jobs' = (jobs \ {j}) \cup {[j EXCEPT !.own = FALSE]}
      <4>1. PICK m : m = [j EXCEPT !.own = FALSE]
        OBVIOUS
      <4>2. PushOf(m) = PushOf(j) /\ m.sess = j.sess /\ m.stage = j.stage
        BY <2>0, <4>1, Restaged
      <4> QED  BY <2>6, <3>3, <4>1, <4>2
    <3> QED  BY <2>7, <3>1, <3>2, <3>3 DEF Refuse, First, Second, DbFault, Lose, Lost, LoseRequest, LoseAnswer, Fail, Succeed
  <2>8. CASE Kill
    <3>1. jobs' = {[j EXCEPT !.own = FALSE] : j \in jobs}
      BY <2>8 DEF Kill
    <3>2. ASSUME NEW m \in jobs'
          PROVE  \E j \in jobs : PushOf(m) = PushOf(j) /\ m.sess = j.sess /\ (m.stage = "sent" <=> j.stage = "sent")
      <4>1. PICK j \in jobs : m = [j EXCEPT !.own = FALSE]
        BY <3>1
      <4>2. PushOf(m) = PushOf(j) /\ m.sess = j.sess /\ m.stage = j.stage
        BY <2>0, <4>1, Restaged
      <4> QED  BY <4>2
    <3>3. ASSUME NEW j \in jobs
          PROVE  \E m \in jobs' : PushOf(m) = PushOf(j) /\ m.sess = j.sess /\ (m.stage = "sent" <=> j.stage = "sent")
      <4>1. [j EXCEPT !.own = FALSE] \in jobs'
        BY <3>1
      <4> QED  BY <2>0, <4>1, Restaged
    <3> QED  BY <3>2, <3>3, SameSide
  <2>9. CASE User \/ Start \/ Quit \/ UNCHANGED vars \/ (Client /\ ~Send)
    BY <2>1, <2>9 DEF User, WriteFile, MakeDir, RemoveTree, Edit, Start, Quit, vars, Client, Ask, ProbeErased,
       ProbeErasedDone, ProbeCreated, ProbeDone, NextCycle, ErasedFile, ErasedDir, CreatedOrModified,
       IteratorThrows, ScanDone, HashItem, ReadItem, GiveUp
  <2> QED  BY <2>2, <2>3, <2>7, <2>8, <2>9 DEF Next, Worker, Faults
<1> QED  BY <1>1, <1>2, BackupTypes, StoreInvariant, PTL DEF Spec, Clean

-----------------------------------------------------------------------------
\* What a restore will make of it.

\* The stores are what Restore starts from: a tree and rows that fit, and no
\* listed path below one that is delivered as a file.
SuitsRestore == OneKind => disk \in TreesOf(Kinds) /\ db \in RowsOf(Kinds) /\ Consistent(disk, db)

\* Nothing is spoiled, nothing left to do: what a restore should put at each
\* path is what the user has there.
RoundTrip == OneKind /\ AtRest /\ suspect = {} => \A p \in Paths : Wanted(disk, db, p) = local[p]

\* A listed path is below directories only, and what is delivered there is no
\* file, where no path is both.
LEMMA ListedUnderDirs ==
    ASSUME OneKind, AllTypes, Fitting, Kept, NEW p \in Paths, p \in Listed(db), NEW a \in Ancestors[p], HashesReal
    PROVE  Delivered(disk, db, a) \notin Contents
<1>1. db[p] \in Contents \/ db[p] = DirRow
  BY DEF Listed, AllTypes, ServerTypes, Rows, FileRows, HashesReal
<1>2. Possible(p)
  BY <1>1 DEF Fitting, FitsServer, FileRows, FileAt, Kept, RowsFit, DirAt
<1>3. a \in Paths /\ DirAt(a)
  BY <1>2, DirsAbove
<1>4. ~FileAt(a)
  BY <1>3, BackupAssumption DEF OneKind, FileAt, DirAt
<1>5. disk[a] \notin Contents
  BY <1>3, <1>4 DEF Fitting, FitsServer, Fits
<1> QED  BY <1>5, Words DEF Delivered

\* What Restore assumes of the server (its Init, and that the stores are
\* Consistent) is what the backup leaves there at any time: in the middle of a
\* push, after a crash between the stores, after any failure.
THEOREM BackupSuitsRestore == Spec => []SuitsRestore
<1>1. AllTypes /\ Fitting /\ Clean /\ Stored /\ Kept => SuitsRestore
  <2> SUFFICES ASSUME AllTypes, Fitting, Clean, Stored, Kept, OneKind
               PROVE  disk \in TreesOf(Kinds) /\ db \in RowsOf(Kinds) /\ Consistent(disk, db)
    BY DEF SuitsRestore
  <2>0. HashesReal /\ disk \in [Paths -> Nodes] /\ db \in [Paths -> Rows]
    BY DEF Clean, AllTypes, ServerTypes
  <2>1. disk \in TreesOf(Kinds)
    BY <2>0, Words DEF TreesOf, Stored, TreeOk, Fitting, FitsServer, Fits, FileAt, DirAt, Nodes
  <2>2. db \in RowsOf(Kinds)
    BY <2>0 DEF RowsOf, Rows, FileRows, HashesReal, Fitting, FitsServer, FileAt, Kept, RowsFit, DirAt
  <2>3. Consistent(disk, db)
    BY <2>0, ListedUnderDirs DEF Consistent, Listed
  <2> QED  BY <2>1, <2>2, <2>3
<1> QED  BY <1>1, BackupTypes, BackupFits, StoreInvariant, RecordFollows, PTL

\* The user's directory is a tree.
LEMMA UserKeepsTree ==
    ASSUME local \in [Paths -> Nodes], TreeOk(local), User
    PROVE  TreeOk(local')
<1>0. \A p \in Paths : p \notin Ancestors[p] /\ \A a \in Ancestors[p] : a \in Paths /\ Ancestors[a] \subseteq Ancestors[p]
  BY PathsAssumption
<1>1. ASSUME NEW p \in Paths, WriteFile(p) PROVE TreeOk(local')
  <2>1. PICK c \in Contents : local' = [local EXCEPT ![p] = c]
    BY <1>1 DEF WriteFile, Edit
  <2>2. local[p] # Dir /\ ParentIsDir(local, p)
    BY <1>1 DEF WriteFile
  <2>3. \A q \in Paths : local[q] # Absent => p \notin Ancestors[q]
    BY <2>2 DEF TreeOk, ParentIsDir
  <2> QED  BY <1>0, <2>1, <2>2, <2>3 DEF TreeOk, ParentIsDir
<1>2. ASSUME NEW p \in Paths, MakeDir(p) PROVE TreeOk(local')
  <2>1. local' = [local EXCEPT ![p] = Dir] /\ ParentIsDir(local, p)
    BY <1>2 DEF MakeDir, Edit
  <2> QED  BY <1>0, <2>1 DEF TreeOk, ParentIsDir
<1>3. ASSUME NEW p \in Paths, RemoveTree(p) PROVE TreeOk(local')
  <2>1. local' = RemoveAll(local, p)
    BY <1>3 DEF RemoveTree, Edit
  <2> QED  BY <2>1, RemovesThere
<1> QED  BY <1>1, <1>2, <1>3 DEF User

\* From the user's directory to the server and back: when the watcher has
\* nothing left to do and no named mishap has spoiled a path, a restore that
\* returns true (Restored) puts back the directory as it is, for any tree, any
\* edits and any faults before.
THEOREM RestoresTheDirectory == Spec => []RoundTrip
<1>1. Init => TreeOk(local)
  BY DEF Init, Trees, TreesOf, TreeOk
<1>2. AllTypes /\ TreeOk(local) /\ [Next]_vars => TreeOk(local)'
  <2> SUFFICES ASSUME AllTypes, TreeOk(local), [Next]_vars PROVE TreeOk(local')
    BY DEF TreeOk, ParentIsDir
  <2>1. CASE User
    BY <2>1, UserKeepsTree DEF AllTypes, ServerTypes
  <2>2. CASE ~User
    <3>1. local' = local
      <4>1. CASE UNCHANGED vars \/ Start \/ Quit
        BY <4>1 DEF vars, Start, Quit, user
      <4>2. CASE Client
        BY <4>2 DEF Client, Ask, ProbeErased, ProbeErasedDone, ProbeCreated, ProbeDone, NextCycle, ErasedFile,
           ErasedDir, CreatedOrModified, IteratorThrows, ScanDone, HashItem, ReadItem, GiveUp, Send, user
      <4>3. CASE Worker
        BY <4>3 DEF Worker, EnterGate, Refuse, First, Second, user
      <4>4. CASE Faults
        BY <4>4 DEF Faults, DbFault, Lose, Lost, LoseRequest, LoseAnswer, Crash, Kill, user
      <4> QED  BY <2>2, <4>1, <4>2, <4>3, <4>4 DEF Next
    <3> QED  BY <3>1
  <2> QED  BY <2>1, <2>2
<1>3. AllTypes /\ TreeOk(local) /\ Faithful => RoundTrip
  <2> SUFFICES ASSUME AllTypes, TreeOk(local), Faithful, OneKind, AtRest, suspect = {}, NEW p \in Paths
               PROVE  Wanted(disk, db, p) = local[p]
    BY DEF RoundTrip
  <2>1. \A q \in Paths : Delivered(disk, db, q) = local[q]
    BY DEF Faithful, AtRest
  <2>2. \A q \in Paths : q \in Listed(db) => Delivered(disk, db, q) # Absent
    BY Words DEF Delivered
  <2>3. CASE p \in Listed(db)
    BY <2>1, <2>3 DEF Wanted
  <2>4. CASE p \notin Listed(db)
    <3>1. local[p] = Absent
      BY <2>1, <2>4 DEF Delivered
    <3>2. ASSUME NEW q \in Below(p), q \in Listed(db) PROVE FALSE
      <4>1. q \in Paths /\ p \in Ancestors[q] /\ local[q] # Absent
        BY <2>1, <2>2, <3>2 DEF Below
      <4> QED  BY <3>1, <4>1, Words DEF TreeOk, ParentIsDir
    <3> QED  BY <2>4, <3>1, <3>2 DEF Wanted
  <2> QED  BY <2>3, <2>4
<1> QED  BY <1>1, <1>2, <1>3, BackupTypes, BackupIsFaithful, PTL DEF Spec
-----------------------------------------------------------------------------
\* Who waits for whom.

\* Every step of BackupWaits is one of Backup or leaves it alone.
LEMMA WaitStep == ASSUME [WaitNext]_waitVars PROVE [Next]_vars
<1>1. CASE UNCHANGED waitVars
  BY <1>1 DEF waitVars
<1>2. ASSUME NEW j \in jobs, Sleeps(j) \/ Goes(j) \/ LosesRequest(j) \/ LosesAnswer(j) \/ StatementFails(j)
      PROVE  [Next]_vars
  BY <1>2 DEF Sleeps, Goes, GoesThrough, LosesRequest, LosesAnswer, StatementFails, Next, Worker, Faults, Lose
<1>3. CASE ClientGoes \/ Ends \/ FallsSilent \/ WakesSpuriously \/ Crashes \/ Killed
  BY <1>3 DEF ClientGoes, Ends, FallsSilent, WakesSpuriously, Crashes, Killed, Next, Faults
<1>4. CASE (User \/ Start) /\ UNCHANGED waits
  BY <1>4 DEF Next, Faults
<1> QED  BY <1>1, <1>2, <1>3, <1>4 DEF WaitNext

\* The backup with its waits is the backup: what is proved of Backup holds also
\* where pushes sleep at the gate and connections fall silent.
THEOREM WaitsAreBackup == WaitSpec => Spec
<1>1. WaitInit => Init
  BY DEF WaitInit
<1> QED  BY <1>1, WaitStep, PTL DEF WaitSpec, Spec

\* Who sleeps keeps its place at the gate until it is let through.
LEMMA SleepersKept ==
    ASSUME jobs \subseteq Jobs, WaitTypeOK, [WaitNext]_waitVars
    PROVE  asleep' \subseteq {Id(j) : j \in {k \in jobs' : k.stage = "sent" /\ ~Refused(k)'}}
<1> DEFINE Waiters == {j \in jobs : j.stage = "sent" /\ ~Refused(j)}
           Stays(i) == \E k \in jobs' : k.stage = "sent" /\ Id(k) = i
<1>0. asleep \subseteq {Id(j) : j \in Waiters} /\ jobs \subseteq Jobs
  BY DEF WaitTypeOK
<1>1. ASSUME UNCHANGED <<known, runs>> \/ known' = TRUE, asleep' \subseteq {Id(j) : j \in Waiters},
             \A j \in Waiters : Id(j) \in asleep' => Stays(Id(j))
      PROVE  asleep' \subseteq {Id(j) : j \in {k \in jobs' : k.stage = "sent" /\ ~Refused(k)'}}
  <2> SUFFICES ASSUME NEW a \in asleep'
               PROVE  \E k \in jobs' : k.stage = "sent" /\ ~Refused(k)' /\ a = Id(k)
    OBVIOUS
  <2>1. PICK j \in Waiters : a = Id(j)
    BY <1>1
  <2>2. PICK k \in jobs' : k.stage = "sent" /\ Id(k) = Id(j)
    BY <1>1, <2>1
  <2>3. k.sess = j.sess
    BY <2>2 DEF Id
  <2>4. ~Refused(k)'
    BY <1>1, <2>1, <2>3 DEF Refused
  <2> QED  BY <2>1, <2>2, <2>4
<1>2. ASSUME UNCHANGED <<known, runs, asleep>>, \A j \in Waiters : j \in jobs'
      PROVE  asleep' \subseteq {Id(j) : j \in {k \in jobs' : k.stage = "sent" /\ ~Refused(k)'}}
  BY <1>0, <1>1, <1>2
<1>3. CASE UNCHANGED waitVars \/ FallsSilent \/ WakesSpuriously
  BY <1>2, <1>3 DEF waitVars, vars, waits, FallsSilent, WakesSpuriously
<1>4. ASSUME NEW j \in jobs, Sleeps(j)
      PROVE  asleep' \subseteq {Id(i) : i \in {k \in jobs' : k.stage = "sent" /\ ~Refused(k)'}}
  <2>1. UNCHANGED <<known, runs, jobs>> /\ j \in Waiters /\ asleep' = asleep \cup {Id(j)}
    BY <1>4 DEF Sleeps, vars
  <2> QED  BY <1>0, <1>1, <2>1
<1>5. ASSUME NEW j \in jobs, GoesThrough(j)
      PROVE  asleep' \subseteq {Id(i) : i \in {k \in jobs' : k.stage = "sent" /\ ~Refused(k)'}}
  <2>1. UNCHANGED <<known, runs>> /\ asleep' = asleep \ {Id(j)} /\ jobs \ {j} \subseteq jobs'
    BY <1>5 DEF GoesThrough, EnterGate, server
  <2>2. \A i \in Waiters : Id(i) \in asleep' => i \in jobs'
    BY <2>1
  <2> QED  BY <1>0, <1>1, <2>1, <2>2
<1>6. ASSUME NEW j \in jobs, Refuse(j) \/ First(j) \/ Second(j) \/ DbFault(j), UNCHANGED asleep
      PROVE  asleep' \subseteq {Id(i) : i \in {k \in jobs' : k.stage = "sent" /\ ~Refused(k)'}}
  <2>1. UNCHANGED <<known, runs, asleep>>
    BY <1>6 DEF Refuse, First, Second, DbFault
  <2>2. j \notin Waiters
    BY <1>6 DEF Refuse, First, Second, DbFault
  <2>3. jobs \ {j} \subseteq jobs'
    BY <1>6 DEF Refuse, First, Second, DbFault, Fail, Succeed
  <2> QED  BY <1>2, <2>1, <2>2, <2>3
<1>7. ASSUME NEW j \in jobs, LosesRequest(j)
      PROVE  asleep' \subseteq {Id(i) : i \in {k \in jobs' : k.stage = "sent" /\ ~Refused(k)'}}
  <2>1. UNCHANGED <<known, runs, asleep>> /\ jobs' = jobs \ {j} /\ Id(j) \notin asleep
    BY <1>7 DEF LosesRequest, LoseRequest, server, Asleep
  <2>2. \A i \in Waiters : Id(i) \in asleep' => i \in jobs'
    BY <2>1
  <2> QED  BY <1>0, <1>1, <2>1, <2>2
<1>8. ASSUME NEW j \in jobs, LosesAnswer(j)
      PROVE  asleep' \subseteq {Id(i) : i \in {k \in jobs' : k.stage = "sent" /\ ~Refused(k)'}}
  <2>1. UNCHANGED <<known, runs, asleep>> /\ jobs' = (jobs \ {j}) \cup {[j EXCEPT !.own = FALSE]}
    BY <1>8 DEF LosesAnswer, LoseAnswer, server
  <2>2. [j EXCEPT !.own = FALSE].stage = j.stage /\ Id([j EXCEPT !.own = FALSE]) = Id(j)
    BY <1>0 DEF Jobs, Id
  <2>3. \A i \in Waiters : Stays(Id(i))
    BY <2>1, <2>2
  <2> QED  BY <1>0, <1>1, <2>1, <2>3
<1>9. CASE Crashes
  BY <1>9 DEF Crashes
<1>10. CASE Killed
  <2>1. UNCHANGED <<known, runs, asleep>> /\ jobs' = {[j EXCEPT !.own = FALSE] : j \in jobs}
    BY <1>10 DEF Killed, Kill, server
  <2>2. \A j \in jobs : [j EXCEPT !.own = FALSE].stage = j.stage /\ Id([j EXCEPT !.own = FALSE]) = Id(j)
    BY <1>0 DEF Jobs, Id
  <2>3. \A i \in Waiters : Stays(Id(i))
    BY <2>1, <2>2
  <2> QED  BY <1>0, <1>1, <2>1, <2>3
<1>11. CASE Start /\ UNCHANGED waits
  BY <1>0, <1>1, <1>11 DEF Start, waits
<1>12. CASE (ClientGoes \/ Ends \/ (User /\ UNCHANGED waits))
  <2>1. UNCHANGED <<known, runs, asleep>> /\ jobs \subseteq jobs'
    BY <1>12 DEF ClientGoes, Ends, waits, User, WriteFile, MakeDir, RemoveTree, Edit, Quit, Client, Ask,
       ProbeErased, ProbeErasedDone, ProbeCreated, ProbeDone, NextCycle, ErasedFile, ErasedDir, CreatedOrModified,
       IteratorThrows, ScanDone, HashItem, ReadItem, GiveUp, Send, server
  <2> QED  BY <1>2, <2>1
<1> QED  BY <1>3, <1>4, <1>5, <1>6, <1>7, <1>8, <1>9, <1>10, <1>11, <1>12 DEF WaitNext, Goes, StatementFails

\* Nobody sleeps who is not at a gate, and a client that is gone waits for nothing.
THEOREM WaitTypeCorrect == WaitSpec => []WaitTypeOK
<1>1. ASSUME WaitInit PROVE WaitTypeOK
  <2>1. asleep = {} /\ silent = 0 /\ ~overtaken /\ overtaken \in BOOLEAN
    BY <1>1 DEF WaitInit
  <2> QED  BY <2>1 DEF WaitTypeOK
<1>2. AllTypes /\ Owned /\ WaitTypeOK /\ [WaitNext]_waitVars => WaitTypeOK'
  <2> SUFFICES ASSUME AllTypes, Owned, WaitTypeOK, [WaitNext]_waitVars PROVE WaitTypeOK'
    OBVIOUS
  <2>1. jobs \subseteq Jobs
    BY DEF AllTypes
  <2>2. silent \in Nat /\ (phase = "off" => silent = 0 /\ Own = {}) /\ overtaken \in BOOLEAN /\ (overtaken => AtPool)
    BY DEF WaitTypeOK, Owned, Own
  <2> DEFINE Now == /\ silent \in Nat /\ (phase = "off" => silent = 0)
                    /\ overtaken \in BOOLEAN /\ (overtaken => AtPool)
  \* Who notifies leaves the sender where it is.
  <2>3. ASSUME Notifies, UNCHANGED client
        PROVE  overtaken' \in BOOLEAN /\ (overtaken' => AtPool')
    BY <2>2, <2>3 DEF Notifies, PoolFull, AtPool, client
  <2>4. Now'
    <3>1. CASE UNCHANGED waitVars \/ FallsSilent \/ WakesSpuriously \/ (\E j \in jobs : Sleeps(j) \/ GoesThrough(j))
      <4>1. UNCHANGED client /\ (UNCHANGED overtaken \/ overtaken' = FALSE)
        BY <3>1 DEF waitVars, vars, waits, FallsSilent, WakesSpuriously, Sleeps, GoesThrough, EnterGate, client
      <4>2. UNCHANGED silent \/ (silent' = 1 /\ phase # "off")
        BY <3>1 DEF waitVars, waits, FallsSilent, Exchanging, WakesSpuriously, Sleeps, GoesThrough
      <4>3. silent' \in Nat /\ (phase' = "off" => silent' = 0)
        BY <2>2, <4>1, <4>2 DEF client
      <4>4. AtPool' <=> AtPool
        BY <4>1 DEF client, AtPool
      <4>5. CASE UNCHANGED overtaken
        BY <2>2, <4>3, <4>4, <4>5
      <4>6. CASE overtaken' = FALSE
        BY <4>3, <4>6
      <4> QED  BY <4>1, <4>5, <4>6
    <3>2. ASSUME NEW j \in jobs, Refuse(j) \/ First(j) \/ Second(j) \/ DbFault(j), UNCHANGED silent, Notifies
          PROVE  Now'
      <4>1. UNCHANGED client
        BY <3>2 DEF Refuse, First, Second, DbFault
      <4> QED  BY <2>2, <2>3, <3>2, <4>1 DEF client
    <3>3. CASE \E j \in jobs : LosesRequest(j) \/ LosesAnswer(j)
      <4>1. UNCHANGED client /\ Notifies /\ silent' \in Nat /\ (phase = "off" => UNCHANGED silent)
        BY <2>2, <3>3 DEF LosesRequest, LoseRequest, LosesAnswer, LoseAnswer, Lost, Own
      <4> QED  BY <2>2, <2>3, <4>1 DEF client
    <3>4. CASE Crashes
      <4>1. UNCHANGED client /\ Notifies /\ UNCHANGED silent
        BY <3>4 DEF Crashes, Crash
      <4> QED  BY <2>2, <2>3, <4>1 DEF client
    <3>5. CASE Killed \/ ((User \/ Start) /\ UNCHANGED waits)
      <4>1. CASE Killed
        BY <4>1 DEF Killed
      <4>2. CASE User /\ UNCHANGED waits
        BY <2>2, <4>2 DEF waits, User, WriteFile, MakeDir, RemoveTree, Edit, client, AtPool
      <4>3. CASE Start /\ UNCHANGED waits
        <5>1. phase = "off" => item = None
          BY DEF AllTypes, Started, Loops
        <5>2. silent = 0 /\ ~overtaken
          BY <2>2, <4>3, <5>1 DEF Start, AtPool
        <5> QED  BY <2>2, <4>3, <5>2 DEF waits
      <4> QED  BY <3>5, <4>1, <4>2, <4>3
    <3>6. CASE Ends
      BY <2>2, <3>6 DEF waits, Ends, Quit, AtPool
    <3>7. CASE ClientGoes
      <4>1. ~overtaken /\ UNCHANGED waits
        BY <3>7 DEF ClientGoes, Hanging
      <4>2. CASE Ask \/ ProbeDone \/ GiveUp
        BY <2>2, <3>7, <4>1, <4>2 DEF waits, ClientGoes, Hanging, Ask, ProbeDone, GiveUp, AtBarrier, ProbeWaits
      <4>3. CASE ~(Ask \/ ProbeDone \/ GiveUp)
        BY <2>2, <3>7, <4>1, <4>3 DEF waits, ClientGoes, Client, ProbeErased, ProbeErasedDone, ProbeCreated, NextCycle,
           FirstLoop, ErasedFile, ErasedDir, CreatedOrModified, IteratorThrows, Halt, ScanDone, HashItem, ReadItem, Send
      <4> QED  BY <4>2, <4>3
    <3> QED  BY <3>1, <3>2, <3>3, <3>4, <3>5, <3>6, <3>7 DEF WaitNext, Goes, StatementFails
  <2> QED  BY <2>1, <2>4, SleepersKept DEF WaitTypeOK
<1> QED  BY <1>1, <1>2, WaitsAreBackup, BackupTypes, StoreInvariant, PTL DEF WaitSpec, Clean
=============================================================================
