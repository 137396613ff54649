------------------------------- MODULE Backup -------------------------------
(***************************************************************************)
(* The backup of one user, end to end.  A user edits a directory; the      *)
(* client's file watcher scans it and turns what it finds into pushes;     *)
(* pushes are asynchronous, at most MaxJobs at a time; the server's        *)
(* workers apply them to the two stores of ServerStore, one at a time per  *)
(* session but in any order; requests and answers get lost; the server     *)
(* crashes between the two stores; the client is killed and started again, *)
(* and probes the server before it watches.                                *)
(*                                                                         *)
(* The gate of Server::push is an atomic lock per session here, which is   *)
(* what PushGate implements as far as safety goes; who waits at it without *)
(* end, and for whom, is in BackupWaits.  Every start of the client logs   *)
(* in and so has a session, and a gate, of its own.                        *)
(***************************************************************************)
EXTENDS ServerStore, Naturals, FiniteSets

CONSTANTS Rank,        \* the order of the paths as strings: a map iterates by it
          Kinds,       \* what the user may put at a path: subsets of {"file", "dir"}
          Empty,       \* the contents an unreadable file is read as
          None,        \* no item
          MaxJobs,     \* Client_socket_API.h: MAX_THREADS
          MaxEdits,    \* bound: edits of the user
          MaxRuns,     \* bound: starts of the client
          MaxFaults    \* bound: for each kind of fault, how often it happens

ASSUME BackupAssumption ==
    /\ Rank \in [Paths -> Nat] /\ \A p, q \in Paths : p # q => Rank[p] # Rank[q]
    /\ \A p \in Paths : \A a \in Ancestors[p] : Rank[a] < Rank[p]
    /\ Kinds \in [Paths -> SUBSET {"file", "dir"}]
    /\ Empty \in Contents
    /\ MaxJobs \in Nat \ {0} /\ MaxEdits \in Nat /\ MaxRuns \in Nat
    /\ MaxFaults \in [{"crash", "db", "lose", "kill"} -> Nat]

VARIABLES
    local,     \* the user's directory
    edits,     \* edits made so far
    phase,     \* what the client is doing
    todo,      \* the paths the current loop has still to visit
    item,      \* the element being pushed by the client's main or watcher thread
    files,     \* FileWatcher::files_: path to hash, Absent if the map has no entry
    dirs,      \* FileWatcher::dirs_
    schema,    \* the rows in the server's answer to the probe
    fresh,     \* the watcher's cycle is not Client_API's fw_cycle_ yet
    sent,      \* the probe has pushed something
    failed,    \* a push has failed since the last wait_all_async
    jobs,      \* the pushes in flight
    known,     \* the server knows the client's session
    disk, db,  \* the server's two stores
    runs,      \* starts of the client so far: the id of its session
    faults,    \* faults so far, by kind
    suspect    \* history: paths whose backup a known race or fault has spoiled

user   == <<local, edits>>
watch  == <<files, dirs>>
client == <<phase, todo, item, files, dirs, schema, fresh, sent>>
server == <<known, disk, db>>
vars   == <<local, edits, phase, todo, item, files, dirs, schema, fresh, sent,
            failed, jobs, known, disk, db, runs, faults, suspect>>

FileKinds == {"createdFile", "modifiedFile"}
Erasures  == {"erasedFile", "erasedDir"}
PushKinds == FileKinds \cup {"createdDir"} \cup Erasures

Items == [path : Paths, kind : PushKinds, hash : Contents \cup {Dir},
          data : Contents, at : {"hash", "read", "send"}]
ASSUME NoneAssumption == None \notin Items
Jobs == [sess : 1..MaxRuns, path : Paths, kind : PushKinds, hash : Contents \cup {Dir},
         data : Contents, stage : {"sent", "first", "second"}, own : BOOLEAN]

\* Trees the user can have made.
Trees == {t \in TreesOf(Kinds) : \A p \in Paths : t[p] # Empty}

Init ==
    /\ local \in Trees /\ edits = 0
    /\ phase = "off" /\ todo = {} /\ item = None
    /\ files = [p \in Paths |-> Absent] /\ dirs = {}
    /\ schema = [p \in Paths |-> NoRow] /\ fresh = FALSE /\ sent = FALSE
    /\ failed = FALSE /\ jobs = {} /\ known = FALSE
    /\ disk = [p \in Paths |-> Absent] /\ db = [p \in Paths |-> NoRow]
    /\ runs = 0 /\ faults = [k \in DOMAIN MaxFaults |-> 0] /\ suspect = {}

\* Something goes wrong once more.
Fault(k) == faults[k] < MaxFaults[k] /\ faults' = [faults EXCEPT ![k] = @ + 1]

-----------------------------------------------------------------------------
\* The user.

Edit(tree) == /\ edits < MaxEdits
              /\ edits' = edits + 1
              /\ local' = tree
              /\ UNCHANGED <<client, failed, jobs, server, runs, faults, suspect>>

WriteFile(p) == /\ "file" \in Kinds[p] /\ local[p] # Dir /\ ParentIsDir(local, p)
                /\ \E c \in Contents \ {Empty, local[p]} :
                      Edit([local EXCEPT ![p] = c])

MakeDir(p) == /\ "dir" \in Kinds[p] /\ local[p] = Absent /\ ParentIsDir(local, p)
              /\ Edit([local EXCEPT ![p] = Dir])

RemoveTree(p) == local[p] # Absent /\ Edit(RemoveAll(local, p))

User == \E p \in Paths : WriteFile(p) \/ MakeDir(p) \/ RemoveTree(p)

-----------------------------------------------------------------------------
\* Helpers of the client.

Own == {j \in jobs : j.own}
Present(p) == local[p] # Absent
IsFile(p) == local[p] \in Contents

\* Mutant: nothing is made of a file that cannot be read.
ReadRaw(p) == local[p]

\* Reading a path that is not a readable file yields no bytes.
ReadFromFile(p) == IF IsFile(p) THEN local[p] ELSE Empty

\* Utils::SHA256 reads on its own.  A path that is gone cannot be opened, and
\* it throws; a directory can be, and hashes as no bytes.
SHA256Throws(p) == ~Present(p)
SHA256(p) == ReadFromFile(p)

\* FileWatcher::get_elements: the files with their hashes, the directories
\* with the empty hash; a path in both is inserted as a file.
Elements == {p \in Paths : files[p] # Absent} \cup dirs
HashOf(p) == IF files[p] # Absent THEN files[p] ELSE Dir
SchemaHash(p) == IF schema[p] = DirRow THEN Dir ELSE schema[p]

\* What the watcher has on record for p.
View(p) == IF p \in Elements THEN HashOf(p) ELSE Absent

Least(S) == CHOOSE p \in S : \A q \in S : Rank[p] <= Rank[q]
Greatest(S) == CHOOSE p \in S : \A q \in S : Rank[q] <= Rank[p]

\* The call push(...) of the loop body: from here the main or the watcher
\* thread is busy with this element.
Push(p, k, h, at) == item' = [path |-> p, kind |-> k, hash |-> h, data |-> Empty, at |-> at]

Visit(p) == p \in todo /\ item = None /\ todo' = todo \ {p}

-----------------------------------------------------------------------------
\* Start and probe.

\* FileWatcher::init, as one look at the directory.
InitWatcher == /\ files' = [p \in Paths |-> IF IsFile(p) THEN SHA256(p) ELSE Absent]
               /\ dirs' = {p \in Paths : local[p] = Dir}

\* The client is started: it logs in, which gives it a session of its own,
\* and scans the directory.  Pushes of an earlier client
\* that the server has not finished go on under their old session: their
\* paths are suspect.
Start ==
    /\ phase = "off" /\ runs < MaxRuns
    /\ runs' = runs + 1
    /\ known' = TRUE
    /\ InitWatcher
    /\ phase' = "ask" /\ todo' = {} /\ item' = None
    /\ fresh' = FALSE /\ sent' = FALSE /\ failed' = FALSE
    /\ UNCHANGED <<user, schema, jobs, disk, db, faults, suspect>>

\* The probe's request is answered with the rows; if it is refused or lost the
\* client ends.
Ask == /\ phase = "ask"
       /\ \/ /\ known
             /\ schema' = db
             /\ todo' = {p \in Paths : db[p] # NoRow} \ Elements
             /\ phase' = "probeErased" /\ UNCHANGED faults
          \/ /\ (~known /\ UNCHANGED faults) \/ Fault("lose")
             /\ phase' = "off" /\ UNCHANGED <<schema, todo>>
       /\ UNCHANGED <<user, item, watch, fresh, sent, failed, jobs, server, runs, suspect>>

\* Every element of the answer the watcher does not have is erased: as a
\* directory if it was answered with the empty hash, else as a file.
ProbeErased(p) ==
    /\ phase = "probeErased" /\ Visit(p)
    /\ Push(p, IF SchemaHash(p) = Dir THEN "erasedDir" ELSE "erasedFile", Dir, "send")
    /\ UNCHANGED <<user, phase, watch, schema, fresh, sent, failed, jobs, server, runs, faults, suspect>>

ProbeErasedDone ==
    /\ phase = "probeErased" /\ todo = {} /\ item = None
    /\ phase' = "probeCreated" /\ todo' = Elements
    /\ UNCHANGED <<user, item, watch, schema, fresh, sent, failed, jobs, server, runs, faults, suspect>>

\* Every element of the watcher is compared with its row.  What is at the
\* path is looked up now; the hash is the one of the scan.  An element that
\* is away at this moment is passed over, though it may be back when the
\* watcher looks for erased ones.
ProbeCreated ==
    /\ phase = "probeCreated" /\ todo # {}
    /\ LET p == Least(todo)
       IN /\ Visit(p)
          /\ IF IsFile(p) /\ schema[p] = NoRow
             THEN Push(p, "createdFile", HashOf(p), "read")
             ELSE IF IsFile(p) /\ SchemaHash(p) # HashOf(p)
             THEN Push(p, "modifiedFile", HashOf(p), "read")
             ELSE IF local[p] = Dir /\ schema[p] = NoRow
             THEN Push(p, "createdDir", HashOf(p), "send")
             ELSE item' = None
          /\ suspect' = IF item' = None /\ SchemaHash(p) # HashOf(p)
                        THEN suspect \cup {p} ELSE suspect
    /\ UNCHANGED <<user, phase, watch, schema, fresh, sent, failed, jobs, server, runs, faults>>

\* Mutant: the loop over files_ starts where the last one ended.
LoopOverNothing == /\ phase' = "scanFiles" /\ todo' = {}
                   /\ fresh' = TRUE

\* FileWatcher::start enters a cycle of its own number.
FirstLoop == /\ phase' = "scanFiles" /\ todo' = {p \in Paths : files[p] # Absent}
             /\ fresh' = TRUE

\* Mutant: the probe does not ask wait_all_async how its pushes went.
ProbeIgnoresFailures ==
    /\ phase = "probeCreated" /\ todo = {} /\ item = None
    /\ sent => Own = {}
    /\ FirstLoop
    /\ failed' = FALSE
    /\ schema' = [p \in Paths |-> NoRow] /\ sent' = FALSE
    /\ UNCHANGED <<user, item, watch, jobs, server, runs, faults, suspect>>

\* The probe waits for its pushes; one failure makes it fail and the client
\* end.  Without pushes it exchanges an okay, which an unknown session is
\* refused.  An okay that is lost makes it fail as well, unless it is lost
\* before the answer begins: then api_ still holds the rows' message, and that
\* one is okay.
ProbeDone ==
    /\ phase = "probeCreated" /\ todo = {} /\ item = None
    /\ \/ /\ IF sent THEN Own = {} /\ ~failed ELSE known
          /\ FirstLoop /\ UNCHANGED faults
       \/ /\ IF sent THEN Own = {} /\ failed ELSE ~known
          /\ phase' = "off" /\ UNCHANGED <<todo, fresh, faults>>
       \/ /\ ~sent /\ Fault("lose")
          /\ FirstLoop \/ (phase' = "off" /\ UNCHANGED <<todo, fresh>>)
    /\ failed' = FALSE
    /\ schema' = [p \in Paths |-> NoRow] /\ sent' = FALSE
    /\ UNCHANGED <<user, item, watch, jobs, server, runs, suspect>>
-----------------------------------------------------------------------------
\* The watcher's cycle: find_erased over files_ and dirs_, then
\* find_created_or_modified over the tree.

Watching == {"scanFiles", "scanDirs", "scanTree", "sleep"}

NextCycle ==
    /\ phase = "sleep"
    /\ FirstLoop
    /\ UNCHANGED <<user, item, watch, schema, sent, failed, jobs, server, runs, faults, suspect>>

ErasedFile ==
    /\ phase = "scanFiles" /\ todo # {}
    /\ LET p == Least(todo)
       IN /\ Visit(p)
          /\ IF Present(p) THEN item' = None ELSE Push(p, "erasedFile", Dir, "send")
    /\ UNCHANGED <<user, phase, watch, schema, fresh, sent, failed, jobs, server, runs, faults, suspect>>

ErasedDir ==
    /\ phase = "scanDirs" /\ todo # {}
    /\ LET p == Greatest(todo)
       IN /\ Visit(p)
          /\ IF Present(p) THEN item' = None ELSE Push(p, "erasedDir", Dir, "send")
    /\ UNCHANGED <<user, phase, watch, schema, fresh, sent, failed, jobs, server, runs, faults, suspect>>

\* The recursive directory iterator comes to p, a parent before its children:
\* where it does not find a directory it does not descend.  A file with a hash
\* on record is looked at again if its time has changed; every write changes
\* it here.
CreatedOrModified ==
    /\ phase = "scanTree" /\ todo # {}
    /\ LET p == Least(todo)
       IN /\ item = None
          /\ todo' = todo \ ({p} \cup IF local[p] = Dir THEN {} ELSE Below(p))
          /\ IF IsFile(p) /\ files[p] = Absent
             THEN Push(p, "createdFile", Dir, "hash") /\ UNCHANGED dirs
             ELSE IF IsFile(p) /\ files[p] # local[p]
             THEN Push(p, "modifiedFile", Dir, "hash") /\ UNCHANGED dirs
             ELSE IF local[p] = Dir /\ p \notin dirs
             THEN Push(p, "createdDir", Dir, "send") /\ dirs' = dirs \cup {p}
             ELSE item' = None /\ UNCHANGED dirs
    /\ UNCHANGED <<user, phase, files, schema, fresh, sent, failed, jobs, server, runs, faults, suspect>>

\* The watcher's thread ends with an exception that nobody looks at (the
\* future in Client::f_), and the program goes on without it.
Halt == phase' = "halted" /\ item' = None /\ todo' = {}

\* A directory that was found is gone when the iterator opens it: it throws.
IteratorThrows ==
    /\ phase = "scanTree" /\ todo # {} /\ item = None
    /\ ~ParentIsDir(local, Least(todo))
    /\ Halt
    /\ UNCHANGED <<user, watch, schema, fresh, sent, failed, jobs, server, runs, faults, suspect>>

\* Each loop of the cycle ends, the next one begins.
ScanDone ==
    /\ phase \in {"scanFiles", "scanDirs", "scanTree"} /\ todo = {} /\ item = None
    /\ \/ phase = "scanFiles" /\ phase' = "scanDirs" /\ todo' = dirs
       \/ phase = "scanDirs"  /\ phase' = "scanTree" /\ todo' = Paths
       \/ phase = "scanTree"  /\ phase' = "sleep"    /\ todo' = {}
    /\ UNCHANGED <<user, item, watch, schema, fresh, sent, failed, jobs, server, runs, faults, suspect>>

\* SHA256 of the element: it may have changed, or gone, since it was looked
\* up.  A missing file throws.
HashItem ==
    /\ item # None /\ item.at = "hash"
    /\ LET p == item.path
           h == SHA256(p)
       IN IF SHA256Throws(p)
          THEN Halt /\ UNCHANGED files
          ELSE /\ files' = [files EXCEPT ![p] = h]
               /\ item' = IF files[p] = h THEN None
                          ELSE [item EXCEPT !.hash = h, !.at = "read"]
               /\ UNCHANGED <<phase, todo>>
    /\ UNCHANGED <<user, dirs, schema, fresh, sent, failed, jobs, server, runs, faults, suspect>>

\* Utils::read_from_file: the contents that will be sent are read on their own,
\* after the hash, and before anything is waited for.
ReadItem ==
    /\ item # None /\ item.at = "read"
    /\ item' = [item EXCEPT !.data = ReadFromFile(item.path), !.at = "send"]
    /\ UNCHANGED <<user, phase, todo, watch, schema, fresh, sent, failed, jobs, server, runs, faults, suspect>>

-----------------------------------------------------------------------------
\* Client_API::push and the pushes in flight.

\* What sending this item spoils, if anything: contents that are not those of
\* the hash, and a creation while the erasure of the same path is in flight
\* and no row would make the creation fail if it came first.
Spoils ==
    {p \in {item.path} :
        /\ item.kind \in FileKinds \cup {"createdDir"}
        /\ \/ item.kind \in FileKinds /\ item.data # item.hash
           \/ /\ db[p] = NoRow
              /\ \E j \in jobs : j.path = p /\ j.kind \in Erasures}

\* Mutant: fw_cycle is not compared.
NoBarrier == TRUE

\* The barrier: the first push of a watcher's cycle waits for those of the
\* earlier ones, and learns whether they failed.  If so the client ends
\* (FileWatcher::start returns false; Client::run exits).
Barrier == fresh => Own = {}

GiveUp ==
    /\ item # None /\ item.at = "send" /\ fresh /\ Own = {} /\ failed
    /\ phase' = "off" /\ item' = None /\ todo' = {} /\ fresh' = FALSE /\ failed' = FALSE
    /\ UNCHANGED <<user, watch, schema, sent, jobs, server, runs, faults, suspect>>

\* The push is handed to a thread of its own as soon as fewer than MaxJobs
\* run; the caller goes on.  After an erasure it drops the element.
Send ==
    /\ item # None /\ item.at = "send" /\ Barrier /\ ~(fresh /\ failed)
    /\ Cardinality(Own) < MaxJobs
    /\ jobs' = jobs \cup {[sess |-> runs, path |-> item.path, kind |-> item.kind,
                           hash |-> item.hash, data |-> item.data,
                           stage |-> "sent", own |-> TRUE]}
    /\ files' = IF phase = "scanFiles" THEN [files EXCEPT ![item.path] = Absent] ELSE files
    /\ dirs' = IF phase = "scanDirs" THEN dirs \ {item.path} ELSE dirs
    /\ item' = None /\ fresh' = FALSE
    /\ sent' = (sent \/ phase \in {"probeErased", "probeCreated"})
    /\ suspect' = suspect \cup Spoils
    /\ UNCHANGED <<user, phase, todo, schema, failed, server, runs, faults>>

-----------------------------------------------------------------------------
\* The server's worker that serves push j.

Touched(j) == {j.path} \cup IF j.kind = "erasedDir" THEN Below(j.path) ELSE {}

\* Mutant: no gate.
GateOpen(s) == TRUE

\* The gate of the push's session.
GateFree(s) == ~\E j \in jobs : j.sess = s /\ j.stage # "sent"

\* A push whose session the server does not know is refused.
Refused(j) == j.sess = runs /\ ~known

EnterGate(j) == /\ j.stage = "sent" /\ ~Refused(j) /\ GateFree(j.sess)
                /\ jobs' = (jobs \ {j}) \cup {[j EXCEPT !.stage = "first"]}
                /\ UNCHANGED <<user, client, failed, server, runs, faults, suspect>>

\* What a push that ends after its first store spoils: a path with a row, which
\* the next probe will compare with that row only.
HalfDone(j) == {p \in {j.path} : j.stage = "second" /\ db[p] # NoRow}

\* The push is over and the answer says that it failed.
Fail(j) == /\ jobs' = jobs \ {j}
           /\ failed' = (failed \/ j.own)
           /\ suspect' = suspect \cup HalfDone(j)
           /\ UNCHANGED <<disk, db>>

\* Mutant: the answer is not sent.
SucceedSilently(j) == UNCHANGED <<jobs, suspect, failed>>

\* The push is over and the answer says okay.  A path is good again if no
\* other push works on it and it would now be delivered as it is on record.
Succeed(j) ==
    /\ jobs' = jobs \ {j}
    /\ suspect' = IF /\ j.own /\ ~\E k \in jobs \ {j} : k.path = j.path
                     /\ Agree(disk', db', j.path)
                     /\ Delivered(disk', db', j.path) = View(j.path)
                  THEN suspect \ {j.path} ELSE suspect
    /\ UNCHANGED failed

Refuse(j) == /\ j.stage = "sent" /\ Refused(j)
             /\ Fail(j)
             /\ UNCHANGED <<user, client, known, runs, faults>>

\* The first store a push changes: the disk, except for a modification.  What
\* an erased directory takes with it is spoiled where its row stays behind,
\* or is about to be inserted by a push of another session.
FirstThrows(j) ==
    CASE j.kind \in {"createdFile"} -> CreateDirsThrows(disk, j.path)
      [] j.kind = "createdDir" -> \/ CreateDirsThrows(disk, j.path)
                                  \/ CreateDirectoryThrows(CreateDirs(disk, j.path), j.path)
      [] j.kind = "erasedFile" -> RemoveThrows(disk, j.path)
      [] OTHER -> FALSE

DiskAfterFirst(j) ==
    CASE j.kind = "createdFile" -> WriteOnFile(CreateDirs(disk, j.path), j.path, j.data)
      [] j.kind = "createdDir"  -> CreateDirectory(CreateDirs(disk, j.path), j.path)
      [] j.kind = "erasedFile"  -> Remove(disk, j.path)
      [] j.kind = "erasedDir"   -> RemoveAll(disk, j.path)
      [] OTHER -> disk

First(j) ==
    /\ j.stage = "first"
    /\ IF FirstThrows(j) THEN Fail(j)
       ELSE /\ disk' = DiskAfterFirst(j)
            /\ db' = IF j.kind = "modifiedFile" THEN UpdatePath(db, j.path, j.hash) ELSE db
            /\ jobs' = (jobs \ {j}) \cup {[j EXCEPT !.stage = "second"]}
            /\ suspect' = suspect \cup {p \in Touched(j) \ {j.path} :
                             db[p] # NoRow \/ \E k \in jobs : k.path = p /\ k.stage = "second"}
            /\ UNCHANGED failed
    /\ UNCHANGED <<user, client, known, runs, faults>>

\* The second store: the database, except for a modification.
Second(j) ==
    /\ j.stage = "second"
    /\ IF j.kind \in {"createdFile", "createdDir"} /\ InsertFails(db, j.path) THEN Fail(j)
       ELSE /\ disk' = IF j.kind = "modifiedFile" THEN WriteOnFile(disk, j.path, j.data) ELSE disk
            /\ db' = CASE j.kind = "createdFile" -> InsertPath(db, j.path, j.hash)
                       [] j.kind = "createdDir"  -> InsertPath(db, j.path, DirRow)
                       [] j.kind = "modifiedFile" -> db
                       [] OTHER -> DeletePath(db, j.path)
            /\ Succeed(j)
    /\ UNCHANGED <<user, client, known, runs, faults>>

-----------------------------------------------------------------------------
\* What goes wrong around it.

\* The statement on the database fails (locked, full).
DbFault(j) ==
    /\ Fault("db")
    /\ j.stage = IF j.kind = "modifiedFile" THEN "first" ELSE "second"
    /\ Fail(j)
    /\ UNCHANGED <<user, client, known, runs>>

\* A connection is lost: the client counts a failure.
Lost(j) == Fault("lose") /\ j.own /\ failed' = TRUE

\* It is lost before the request arrived.
LoseRequest(j) ==
    /\ Lost(j) /\ j.stage = "sent"
    /\ jobs' = jobs \ {j}
    /\ UNCHANGED <<user, client, server, runs, suspect>>

\* It is lost before the answer did: the server does the work all the same.
LoseAnswer(j) ==
    /\ Lost(j)
    /\ jobs' = (jobs \ {j}) \cup {[j EXCEPT !.own = FALSE]}
    /\ suspect' = suspect \cup Touched(j)
    /\ UNCHANGED <<user, client, server, runs>>

Lose(j) == LoseRequest(j) \/ LoseAnswer(j)

\* The server dies and is started again: the workers and the sessions are
\* gone, the stores are as the workers left them.
Crash ==
    /\ Fault("crash")
    /\ jobs' = {} /\ known' = FALSE
    /\ failed' = (failed \/ Own # {})
    /\ suspect' = suspect \cup UNION {HalfDone(j) : j \in jobs}
    /\ UNCHANGED <<user, client, disk, db, runs>>

\* The client is killed; the server finishes what it has received.
Kill ==
    /\ Fault("kill") /\ phase # "off"
    /\ phase' = "off" /\ todo' = {} /\ item' = None /\ fresh' = FALSE
    /\ jobs' = {[j EXCEPT !.own = FALSE] : j \in jobs}
    /\ suspect' = suspect \cup UNION {Touched(j) : j \in jobs}
    /\ failed' = FALSE
    /\ UNCHANGED <<user, watch, schema, sent, server, runs>>

\* The user ends the client, also one whose watcher thread is gone: end()
\* waits for the pushes in flight.
Quit ==
    /\ phase \in {"sleep", "halted"} /\ Own = {}
    /\ phase' = "off" /\ failed' = FALSE /\ fresh' = FALSE
    /\ UNCHANGED <<user, todo, item, watch, schema, sent, jobs, server, runs, faults, suspect>>

-----------------------------------------------------------------------------
Client == \/ Ask \/ (\E p \in Paths : ProbeErased(p)) \/ ProbeErasedDone
          \/ ProbeCreated \/ ProbeDone \/ NextCycle \/ ErasedFile \/ ErasedDir
          \/ CreatedOrModified \/ IteratorThrows \/ ScanDone \/ HashItem \/ ReadItem \/ GiveUp \/ Send

Worker == \E j \in jobs : EnterGate(j) \/ Refuse(j) \/ First(j) \/ Second(j)

Faults == (\E j \in jobs : DbFault(j) \/ Lose(j)) \/ Crash \/ Kill

Next == User \/ Start \/ Client \/ Worker \/ Faults \/ Quit

Spec == Init /\ [][Next]_vars

-----------------------------------------------------------------------------
\* The values the variables take.
TypeOK ==
    /\ local \in [Paths -> Nodes] /\ edits \in 0..MaxEdits
    /\ phase \in Watching \cup {"off", "ask", "probeErased", "probeCreated", "halted"}
    /\ todo \subseteq Paths /\ (item = None \/ item \in Items)
    /\ files \in [Paths -> Contents \cup {Absent}] /\ dirs \subseteq Paths
    /\ schema \in [Paths -> Rows] /\ fresh \in BOOLEAN /\ sent \in BOOLEAN
    /\ failed \in BOOLEAN /\ known \in BOOLEAN
    /\ jobs \subseteq Jobs
    /\ disk \in [Paths -> Nodes] /\ db \in [Paths -> Rows]
    /\ runs \in 0..MaxRuns /\ suspect \subseteq Paths
    /\ faults \in [DOMAIN MaxFaults -> Nat]

\* The user never puts a directory where there was a file, nor a file where
\* there was a directory: if he does, the backup goes wrong (KindsMatch).
OneKind == \A p \in Paths : Kinds[p] # {"file", "dir"}

\* A push on p has changed the first store and not the second.
Halfway(p) == \E j \in jobs : j.path = p /\ j.stage = "second"

\* The two stores of the server agree: a row of a file that no push is halfway
\* through has that file on disk, with the contents of its hash.
StoresAgree == OneKind => \A p \in Paths \ suspect :
                  ~Halfway(p) => Agree(disk, db, p)

\* Between two cycles without an outstanding or failed push, a client that
\* asked for everything back would be given what the watcher has on record.
Faithful == OneKind /\ phase = "sleep" /\ Own = {} /\ ~failed =>
               \A p \in Paths \ suspect : Delivered(disk, db, p) = View(p)

\* Two pushes in flight of one session on one path differ in kind, and one of
\* them is an erasure.  A modification is alone: only where the user puts files
\* and directories by turns may the erasure of the directory be beside it.
ModifiesAlone == \A j, k \in jobs :
    j # k /\ j.sess = k.sess /\ j.path = k.path =>
       /\ j.kind # k.kind /\ {j.kind, k.kind} \cap Erasures # {}
       /\ "modifiedFile" \in {j.kind, k.kind} =>
             {j.kind, k.kind} = {"modifiedFile", "erasedDir"} /\ Kinds[j.path] = {"file", "dir"}

\* What the barrier is for: when a cycle sends its first push nothing of the
\* cycles before it and of the probe is with the server any more, not even a
\* push whose answer was lost, which the client does not wait for; and within
\* a cycle no push is sent again while it is in flight.
SentApart == [][Send => \A j \in jobs : j.sess = runs =>
                   ~fresh /\ <<j.path, j.kind>> # <<item.path, item.kind>>]_vars
-----------------------------------------------------------------------------
\* What the documentation says and the code does not keep.

\* Nothing is left to do: the watcher sleeps, no push of its own is in flight
\* or has failed, and its record is the user's directory.  Unless the user
\* edits, no later cycle pushes anything.
AtRest == phase = "sleep" /\ Own = {} /\ ~failed /\ \A p \in Paths : View(p) = local[p]

\* README.md:87: in normal mode the client keeps the server updated of any
\* changes, and the probe before it verifies that the server has every file
\* and folder of the user.
NothingMissed == AtRest => \A p \in Paths : Delivered(disk, db, p) = local[p]

\* The same for what is at a path: a directory of the user is not given back
\* as a file, nor a file as a directory.
KindsMatch == AtRest => \A p \in Paths :
    Delivered(disk, db, p) # Absent => (Delivered(disk, db, p) = Dir <=> local[p] = Dir)

\* The same for the mere presence of files: no row without a file.
NoFileLost == AtRest => \A p \in Paths : db[p] \in Contents => disk[p] \in Contents
=============================================================================
