------------------------------ MODULE Restore ------------------------------
(***************************************************************************)
(* Client_API::restore: the client empties the user's directory, asks the  *)
(* server which paths it has, and gets every one of them in a thread of    *)
(* its own, through the pool of ClientPool.  The callbacks that save what  *)
(* arrived pass one at a time through a gate of their own in               *)
(* get_and_save_ (m_, cv_, active_thread_), built as the one of            *)
(* Server::push: PushGate, with one gate and the gets as its workers.      *)
(*                                                                         *)
(* The server holds any tree and any rows: files without rows, rows whose  *)
(* file is lost or has other contents.  Backup_proofs shows that it never  *)
(* leaves the server with more (BackupSuitsRestore).  Nobody changes the   *)
(* stores while they are asked.                                            *)
(***************************************************************************)
EXTENDS ServerStore, ClientPool

CONSTANTS Rank,        \* the order of the paths in the std::set of restore
          Kinds,       \* what there can be at a path: subsets of {"file", "dir"}
          Root,        \* the client's gate
          None,
          Possible     \* the faults that can happen: subset of {"lose", "refuse"}

ASSUME RestoreAssumption ==
    /\ Requests = Paths    \* the request that gets a path
    /\ Rank \in [Paths -> Nat] /\ \A p, q \in Paths : p # q => Rank[p] # Rank[q]
    /\ Kinds \in [Paths -> SUBSET {"file", "dir"}]
    /\ None \notin Paths /\ None # Root

VARIABLES
    local,                     \* the user's directory
    phase,                     \* what restore is doing
    todo,                      \* the paths not asked for yet
    saved,                     \* each get: not yet at its end, or how it ended
    pc, sess, mutex, gate,     \* the gets at the gate, as in PushGate
    disk, db                   \* the server's stores

Gate == INSTANCE PushGate WITH Workers <- Paths, Sessions <- {Root}, active <- gate

gateVars == <<pc, sess, mutex, gate>>
mainVars == <<local, phase, todo>>
store    == <<disk, db>>
vars     == <<poolVars, mainVars, saved, gateVars, store>>

Init == /\ PoolInit
        /\ local \in TreesOf(Kinds) /\ phase = "wipe" /\ todo = {}
        /\ saved = [p \in Paths |-> "no"]
        /\ Gate!Init
        /\ disk \in TreesOf(Kinds) /\ db \in RowsOf(Kinds)

Fault(what) == what \in Possible
Alive == phase # "crashed"
Least(S) == CHOOSE p \in S : \A q \in S : Rank[p] <= Rank[q]

-----------------------------------------------------------------------------
\* The main thread.

\* Mutant: what the directory holds stays.
WipeNothing == /\ phase = "wipe" /\ phase' = "ask"
               /\ UNCHANGED <<poolVars, local, todo, saved, gateVars, store>>

\* fs::remove_all(root_path_), fs::create_directory(root_path_).
Wipe == /\ phase = "wipe" /\ phase' = "ask"
        /\ local' = [p \in Paths |-> Absent]
        /\ UNCHANGED <<poolVars, todo, saved, gateVars, store>>

\* The paths are asked for; without an answer the restore has failed.
Ask == /\ phase = "ask"
       /\ \/ phase' = "get" /\ todo' = Listed(db)
          \/ Fault("lose") /\ phase' = "failed" /\ UNCHANGED todo
       /\ UNCHANGED <<poolVars, local, saved, gateVars, store>>

\* The loop over the paths hands each to the pool.
Get == /\ phase = "get" /\ todo # {}
       /\ \/ Submit(Least(todo)) /\ todo' = todo \ {Least(todo)}
          \/ (Full \/ Wait) /\ UNCHANGED todo
       /\ UNCHANGED <<local, phase, saved, gateVars, store>>

PoolWakes == /\ Alive /\ SpuriousWakeUp
             /\ UNCHANGED <<mainVars, saved, gateVars, store>>

\* After the last path all gets are waited for; Client::restore returns.
GetsDone == /\ phase = "get" /\ todo = {} /\ WaitAll
            /\ phase' = IF status' THEN "done" ELSE "failed"
            /\ UNCHANGED <<local, todo, saved, gateVars, store>>

-----------------------------------------------------------------------------
\* The thread that gets p.

\* The answer is there, and the callback reaches the gate.
Answered(p) == /\ Alive /\ thread[p] = "running" /\ saved[p] = "no"
               /\ Gate!Enter(p, Root)
               /\ UNCHANGED <<poolVars, mainVars, saved, store>>

\* The connection breaks before the answer: the message that was to hold it is
\* an error, and the callback returns false.
NoAnswer(p) == /\ Alive /\ thread[p] = "running" /\ saved[p] = "no" /\ pc[p] = "idle"
               /\ Fault("lose")
               /\ saved' = [saved EXCEPT ![p] = "failed"]
               /\ UNCHANGED <<poolVars, mainVars, gateVars, store>>

\* No connection can be made: there is no message, the callback asks a null
\* pointer whether it is okay, and the process dies.
Refused(p) == /\ Alive /\ thread[p] = "running" /\ saved[p] = "no" /\ pc[p] = "idle"
              /\ Fault("refuse")
              /\ phase' = "crashed"
              /\ UNCHANGED <<poolVars, local, todo, saved, gateVars, store>>

\* The gate's wait, as in PushGate.
AtGate(p) == /\ Alive
             /\ Gate!Lock(p) \/ Gate!Test(p) \/ Gate!Block(p) \/ Gate!Claim(p)
             /\ UNCHANGED <<poolVars, mainVars, saved, store>>

GateWakes(p) == /\ Alive /\ Gate!SpuriousWake(p)
                /\ UNCHANGED <<poolVars, mainVars, saved, store>>

\* Mutant: the ancestors are not made first.
DeliverFlat(p) ==
    IF disk[p] \in Contents THEN WriteOnFile(local, p, disk[p]) ELSE CreateDirectory(local, p)

\* What the callback makes of the answer: Server::get has sent a file's
\* contents, or said that p is a directory.
Deliver(p) ==
    LET tree == CreateDirs(local, p)
    IN IF disk[p] \in Contents THEN WriteOnFile(tree, p, disk[p]) ELSE CreateDirectory(tree, p)

DeliverThrows(p) ==
    \/ CreateDirsThrows(local, p)
    \/ disk[p] \notin Contents /\ CreateDirectoryThrows(CreateDirs(local, p), p)

\* The body, which the gate keeps from the others', and the clearing of the flag.
Save(p) == /\ Alive /\ Gate!Finish(p)
           /\ IF DeliverThrows(p)
              THEN saved' = [saved EXCEPT ![p] = "failed"] /\ UNCHANGED local
              ELSE saved' = [saved EXCEPT ![p] = "saved"] /\ local' = Deliver(p)
           /\ UNCHANGED <<poolVars, phase, todo, store>>

LeaveGate(p) == /\ Alive /\ Gate!Notify(p)
                /\ UNCHANGED <<poolVars, mainVars, saved, store>>

\* The callback has returned; the pool's own epilogue.
EndOfThread(p) == /\ Alive
                  /\ \/ saved[p] # "no" /\ pc[p] = "idle" /\ CountDown(p, saved[p] = "saved")
                     \/ Tell(p)
                  /\ UNCHANGED <<mainVars, saved, gateVars, store>>

-----------------------------------------------------------------------------
Main == Wipe \/ Ask \/ Get \/ GetsDone
Thread(p) == \/ Answered(p) \/ NoAnswer(p) \/ Refused(p) \/ AtGate(p) \/ Save(p) \/ LeaveGate(p)
             \/ EndOfThread(p)

Next == Main \/ PoolWakes \/ \E p \in Paths : Thread(p) \/ GateWakes(p)

Spec == Init /\ [][Next]_vars

\* All threads run, and the gate's mutex is granted in the end.
FairSpec == /\ Spec
            /\ WF_vars(Main)
            /\ \A p \in Paths : WF_vars(Thread(p)) /\ SF_vars(AtGate(p) /\ Gate!Lock(p))

-----------------------------------------------------------------------------
\* The values the variables take.
TypeOK == /\ PoolTypeOK /\ Gate!TypeOK
          /\ local \in [Paths -> Nodes] /\ todo \subseteq Paths
          /\ phase \in {"wipe", "ask", "get", "done", "failed", "crashed"}
          /\ saved \in [Paths -> {"no", "saved", "failed"}]

\* A restore that returns true has put back all the server has and nothing
\* else, in whatever order the gets came back and passed the gate.
Restored == phase = "done" /\ Consistent(disk, db) => \A p \in Paths : local[p] = Wanted(disk, db, p)

\* From its start to its end, and when it has failed half-way, a restore leaves
\* nothing that the server does not have: what is missing then is all that a
\* probe can find wrong with the directory.
NothingForeign == phase # "wipe" /\ Consistent(disk, db) =>
                      \A p \in Paths : local[p] \in {Absent, Wanted(disk, db, p)}

\* A waiter has tested what it waits for, does not sleep yet, and what it
\* waits for has come: the notification may find nobody.
Overtaken == \/ caller = "blocks" /\ active < MaxThreads
             \/ \E p \in Paths : pc[p] = "block" /\ ~gate[Root]

\* A restore comes to an end unless a waiter was overtaken, at the pool or at
\* the gate: no other order of tests, waits and notifications can hang it.
EndsUnlessOvertaken == <>Overtaken \/ <>[](phase \in {"done", "failed", "crashed"})
=============================================================================
