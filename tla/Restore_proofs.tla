--------------------------- MODULE Restore_proofs ---------------------------
(***************************************************************************)
(* Proofs about Restore, for any tree, any rows, any number of paths and   *)
(* threads: its pool and its gate are those of ClientPool and PushGate,    *)
(* it puts nothing in the directory that the server does not have, and     *)
(* everything when it says so.                                             *)
(***************************************************************************)
EXTENDS Restore, ClientPool_proofs, WellFoundedInduction

GateProofs == INSTANCE PushGate_proofs WITH Workers <- Paths, Sessions <- {Root}, active <- gate

\* The loop's next path is one of those to come.
LEMMA LeastIsThere ==
    ASSUME NEW S \in SUBSET Paths, S # {}
    PROVE  Least(S) \in S
<1> DEFINE T == {Rank[p] : p \in S}
<1>1. T \subseteq Nat /\ T # {}
  BY RestoreAssumption
<1>2. PICK x \in T : \A y \in T : ~(<<y, x>> \in OpToRel(<, Nat))
  <2> HIDE DEF T
  <2> QED  BY <1>1, WFMin, NatLessThanWellFounded
<1>3. \A y \in T : x <= y
  <2> SUFFICES ASSUME NEW y \in T PROVE x <= y
    OBVIOUS
  <2>1. x \in Nat /\ y \in Nat
    BY <1>1
  <2>2. <<y, x>> \in Nat \X Nat /\ <<y, x>>[1] = y /\ <<y, x>>[2] = x
    BY <2>1
  <2>3. ~(y < x)
    BY <1>2, <2>2 DEF OpToRel
  <2> QED  BY <2>1, <2>3
<1>4. \E p \in S : \A q \in S : Rank[p] <= Rank[q]
  BY <1>3
<1> QED  BY <1>4 DEF Least

\* A step of a restore is a step of its pool, or none.
LEMMA PoolStep == todo \subseteq Paths /\ [Next]_vars => [PoolNext]_poolVars
<1> SUFFICES ASSUME todo \subseteq Paths, [Next]_vars PROVE [PoolNext]_poolVars
  OBVIOUS
<1>0. Paths = Requests
  BY RestoreAssumption
<1>1. CASE Wipe \/ Ask
  BY <1>1 DEF Wipe, Ask
<1>2. CASE Get
  <2>1. CASE Submit(Least(todo))
    <3>1. Least(todo) \in Requests
      BY <1>0, <1>2, LeastIsThere DEF Get
    <3> QED  BY <2>1, <3>1 DEF PoolNext
  <2> QED  BY <1>2, <2>1 DEF Get, PoolNext
<1>3. CASE GetsDone \/ PoolWakes
  BY <1>3 DEF GetsDone, PoolWakes, PoolNext
<1>4. ASSUME NEW p \in Paths, Thread(p) \/ GateWakes(p) PROVE [PoolNext]_poolVars
  <2>1. CASE EndOfThread(p)
    <3>1. (saved[p] = "saved") \in BOOLEAN
      OBVIOUS
    <3> QED  BY <1>0, <2>1, <3>1 DEF EndOfThread, PoolNext
  <2> QED  BY <1>4, <2>1 DEF Thread, GateWakes, Answered, NoAnswer, Refused, AtGate, Save, LeaveGate
<1>5. CASE UNCHANGED vars
  BY <1>5 DEF vars
<1> QED  BY <1>1, <1>2, <1>3, <1>4, <1>5 DEF Next, Main

LEMMA GateStep == [Next]_vars => [Gate!Next]_gateVars
<1> SUFFICES ASSUME [Next]_vars PROVE [Gate!Next]_gateVars
  OBVIOUS
<1>1. CASE Main \/ PoolWakes
  BY <1>1 DEF Main, Wipe, Ask, Get, GetsDone, PoolWakes
<1>2. ASSUME NEW p \in Paths, Thread(p) \/ GateWakes(p) PROVE [Gate!Next]_gateVars
  BY <1>2 DEF Thread, GateWakes, Answered, NoAnswer, Refused, AtGate, Save, LeaveGate, EndOfThread,
     Gate!Next, Gate!Step
<1>3. CASE UNCHANGED vars
  BY <1>3 DEF vars
<1> QED  BY <1>1, <1>2, <1>3 DEF Next

\* The condition variable and the flag of a restore's callbacks are the gate of
\* PushGate: what is proved of that gate holds of the callbacks.
THEOREM GateIsPushGate == Spec => Gate!Spec
<1>1. Init => Gate!Init
  BY DEF Init
<1>2. [Next]_vars => [Gate!Next]_Gate!vars
  BY GateStep DEF gateVars, Gate!vars
<1> QED  BY <1>1, <1>2, PTL DEF Spec, Gate!Spec

\* What is proved of PushGate holds of it.
LEMMA GateIsTheOther == Gate!Spec => GateProofs!Spec
<1>1. Gate!Init => GateProofs!Init
  BY DEF Gate!Init, GateProofs!Init
<1>2. [Gate!Next]_Gate!vars => [GateProofs!Next]_GateProofs!vars
  BY DEF Gate!Next, GateProofs!Next, Gate!vars, GateProofs!vars, Gate!Step, GateProofs!Step,
     Gate!Enter, GateProofs!Enter, Gate!Lock, GateProofs!Lock, Gate!Test, GateProofs!Test,
     Gate!Block, GateProofs!Block, Gate!Claim, GateProofs!Claim, Gate!Finish, GateProofs!Finish,
     Gate!Notify, GateProofs!Notify, Gate!SpuriousWake, GateProofs!SpuriousWake,
     Gate!Goto, GateProofs!Goto, Gate!At, GateProofs!At
<1> QED  BY <1>1, <1>2, PTL DEF Gate!Spec, GateProofs!Spec

LEMMA GateAssumption == GateProofs!NoneAssumption
  BY RestoreAssumption DEF GateProofs!NoneAssumption

LEMMA GateTypes == Spec => []Gate!TypeOK
<1>1. GateProofs!Spec => []GateProofs!TypeOK
  BY GateAssumption, GateProofs!TypeCorrect
<1>2. GateProofs!TypeOK => Gate!TypeOK
  BY DEF GateProofs!TypeOK, Gate!TypeOK, GateProofs!Locations, Gate!Locations
<1> QED  BY <1>1, <1>2, GateIsPushGate, GateIsTheOther, PTL

\* One callback at a time saves what has arrived: the gate keeps the others out
\* (PushGate's MutualExclusion).
THEOREM SavesOneAtATime == Spec => []Gate!MutualExclusion
<1>1. GateProofs!Spec => []GateProofs!MutualExclusion
  BY GateAssumption, GateProofs!GateExcludes
<1>2. GateProofs!MutualExclusion => Gate!MutualExclusion
  BY DEF Gate!MutualExclusion, GateProofs!MutualExclusion
<1> QED  BY <1>1, <1>2, GateIsPushGate, GateIsTheOther, PTL

-----------------------------------------------------------------------------
\* The tree.

\* What is wanted at the ancestors of a listed path is a directory.
LEMMA WantedAbove ==
    ASSUME Consistent(disk, db), NEW p \in Paths, p \in Listed(db), NEW a \in Ancestors[p]
    PROVE  a \in Paths /\ Wanted(disk, db, a) = Dir
<1>1. a \in Paths /\ p \in Below(a)
  BY PathsAssumption DEF Below
<1>2. CASE a \in Listed(db)
  <2>1. Delivered(disk, db, a) \notin Contents
    BY <1>2 DEF Consistent
  <2> QED  BY <1>1, <1>2, <2>1 DEF Wanted, Delivered
<1>3. CASE a \notin Listed(db)
  BY <1>1, <1>3 DEF Wanted
<1> QED  BY <1>1, <1>2, <1>3

\* Saving what the server has sent for p never puts but what is wanted, and
\* changes nothing that is there.
Adds(p, tree) ==
    /\ \A q \in Paths : tree[q] = local[q] \/ (local[q] = Absent /\ tree[q] = Wanted(disk, db, q))
    /\ tree[p] = Wanted(disk, db, p) /\ \A a \in Ancestors[p] : tree[a] = Dir

LEMMA DeliverAdds ==
    ASSUME Consistent(disk, db), local \in [Paths -> Nodes], NEW p \in Paths, p \in Listed(db),
           \A q \in Paths : local[q] \in {Absent, Wanted(disk, db, q)}, ~DeliverThrows(p)
    PROVE  Adds(p, Deliver(p))
<1> DEFINE tree == CreateDirs(local, p)
<1>1. \A a \in Ancestors[p] : a \in Paths /\ Wanted(disk, db, a) = Dir
  BY WantedAbove
<1>2. p \notin Ancestors[p] /\ Absent # Dir /\ Absent \notin Contents /\ Dir \notin Contents
  BY PathsAssumption DEF Absent, Dir
<1>3. tree \in [Paths -> Nodes]
  BY DEF CreateDirs, Nodes
<1>4. /\ \A a \in Ancestors[p] : tree[a] = Dir
      /\ \A q \in Paths : tree[q] = local[q] \/ (local[q] = Absent /\ tree[q] = Wanted(disk, db, q))
      /\ tree[p] = local[p]
  BY <1>1, <1>2 DEF CreateDirs
<1>5. Wanted(disk, db, p) = IF disk[p] \in Contents THEN disk[p] ELSE Dir
  BY DEF Wanted, Delivered
<1> HIDE DEF tree
<1>6. CASE disk[p] \in Contents
  <2>1. ParentIsDir(tree, p) /\ tree[p] # Dir
    BY <1>2, <1>4, <1>5, <1>6 DEF ParentIsDir
  <2>2. Deliver(p) = [tree EXCEPT ![p] = disk[p]]
    BY <1>6, <2>1 DEF Deliver, WriteOnFile, tree
  <2> QED  BY <1>2, <1>3, <1>4, <1>5, <1>6, <2>2, PathsAssumption DEF Adds
<1>7. CASE disk[p] \notin Contents
  <2>1. Deliver(p) = IF tree[p] = Absent THEN [tree EXCEPT ![p] = Dir] ELSE tree
    BY <1>7 DEF Deliver, CreateDirectory, tree
  <2> QED  BY <1>2, <1>3, <1>4, <1>5, <1>7, <2>1, PathsAssumption DEF Adds
<1> QED  BY <1>6, <1>7

LEMMA DeliverType ==
    ASSUME local \in [Paths -> Nodes], NEW p \in Paths
    PROVE  Deliver(p) \in [Paths -> Nodes]
<1>1. CreateDirs(local, p) \in [Paths -> Nodes]
  BY DEF CreateDirs, Nodes
<1> QED  BY <1>1 DEF Deliver, WriteOnFile, CreateDirectory, Nodes

-----------------------------------------------------------------------------
\* The paths that are asked for are those of the list, each once; a get is at
\* the gate while its thread runs, and good if it was saved.
Begun == /\ todo \subseteq Listed(db)
         /\ phase \in {"wipe", "ask"} => \A p \in Paths : saved[p] = "no"
Gets(p) == /\ thread[p] # "none" => p \in Listed(db) /\ phase \in {"get", "crashed"}
           /\ phase = "get" => p \notin Listed(db) \/ p \in todo \/ thread[p] # "none"
           /\ pc[p] # "idle" => thread[p] = "running"
           /\ p \in good => saved[p] = "saved" /\ thread[p] \in {"notify", "over"}
           /\ phase = "done" /\ p \in Listed(db) => saved[p] = "saved"
InOrder == Begun /\ \A p \in Paths : Gets(p)

\* What was saved is in the tree.
Placed == phase # "wipe" /\ Consistent(disk, db) =>
    \A p \in Paths : saved[p] = "saved" => /\ local[p] = Wanted(disk, db, p)
                                          /\ \A a \in Ancestors[p] : local[a] = Dir

\* Nobody changes what the server has.
LEMMA StoreStays == [Next]_vars => UNCHANGED store
  BY DEF Next, vars, store, Main, Wipe, Ask, Get, GetsDone, PoolWakes, Thread, GateWakes, Answered,
     NoAnswer, Refused, AtGate, Save, LeaveGate, EndOfThread

LEMMA InOrderKept == ASSUME TypeOK, TypeOK', InOrder, [Next]_vars PROVE InOrder'
<1>0. UNCHANGED Listed(db) /\ Listed(db) \subseteq Paths /\ Requests = Paths
  BY StoreStays, RestoreAssumption DEF store, Listed
<1>1. PoolTypeOK /\ PoolTypeOK' /\ Gate!TypeOK /\ Gate!TypeOK'
  BY DEF TypeOK
<1> USE <1>0, <1>1 DEF InOrder, Begun, Gets, PoolTypeOK
<1>2. CASE Wipe \/ Ask
  BY <1>2 DEF Wipe, Ask, poolVars, gateVars
<1>3. CASE Get
  <2>1. CASE Submit(Least(todo)) /\ todo' = todo \ {Least(todo)}
    <3>1. Least(todo) \in todo /\ Least(todo) \in Paths
      BY <1>3, LeastIsThere DEF Get
    <3>2. /\ thread' = [thread EXCEPT ![Least(todo)] = "running"]
          /\ UNCHANGED <<saved, pc, good, phase>>
      BY <1>3, <2>1 DEF Get, Submit, Goto, gateVars
    <3>3. phase = "get" /\ thread[Least(todo)] = "none"
      BY <1>3, <2>1 DEF Get, Submit, Goto
    <3>4. ASSUME NEW q \in Paths PROVE Gets(q)'
      <4>1. CASE q = Least(todo)
        BY <3>1, <3>2, <3>3, <4>1
      <4>2. CASE q # Least(todo)
        BY <2>1, <3>1, <3>2, <3>3, <4>2
      <4> QED  BY <4>1, <4>2
    <3>5. Begun'
      BY <2>1, <3>2, <3>3
    <3> HIDE DEF Gets, Begun
    <3> QED  BY <3>4, <3>5
  <2>2. CASE (Full \/ Wait) /\ UNCHANGED todo
    BY <1>3, <2>2 DEF Get, Full, Wait, gateVars
  <2> QED  BY <1>3, <2>1, <2>2 DEF Get
<1>4. CASE PoolWakes
  BY <1>4 DEF PoolWakes, SpuriousWakeUp, mainVars, gateVars
<1>5. CASE GetsDone
  <2>1. /\ phase = "get" /\ phase' \in {"done", "failed"} /\ todo = {} /\ todo' = {}
        /\ thread' = [p \in Paths |-> "none"] /\ good' = {} /\ UNCHANGED <<saved, pc>>
    BY <1>5 DEF GetsDone, WaitAll, gateVars
  <2>2. In({"running", "notify"}) = {}
    BY <1>5 DEF GetsDone, WaitAll
  <2>3. phase' = "done" => In({"over"}) \subseteq good
    BY <1>5 DEF GetsDone, WaitAll
  <2>4. ASSUME NEW p \in Paths PROVE pc[p] = "idle" /\ (thread[p] = "none" \/ thread[p] = "over")
    BY <2>2 DEF In
  <2>5. ASSUME NEW p \in Paths, phase' = "done", p \in Listed(db) PROVE saved[p] = "saved"
    BY <2>1, <2>3, <2>4, <2>5 DEF In
  <2> QED  BY <2>1, <2>4, <2>5
<1>6. ASSUME NEW p \in Paths, Answered(p) PROVE InOrder'
  BY <1>6 DEF Answered, Gate!Enter, Gate!Goto, poolVars, mainVars
<1>7. ASSUME NEW p \in Paths, NoAnswer(p) PROVE InOrder'
  BY <1>7 DEF NoAnswer, poolVars, mainVars, gateVars
<1>8. ASSUME NEW p \in Paths, Refused(p) PROVE InOrder'
  BY <1>8 DEF Refused, poolVars, gateVars
<1>9. ASSUME NEW p \in Paths, AtGate(p) \/ GateWakes(p) PROVE InOrder'
  <2>1. \A q \in Paths : pc'[q] # "idle" => pc[q] # "idle"
    BY <1>9 DEF AtGate, GateWakes, Gate!Lock, Gate!Test, Gate!Block, Gate!Claim, Gate!SpuriousWake,
       Gate!Goto, Gate!TypeOK
  <2> QED  BY <1>9, <2>1 DEF AtGate, GateWakes, poolVars, mainVars
<1>10. ASSUME NEW p \in Paths, Save(p) PROVE InOrder'
  <2>1. /\ pc[p] = "body" /\ pc' = [pc EXCEPT ![p] = "notify"]
        /\ \E how \in {"failed", "saved"} : saved' = [saved EXCEPT ![p] = how]
        /\ UNCHANGED <<thread, good, phase, todo>>
    BY <1>10 DEF Save, Gate!Finish, Gate!Goto, poolVars
  <2>2. thread[p] = "running" /\ p \notin good /\ phase \in {"get", "crashed"}
    BY <2>1
  <2>3. saved \in [Paths -> {"no", "saved", "failed"}]
    BY DEF TypeOK
  <2> QED  BY <2>1, <2>2, <2>3 DEF Gate!TypeOK
<1>11. ASSUME NEW p \in Paths, LeaveGate(p) PROVE InOrder'
  <2>1. \A q \in Paths : pc'[q] # "idle" => pc[q] # "idle"
    BY <1>11 DEF LeaveGate, Gate!Notify, Gate!At, Gate!TypeOK
  <2> QED  BY <1>11, <2>1 DEF LeaveGate, poolVars, mainVars
<1>12. ASSUME NEW p \in Paths, EndOfThread(p) PROVE InOrder'
  <2>1. UNCHANGED <<phase, todo, saved, pc>>
    BY <1>12 DEF EndOfThread, mainVars, gateVars
  <2>2. CASE pc[p] = "idle" /\ CountDown(p, saved[p] = "saved")
    BY <2>1, <2>2 DEF CountDown, Goto
  <2>3. CASE Tell(p)
    BY <2>1, <2>3 DEF Tell, Goto
  <2> QED  BY <1>12, <2>2, <2>3 DEF EndOfThread
<1>13. CASE UNCHANGED vars
  BY <1>13 DEF vars, poolVars, mainVars, gateVars
<1> QED
  BY <1>2, <1>3, <1>4, <1>5, <1>6, <1>7, <1>8, <1>9, <1>10, <1>11, <1>12, <1>13
     DEF Next, Main, Thread

\* What is wanted does not change.
LEMMA WantedStays ==
    ASSUME [Next]_vars
    PROVE  (Consistent(disk, db) <=> Consistent(disk, db)') /\ \A q \in Paths : Wanted(disk, db, q)' = Wanted(disk, db, q)
<1>1. UNCHANGED <<disk, db>>
  BY StoreStays DEF store
<1> QED  BY <1>1 DEF Consistent, Wanted, Listed, Delivered

LEMMA TreeKept ==
    ASSUME TypeOK, InOrder, Placed, NothingForeign, [Next]_vars
    PROVE  (Placed /\ NothingForeign)'
<1> USE WantedStays DEF Placed, NothingForeign
<1>1. CASE Wipe
  <2>1. phase' = "ask" /\ local' = [p \in Paths |-> Absent] /\ \A p \in Paths : saved'[p] = "no"
    BY <1>1 DEF Wipe, InOrder, Begun
  <2> QED  BY <2>1
<1>2. ASSUME phase = "wipe" => phase' = "wipe", UNCHANGED local,
             \A p \in Paths : saved'[p] = "saved" => saved[p] = "saved"
      PROVE  (Placed /\ NothingForeign)'
  <2>1. \A p \in Paths : \A a \in Ancestors[p] : a \in Paths
    BY PathsAssumption
  <2> QED  BY <1>2, <2>1
<1>3. CASE Ask \/ Get \/ GetsDone \/ PoolWakes
  BY <1>2, <1>3 DEF Ask, Get, GetsDone, PoolWakes, mainVars
<1>4. ASSUME NEW p \in Paths, NoAnswer(p) PROVE (Placed /\ NothingForeign)'
  <2>1. saved \in [Paths -> {"no", "saved", "failed"}]
    BY DEF TypeOK
  <2> QED  BY <1>2, <1>4, <2>1 DEF NoAnswer, mainVars
<1>5. ASSUME NEW p \in Paths,
             Answered(p) \/ AtGate(p) \/ LeaveGate(p) \/ EndOfThread(p) \/ GateWakes(p)
      PROVE  (Placed /\ NothingForeign)'
  BY <1>2, <1>5 DEF Answered, AtGate, LeaveGate, EndOfThread, GateWakes, mainVars
<1>6. ASSUME NEW p \in Paths, Refused(p) PROVE (Placed /\ NothingForeign)'
  <2>1. phase # "wipe"
    BY <1>6 DEF Refused, InOrder, Gets
  <2> QED  BY <1>2, <1>6, <2>1 DEF Refused
<1>7. ASSUME NEW p \in Paths, Save(p) PROVE (Placed /\ NothingForeign)'
  <2>1. p \in Listed(db) /\ phase \in {"get", "crashed"} /\ phase' = phase
    BY <1>7 DEF Save, Gate!Finish, Gate!Goto, InOrder, Gets
  <2>2. saved \in [Paths -> {"no", "saved", "failed"}] /\ local \in [Paths -> Nodes]
    BY DEF TypeOK
  <2>3. CASE DeliverThrows(p)
    BY <1>2, <1>7, <2>1, <2>2, <2>3 DEF Save
  <2>4. CASE ~DeliverThrows(p) /\ Consistent(disk, db)
    <3>1. local' = Deliver(p) /\ saved' = [saved EXCEPT ![p] = "saved"]
      BY <1>7, <2>4 DEF Save
    <3>2. \A q \in Paths : local[q] \in {Absent, Wanted(disk, db, q)}
      BY <2>1, <2>4
    <3>3. Adds(p, local')
      BY <2>1, <2>2, <2>4, <3>1, <3>2, DeliverAdds
    <3>4. NothingForeign'
      BY <3>2, <3>3 DEF Adds
    <3>5. ASSUME NEW q \in Paths, saved'[q] = "saved"
          PROVE  local'[q] = Wanted(disk, db, q) /\ \A a \in Ancestors[q] : local'[a] = Dir
      <4>1. CASE q = p
        BY <3>3, <4>1 DEF Adds
      <4>2. CASE q # p
        <5>1. local[q] = Wanted(disk, db, q) /\ \A a \in Ancestors[q] : local[a] = Dir
          BY <2>1, <2>2, <2>4, <3>1, <3>5, <4>2
        <5>2. \A r \in Paths : local[r] # Absent => local'[r] = local[r]
          BY <3>3 DEF Adds
        <5>3. Wanted(disk, db, q) # Absent \/ local'[q] = Wanted(disk, db, q)
          BY <3>2, <3>3, <5>1 DEF Adds
        <5>4. \A a \in Ancestors[q] : a \in Paths /\ Dir # Absent
          BY PathsAssumption DEF Dir, Absent
        <5> QED  BY <5>1, <5>2, <5>3, <5>4
      <4> QED  BY <4>1, <4>2
    <3> QED  BY <3>4, <3>5
  <2>5. CASE ~Consistent(disk, db)
    BY <2>5
  <2> QED  BY <2>3, <2>4, <2>5
<1>8. CASE UNCHANGED vars
  BY <1>2, <1>8 DEF vars, mainVars
<1> QED  BY <1>1, <1>3, <1>4, <1>5, <1>6, <1>7, <1>8 DEF Next, Main, Thread

\* The types of what is Restore's own.
OwnTypes == /\ local \in [Paths -> Nodes] /\ todo \subseteq Paths
            /\ phase \in {"wipe", "ask", "get", "done", "failed", "crashed"}
            /\ saved \in [Paths -> {"no", "saved", "failed"}]

LEMMA OwnTypesKept == ASSUME OwnTypes, [Next]_vars PROVE OwnTypes'
<1> USE DEF OwnTypes
<1>1. CASE Wipe \/ Ask
  BY <1>1 DEF Wipe, Ask, Listed, Nodes
<1>2. CASE Get \/ GetsDone \/ PoolWakes
  BY <1>2 DEF Get, GetsDone, PoolWakes, mainVars
<1>3. ASSUME NEW p \in Paths, Thread(p) \/ GateWakes(p) PROVE OwnTypes'
  <2>1. CASE Save(p)
    BY <2>1, DeliverType DEF Save
  <2>2. CASE NoAnswer(p) \/ Refused(p)
    BY <2>2 DEF NoAnswer, Refused, mainVars
  <2>3. CASE Answered(p) \/ AtGate(p) \/ LeaveGate(p) \/ EndOfThread(p) \/ GateWakes(p)
    BY <2>3 DEF Answered, AtGate, LeaveGate, EndOfThread, GateWakes, mainVars
  <2> QED  BY <1>3, <2>1, <2>2, <2>3 DEF Thread
<1>4. CASE UNCHANGED vars
  BY <1>4 DEF vars, mainVars
<1> QED  BY <1>1, <1>2, <1>3, <1>4 DEF Next, Main

\* A restore's pool is ClientPool, whoever ends its threads; so its count of
\* them is exact (SlotsExact) and it is the window of Window (PoolIsWindow).
THEOREM PoolInRestore == Spec => PoolSpec
<1>1. Init => PoolInit /\ OwnTypes
  BY DEF Init, OwnTypes, TreesOf, RowsOf
<1>2. OwnTypes /\ [Next]_vars => OwnTypes' /\ [PoolNext]_poolVars
  BY OwnTypesKept, PoolStep DEF OwnTypes
<1> QED  BY <1>1, <1>2, PTL DEF Spec, PoolSpec

\* What ClientPool_proofs says of the pool holds in a restore: the window is
\* implemented (PoolIsWindow) and its slots are counted exactly (SlotsExact).
THEOREM RestorePoolIsWindow == Spec => PoolIsWindow /\ []SlotsExact
  BY PoolInRestore, PoolImplementsWindow, PoolSlotsExact, PTL

\* All variables of a restore have their types (TypeOK).
THEOREM RestoreTypeCorrect == Spec => []TypeOK
<1>1. Init => OwnTypes
  BY DEF Init, OwnTypes, TreesOf, RowsOf
<1>2. OwnTypes /\ [Next]_vars => OwnTypes'
  BY OwnTypesKept
<1>3. OwnTypes /\ PoolInv /\ Gate!TypeOK => TypeOK
  BY DEF OwnTypes, PoolInv, TypeOK
<1> QED  BY <1>1, <1>2, <1>3, PoolInRestore, PoolInvariant, GateTypes, PTL DEF Spec

\* The inductive invariant of a restore: only listed paths are asked for, each
\* once, and it is done only when all were saved (InOrder); what was saved is
\* in the tree, in its directories (Placed); and nothing else (NothingForeign).
THEOREM RestoreInvariant == Spec => [](InOrder /\ Placed /\ NothingForeign)
<1>1. Init => InOrder /\ Placed /\ NothingForeign
  BY RestoreAssumption DEF Init, InOrder, Begun, Gets, Placed, NothingForeign, PoolInit, Gate!Init
<1>2. TypeOK /\ TypeOK' /\ InOrder /\ Placed /\ NothingForeign /\ [Next]_vars
      => (InOrder /\ Placed /\ NothingForeign)'
  BY InOrderKept, TreeKept
<1> QED  BY <1>1, <1>2, RestoreTypeCorrect, PTL DEF Spec

\* However a restore ends or fails, the directory holds nothing but what the
\* server has, from the moment it was emptied (NothingForeign).
THEOREM RestoresNothingForeign == Spec => []NothingForeign
  BY RestoreInvariant, PTL

\* A restore that returns true has put back all the server has (Restored).
THEOREM RestoresAll == Spec => []Restored
<1>1. InOrder /\ Placed /\ NothingForeign => Restored
  <2> SUFFICES ASSUME InOrder, Placed, NothingForeign, phase = "done", Consistent(disk, db), NEW p \in Paths
               PROVE  local[p] = Wanted(disk, db, p)
    BY DEF Restored
  <2>1. CASE p \in Listed(db)
    BY <2>1 DEF InOrder, Gets, Placed
  <2>2. CASE p \notin Listed(db) /\ Below(p) \cap Listed(db) # {}
    <3>1. PICK q \in Paths : q \in Listed(db) /\ p \in Ancestors[q]
      BY <2>2 DEF Below
    <3>2. local[p] = Dir
      BY <3>1 DEF InOrder, Gets, Placed
    <3> QED  BY <2>2, <3>2 DEF Wanted
  <2>3. CASE p \notin Listed(db) /\ Below(p) \cap Listed(db) = {}
    BY <2>3 DEF NothingForeign, Wanted
  <2> QED  BY <2>1, <2>2, <2>3
<1> QED  BY <1>1, RestoreInvariant, PTL

-----------------------------------------------------------------------------
\* A restore that cannot go on by itself: the caller waits or has threads to
\* wait for, and whatever thread there is sleeps at the gate.
StandsStill == /\ caller = "waits" \/ In({"running", "notify"}) # {}
               /\ \A p \in In({"running", "notify"}) : pc[p] = "waiting"

\* A waiting caller or a waiting get leaves a thread that is not waiting.
LEMMA SomeoneGoesOn ==
    ASSUME TypeOK, PoolInv, InOrder, CallerAwaited, ~GateProofs!Stranded(Root)
    PROVE  ~StandsStill
<1> SUFFICES ASSUME StandsStill PROVE FALSE
  OBVIOUS
<1>1. In({"running", "notify"}) # {}
  <2> SUFFICES ASSUME In({"notify"}) = {}, active = MaxThreads PROVE In({"running"}) # {}
    BY DEF StandsStill, CallerAwaited, In
  <2>1. Cardinality(In({"running"})) # 0
    BY ClientPoolAssumption DEF PoolInv, SlotsExact
  <2> QED  BY <2>1, FS_EmptySet
<1>2. PICK p \in Paths : pc[p] = "waiting"
  BY <1>1, RestoreAssumption DEF StandsStill, In
<1>3. \A q \in Paths : pc[q] \in {"idle", "waiting"}
  BY RestoreAssumption DEF StandsStill, In, InOrder, Gets
<1>4. sess[p] = Root
  BY <1>2 DEF TypeOK, Gate!TypeOK
<1> QED  BY <1>2, <1>3, <1>4 DEF GateProofs!Stranded, GateProofs!Carriers

\* As long as no waiter is overtaken between its test and its wait (Overtaken),
\* at the pool or at the gate, a restore is never at a standstill: it is what
\* must not happen for EndsUnlessOvertaken.
THEOREM OnlyOvertakenStandsStill == Spec /\ []~Overtaken => []~StandsStill
<1>1. GateProofs!Spec /\ [](\A s \in {Root} : ~GateProofs!Overtaken(s))
      => [](\A s \in {Root} : ~GateProofs!Stranded(s))
  BY GateAssumption, GateProofs!NobodyStranded
<1>2. ~Overtaken => ~CallerOvertaken /\ \A s \in {Root} : ~GateProofs!Overtaken(s)
  BY DEF Overtaken, CallerOvertaken, GateProofs!Overtaken
<1>3. TypeOK /\ PoolInv /\ InOrder /\ CallerAwaited
        /\ (\A s \in {Root} : ~GateProofs!Stranded(s)) => ~StandsStill
  BY SomeoneGoesOn
<1> QED  BY <1>1, <1>2, <1>3, PoolInRestore, PoolInvariant, OnlyOvertakenCallerSleeps,
            RestoreTypeCorrect, RestoreInvariant, GateIsPushGate, GateIsTheOther, PTL
=============================================================================
