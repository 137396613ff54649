--------------------------- MODULE PushGate_proofs ---------------------------
(***************************************************************************)
(* What PushGate guarantees for every set of workers and sessions: the     *)
(* gate is a lock, and the lost wake-up never strands two pushes.          *)
(***************************************************************************)
EXTENDS PushGate, TLAPS

\* The variables keep their types: the first conjunct of the inductive
\* invariant stands on its own.
THEOREM TypeCorrect == Spec => []TypeOK
<1>1. Init => TypeOK
  BY NoneAssumption DEF Init, TypeOK, Locations
<1>2. TypeOK /\ [Next]_vars => TypeOK'
  <2> SUFFICES ASSUME TypeOK, [Next]_vars
               PROVE  TypeOK'
    OBVIOUS
  <2> USE NoneAssumption DEF TypeOK, Locations
  <2>1. ASSUME NEW w \in Workers, NEW s \in Sessions, Enter(w, s)
        PROVE  TypeOK'
    BY <2>1 DEF Enter, Goto
  <2>2. ASSUME NEW w \in Workers, Lock(w)
        PROVE  TypeOK'
    BY <2>2 DEF Lock
  <2>3. ASSUME NEW w \in Workers, Test(w)
        PROVE  TypeOK'
    BY <2>3 DEF Test, Goto
  <2>4. ASSUME NEW w \in Workers, Block(w)
        PROVE  TypeOK'
    BY <2>4 DEF Block, Goto
  <2>5. ASSUME NEW w \in Workers, SpuriousWake(w)
        PROVE  TypeOK'
    BY <2>5 DEF SpuriousWake, Goto
  <2>6. ASSUME NEW w \in Workers, Claim(w)
        PROVE  TypeOK'
    BY <2>6 DEF Claim, Goto
  <2>7. ASSUME NEW w \in Workers, Finish(w)
        PROVE  TypeOK'
    BY <2>7 DEF Finish, Goto
  <2>8. ASSUME NEW w \in Workers, Notify(w)
        PROVE  TypeOK'
    BY <2>8 DEF Notify, At
  <2>9. CASE UNCHANGED vars
    BY <2>9 DEF vars
  <2> QED
    BY <2>1, <2>2, <2>3, <2>4, <2>5, <2>6, <2>7, <2>8, <2>9 DEF Next, Step
<1> QED
  BY <1>1, <1>2, PTL DEF Spec

-----------------------------------------------------------------------------
\* The part of the inductive invariant that makes the gate a lock.
LockInv == MutexOwned /\ ClaimFresh /\ FlagOwned /\ MutualExclusion

\* A step of any worker keeps the flag, the mutex and the body in step.
LEMMA LockInvStep == TypeOK /\ TypeOK' /\ LockInv /\ [Next]_vars => LockInv'
<1> SUFFICES ASSUME TypeOK, TypeOK', LockInv, [Next]_vars
             PROVE  LockInv'
  OBVIOUS
<1> USE NoneAssumption DEF TypeOK, Locations, LockInv, MutexOwned, ClaimFresh,
                           FlagOwned, MutualExclusion, At
<1>1. ASSUME NEW w \in Workers, NEW s \in Sessions, Enter(w, s)
      PROVE  LockInv'
  BY <1>1 DEF Enter, Goto
<1>2. ASSUME NEW w \in Workers, Lock(w)
      PROVE  LockInv'
  BY <1>2 DEF Lock
<1>3. ASSUME NEW w \in Workers, Test(w)
      PROVE  LockInv'
  BY <1>3 DEF Test, Goto
<1>4. ASSUME NEW w \in Workers, Block(w)
      PROVE  LockInv'
  BY <1>4 DEF Block, Goto
<1>5. ASSUME NEW w \in Workers, SpuriousWake(w)
      PROVE  LockInv'
  BY <1>5 DEF SpuriousWake, Goto
<1>6. ASSUME NEW w \in Workers, Claim(w)
      PROVE  LockInv'
  BY <1>6 DEF Claim, Goto
<1>7. ASSUME NEW w \in Workers, Finish(w)
      PROVE  LockInv'
  BY <1>7 DEF Finish, Goto
<1>8. ASSUME NEW w \in Workers, Notify(w)
      PROVE  LockInv'
  BY <1>8 DEF Notify
<1>9. CASE UNCHANGED vars
  BY <1>9 DEF vars
<1> QED
  BY <1>1, <1>2, <1>3, <1>4, <1>5, <1>6, <1>7, <1>8, <1>9 DEF Next, Step

THEOREM LockInvariant == Spec => [](TypeOK /\ LockInv)
<1>1. Init => TypeOK /\ LockInv
  BY NoneAssumption DEF Init, TypeOK, Locations, LockInv, MutexOwned, ClaimFresh,
                        FlagOwned, MutualExclusion, At
<1>2. TypeOK /\ TypeOK' /\ LockInv /\ [Next]_vars => LockInv'
  BY LockInvStep
<1> QED
  BY <1>1, <1>2, TypeCorrect, PTL DEF Spec

\* Two pushes of one session are never in their bodies together, for every
\* number of workers and sessions.
THEOREM GateExcludes == Spec => []MutualExclusion
<1>1. LockInv => MutualExclusion
  BY DEF LockInv
<1> QED
  BY <1>1, LockInvariant, PTL

\* active_thread_ tells the truth about the body, whatever exit a push takes.
THEOREM FlagTellsBody == Spec => []FlagOwned
<1>1. LockInv => FlagOwned
  BY DEF LockInv
<1> QED
  BY <1>1, LockInvariant, PTL

\* A worker that found the flag clear sets a flag that is still clear, though
\* every exit clears it outside the mutex.
THEOREM ClaimedFlagIsFresh == Spec => []ClaimFresh
<1>1. LockInv => ClaimFresh
  BY DEF LockInv
<1> QED
  BY <1>1, LockInvariant, PTL

-----------------------------------------------------------------------------
\* The part of the inductive invariant about waiting: what a worker about to
\* wait relies on, and what two waiters rely on.
WakeInv == BlockedBehindExit /\ StrandsAtMostOne

\* A set flag means that somebody is still to leave the body.
LEMMA SetFlagHasCarrier ==
  ASSUME TypeOK, LockInv, NEW w \in Workers, sess[w] \in Sessions, active[sess[w]]
  PROVE  \E b \in Workers : pc[b] = "body" /\ sess[b] = sess[w]
BY DEF LockInv, FlagOwned, At

\* No step strands a second waiter.
LEMMA WakeInvStep == TypeOK /\ TypeOK' /\ LockInv /\ WakeInv /\ [Next]_vars => WakeInv'
<1> SUFFICES ASSUME TypeOK, TypeOK', LockInv, WakeInv, [Next]_vars
             PROVE  WakeInv'
  OBVIOUS
<1> USE NoneAssumption DEF TypeOK, Locations, WakeInv, BlockedBehindExit,
                           StrandsAtMostOne, Carriers, At
<1>1. ASSUME NEW w \in Workers, NEW s \in Sessions, Enter(w, s)
      PROVE  WakeInv'
  BY <1>1 DEF Enter, Goto
<1>2. ASSUME NEW w \in Workers, Lock(w)
      PROVE  WakeInv'
  <2>1. \A u \in Workers : ~(pc[u] = "block" /\ sess[u] = sess[w])
    BY <1>2 DEF Lock, LockInv, MutexOwned
  <2> QED
    BY <1>2, <2>1 DEF Lock
<1>3. ASSUME NEW w \in Workers, Test(w)
      PROVE  WakeInv'
  <2>1. active[sess[w]] => \E b \in Workers : pc[b] = "body" /\ sess[b] = sess[w]
    BY <1>3, SetFlagHasCarrier DEF Test, Goto
  <2> QED
    BY <1>3, <2>1 DEF Test, Goto
<1>4. ASSUME NEW w \in Workers, Block(w)
      PROVE  WakeInv'
  <2>1. \A u \in Workers : pc[u] = "block" /\ sess[u] = sess[w] => u = w
    BY <1>4 DEF Block, Goto, LockInv, MutexOwned
  <2>2. BlockedBehindExit'
    BY <1>4, <2>1 DEF Block, Goto
  <2>3. StrandsAtMostOne'
    BY <1>4 DEF Block, Goto
  <2> QED
    BY <2>2, <2>3
<1>5. ASSUME NEW w \in Workers, SpuriousWake(w)
      PROVE  WakeInv'
  BY <1>5 DEF SpuriousWake, Goto
<1>6. ASSUME NEW w \in Workers, Claim(w)
      PROVE  WakeInv'
  BY <1>6 DEF Claim, Goto
<1>7. ASSUME NEW w \in Workers, Finish(w)
      PROVE  WakeInv'
  BY <1>7 DEF Finish, Goto
<1>8. ASSUME NEW w \in Workers, Notify(w)
      PROVE  WakeInv'
  BY <1>8 DEF Notify
<1>9. CASE UNCHANGED vars
  BY <1>9 DEF vars
<1> QED
  BY <1>1, <1>2, <1>3, <1>4, <1>5, <1>6, <1>7, <1>8, <1>9 DEF Next, Step

\* What two waiters and a worker about to wait rely on holds throughout.
THEOREM WakeInvariant == Spec => []WakeInv
<1>1. Init => WakeInv
  BY DEF Init, WakeInv, BlockedBehindExit, StrandsAtMostOne
<1>2. TypeOK /\ TypeOK' /\ LockInv /\ WakeInv /\ [Next]_vars => WakeInv'
  BY WakeInvStep
<1> QED
  BY <1>1, <1>2, LockInvariant, PTL DEF Spec

\* The lost wake-up strands at most one push of a session, for every number
\* of workers and sessions.
THEOREM LosesAtMostOne == Spec => []StrandsAtMostOne
<1>1. WakeInv => StrandsAtMostOne
  BY DEF WakeInv
<1> QED
  BY <1>1, WakeInvariant, PTL

\* A worker about to wait beside one that waits already has an exit, or a
\* wake-up that an exit gave, still ahead of it.
THEOREM BlockedIsBehindExit == Spec => []BlockedBehindExit
<1>1. WakeInv => BlockedBehindExit
  BY DEF WakeInv
<1> QED
  BY <1>1, WakeInvariant, PTL

-----------------------------------------------------------------------------
\* The lost wake-up is the only way to strand a push.

\* A worker has found the flag of s set, does not sleep yet, and the flag has
\* been cleared: the notification of that exit may find nobody.
Overtaken(s) == \E w \in Workers : pc[w] = "block" /\ sess[w] = s /\ ~active[s]

\* A worker sleeps at the gate of s, and nobody is left who would wake it.
Stranded(s) == \E w \in Workers : pc[w] = "waiting" /\ sess[w] = s /\ Carriers(s) = {}

LEMMA StrandedStep ==
  ASSUME NEW s \in Sessions, TypeOK, TypeOK', LockInv, LockInv', ~Overtaken(s), ~Stranded(s), [Next]_vars
  PROVE  ~Stranded(s)'
<1> USE NoneAssumption DEF TypeOK, Locations, Overtaken, Stranded, Carriers
<1>1. ASSUME NEW w \in Workers, NEW t \in Sessions, Enter(w, t)
      PROVE  ~Stranded(s)'
  BY <1>1 DEF Enter, Goto
<1>2. ASSUME NEW w \in Workers, Lock(w)
      PROVE  ~Stranded(s)'
  BY <1>2 DEF Lock
<1>3. ASSUME NEW w \in Workers, Test(w)
      PROVE  ~Stranded(s)'
  <2>1. active[sess[w]] => \E b \in Workers : pc[b] = "body" /\ sess[b] = sess[w]
    BY <1>3, SetFlagHasCarrier DEF Test, Goto
  <2> QED
    BY <1>3, <2>1 DEF Test, Goto
<1>4. ASSUME NEW w \in Workers, Block(w)
      PROVE  ~Stranded(s)'
  <2>1. sess[w] = s => \E b \in Workers : pc[b] = "body" /\ sess[b] = s
    BY <1>4, SetFlagHasCarrier DEF Block, Goto
  <2> QED
    BY <1>4, <2>1 DEF Block, Goto
<1>5. ASSUME NEW w \in Workers, SpuriousWake(w)
      PROVE  ~Stranded(s)'
  BY <1>5 DEF SpuriousWake, Goto
<1>6. ASSUME NEW w \in Workers, Claim(w)
      PROVE  ~Stranded(s)'
  BY <1>6 DEF Claim, Goto
<1>7. ASSUME NEW w \in Workers, Finish(w)
      PROVE  ~Stranded(s)'
  BY <1>7 DEF Finish, Goto
<1>8. ASSUME NEW w \in Workers, Notify(w)
      PROVE  ~Stranded(s)'
  BY <1>8 DEF Notify, At
<1>9. CASE UNCHANGED vars
  BY <1>9 DEF vars
<1> QED
  BY <1>1, <1>2, <1>3, <1>4, <1>5, <1>6, <1>7, <1>8, <1>9 DEF Next, Step

\* As long as no worker of a session is overtaken between its test and its wait,
\* none sleeps without somebody who will wake it: no other order of tests,
\* claims, exits and wake-ups, spurious ones included, strands a push.
THEOREM OnlyOvertakenStrand ==
  \A s \in Sessions : Spec /\ []~Overtaken(s) => []~Stranded(s)
<1> SUFFICES ASSUME NEW s \in Sessions
             PROVE  Spec /\ []~Overtaken(s) => []~Stranded(s)
  OBVIOUS
<1>1. Init => ~Stranded(s)
  BY DEF Init, Stranded
<1>2. TypeOK /\ TypeOK' /\ LockInv /\ LockInv' /\ ~Overtaken(s) /\ ~Stranded(s) /\ [Next]_vars => ~Stranded(s)'
  BY StrandedStep
<1> QED
  BY <1>1, <1>2, LockInvariant, PTL DEF Spec

\* The same of all sessions at once, for who uses the gate.
LEMMA NobodyStranded ==
  Spec /\ [](\A s \in Sessions : ~Overtaken(s)) => [](\A s \in Sessions : ~Stranded(s))
<1>1. Init => \A s \in Sessions : ~Stranded(s)
  BY DEF Init, Stranded
<1>2. TypeOK /\ TypeOK' /\ LockInv /\ LockInv' /\ (\A s \in Sessions : ~Overtaken(s))
        /\ (\A s \in Sessions : ~Stranded(s)) /\ [Next]_vars
      => (\A s \in Sessions : ~Stranded(s))'
  BY StrandedStep
<1> QED
  BY <1>1, <1>2, LockInvariant, PTL DEF Spec

-----------------------------------------------------------------------------
\* Every step of the gate is a step of the abstract lock or leaves it alone:
\* only Claim acquires and only Finish releases.
LEMMA StepRefines == TypeOK /\ LockInv /\ [Next]_vars => [Lk!Next]_inside
<1> SUFFICES ASSUME TypeOK, LockInv, [Next]_vars
             PROVE  Lk!Next \/ inside' = inside
  OBVIOUS
<1> USE NoneAssumption DEF TypeOK, Locations, inside, At
<1>1. ASSUME NEW w \in Workers, NEW s \in Sessions, Enter(w, s)
      PROVE  inside' = inside
  BY <1>1 DEF Enter, Goto
<1>2. ASSUME NEW w \in Workers, Lock(w)
      PROVE  inside' = inside
  BY <1>2 DEF Lock
<1>3. ASSUME NEW w \in Workers, Test(w)
      PROVE  inside' = inside
  BY <1>3 DEF Test, Goto
<1>4. ASSUME NEW w \in Workers, Block(w)
      PROVE  inside' = inside
  BY <1>4 DEF Block, Goto
<1>5. ASSUME NEW w \in Workers, SpuriousWake(w)
      PROVE  inside' = inside
  BY <1>5 DEF SpuriousWake, Goto
<1>6. ASSUME NEW w \in Workers, Claim(w)
      PROVE  Lk!Acquire(w, sess[w])
  <2>1. inside[sess[w]] = {}
    BY <1>6 DEF Claim, Goto, LockInv, ClaimFresh, FlagOwned
  <2>2. At("body", sess[w])' = {w}
    BY <1>6, <2>1 DEF Claim, Goto
  <2>3. ASSUME NEW s \in Sessions, s # sess[w]
        PROVE  At("body", s)' = At("body", s)
    BY <1>6, <2>3 DEF Claim, Goto
  <2> HIDE DEF At
  <2>4. inside' = [inside EXCEPT ![sess[w]] = {w}]
    BY <1>6, <2>2, <2>3 DEF Claim
  <2> QED
    BY <2>1, <2>4 DEF Lk!Acquire
<1>7. ASSUME NEW w \in Workers, Finish(w)
      PROVE  Lk!Release(w, sess[w])
  <2>1. inside[sess[w]] = {w}
    BY <1>7 DEF Finish, Goto, LockInv, MutualExclusion
  <2>2. At("body", sess[w])' = {}
    BY <1>7, <2>1 DEF Finish, Goto
  <2>3. ASSUME NEW s \in Sessions, s # sess[w]
        PROVE  At("body", s)' = At("body", s)
    BY <1>7, <2>3 DEF Finish, Goto
  <2> HIDE DEF At
  <2>4. inside' = [inside EXCEPT ![sess[w]] = {}]
    BY <1>7, <2>2, <2>3 DEF Finish
  <2> QED
    BY <2>1, <2>4 DEF Lk!Release
<1>8. ASSUME NEW w \in Workers, Notify(w)
      PROVE  inside' = inside
  BY <1>8 DEF Notify
<1>9. CASE UNCHANGED vars
  BY <1>9 DEF vars
<1>10. ASSUME NEW w \in Workers, Claim(w) \/ Finish(w)
       PROVE  sess[w] \in Sessions
  BY <1>10 DEF Claim, Finish, Goto
<1>11. [Next]_vars
  OBVIOUS
<1> HIDE DEF TypeOK, inside
<1>12. ASSUME NEW w \in Workers, Claim(w)
       PROVE  Lk!Next
  <2>1. sess[w] \in Sessions /\ Lk!Acquire(w, sess[w])
    BY <1>6, <1>10, <1>12
  <2> QED
    BY <2>1 DEF Lk!Next
<1>13. ASSUME NEW w \in Workers, Finish(w)
       PROVE  Lk!Next
  <2>1. sess[w] \in Sessions /\ Lk!Release(w, sess[w])
    BY <1>7, <1>10, <1>13
  <2> QED
    BY <2>1 DEF Lk!Next
<1> QED
  BY <1>1, <1>2, <1>3, <1>4, <1>5, <1>8, <1>9, <1>11, <1>12, <1>13 DEF Next, Step

\* The gate implements the abstract lock: whatever the interleaving of tests,
\* waits and notifications, the bodies of a session's pushes are serialised.
THEOREM GateIsLock == Spec => Implements
<1>1. Init => Lk!Init
  BY DEF Init, Lk!Init, inside, At
<1>2. TypeOK /\ LockInv /\ [Next]_vars => [Lk!Next]_inside
  BY StepRefines
<1> QED
  BY <1>1, <1>2, LockInvariant, PTL DEF Spec, Implements, Lk!Spec
=============================================================================
