-------------------------- MODULE ClientPool_proofs --------------------------
(***************************************************************************)
(* Proofs about ClientPool, for any number of requests and any MAX_THREADS:*)
(* its counter is exact, and it implements Window.                         *)
(***************************************************************************)
EXTENDS ClientPool, FiniteSetTheorems, TLAPS

PoolInv == PoolTypeOK /\ SlotsExact

Flight == In({"running"})
Asked  == In({"running", "notify", "over"})

LEMMA FlightFinite == IsFiniteSet(Flight)
<1>1. Flight \subseteq Requests
  BY DEF Flight, In
<1> QED  BY <1>1, FS_Subset, ClientPoolAssumption

\* A step that starts no thread and ends none leaves the count exact.
LEMMA SameFlight ==
    ASSUME PoolInv, PoolTypeOK', In({"running"})' = In({"running"}), active' = active
    PROVE  PoolInv'
  BY DEF PoolInv, SlotsExact

LEMMA SubmitKeeps == ASSUME PoolInv, NEW r \in Requests, Submit(r) PROVE PoolInv'
<1>1. PoolTypeOK'
  BY DEF PoolInv, PoolTypeOK, Submit, Goto
<1>2. Flight' = Flight \cup {r} /\ r \notin Flight
  BY DEF PoolInv, PoolTypeOK, Submit, Goto, Flight, In
<1>3. Cardinality(Flight') = Cardinality(Flight) + 1
  BY <1>2, FlightFinite, FS_AddElement
<1>4. active' = Cardinality(Flight') /\ active' <= MaxThreads
  BY <1>3, ClientPoolAssumption DEF PoolInv, PoolTypeOK, SlotsExact, Submit, Flight
<1> QED  BY <1>1, <1>4 DEF PoolInv, SlotsExact, Flight

LEMMA CountDownKeeps ==
    ASSUME PoolInv, NEW r \in Requests, NEW ok \in BOOLEAN, CountDown(r, ok)
    PROVE  PoolInv'
<1>1. Flight' = Flight \ {r} /\ r \in Flight
  BY DEF PoolInv, PoolTypeOK, CountDown, Goto, Flight, In
<1>2. Cardinality(Flight') = Cardinality(Flight) - 1 /\ Cardinality(Flight') \in Nat
  <2>1. IsFiniteSet(Flight')
    BY <1>1, FlightFinite, FS_Subset
  <2> QED  BY <1>1, <2>1, FlightFinite, FS_RemoveElement, FS_CardinalityType
<1>3. active' = Cardinality(Flight') /\ active' <= MaxThreads
  BY <1>2, ClientPoolAssumption DEF PoolInv, PoolTypeOK, SlotsExact, CountDown, Flight
<1>4. PoolTypeOK'
  BY <1>2, <1>3 DEF PoolInv, PoolTypeOK, CountDown, Goto
<1> QED  BY <1>3, <1>4 DEF PoolInv, SlotsExact, Flight

LEMMA PoolInvInit == PoolInit => PoolInv
<1> SUFFICES ASSUME PoolInit PROVE PoolInv
  OBVIOUS
<1>1. In({"running"}) = {}
  BY DEF PoolInit, In
<1> QED  BY <1>1, FS_EmptySet, ClientPoolAssumption DEF PoolInit, PoolInv, PoolTypeOK, SlotsExact

LEMMA PoolInvStep == PoolInv /\ [PoolNext]_poolVars => PoolInv'
<1> SUFFICES ASSUME PoolInv, [PoolNext]_poolVars PROVE PoolInv'
  OBVIOUS
<1> USE DEF PoolInv, PoolTypeOK
<1>1. ASSUME NEW r \in Requests, Submit(r) PROVE PoolInv'
  BY <1>1, SubmitKeeps
<1>2. ASSUME NEW r \in Requests, NEW ok \in BOOLEAN, CountDown(r, ok) PROVE PoolInv'
  BY <1>2, CountDownKeeps
<1>3. ASSUME NEW r \in Requests, Tell(r) PROVE PoolInv'
  BY <1>3, SameFlight DEF Tell, Goto, In
<1>4. CASE Full
  BY <1>4, SameFlight DEF Full, In
<1>5. CASE Wait
  BY <1>5, SameFlight DEF Wait, In
<1>6. CASE SpuriousWakeUp
  BY <1>6, SameFlight DEF SpuriousWakeUp, In
<1>7. CASE WaitAll
  BY <1>7, SameFlight DEF WaitAll, In
<1>8. CASE UNCHANGED poolVars
  BY <1>8, SameFlight DEF poolVars, In
<1> QED  BY <1>1, <1>2, <1>3, <1>4, <1>5, <1>6, <1>7, <1>8 DEF PoolNext

THEOREM PoolInvariant == PoolSpec => []PoolInv
<1>1. PoolInit => PoolInv
  BY PoolInvInit
<1>2. PoolInv /\ [PoolNext]_poolVars => PoolInv'
  BY PoolInvStep
<1> QED  BY <1>1, <1>2, PTL DEF PoolSpec

\* n_active_threads_ counts the threads that have not lowered it, and never
\* passes MAX_THREADS.
THEOREM PoolSlotsExact == PoolSpec => []SlotsExact
<1>1. PoolInv => SlotsExact
  BY DEF PoolInv
<1> QED  BY <1>1, PoolInvariant, PTL

-----------------------------------------------------------------------------
\* The lost wake-up is the only way to let the caller sleep.

\* The caller has found no free slot, does not wait yet, and there is one: the
\* notification of the thread that gave it may find nobody.
CallerOvertaken == caller = "blocks" /\ active < MaxThreads

\* The caller waits, and a thread of its own is still to notify it.
CallerAwaited == caller = "waits" => In({"notify"}) # {} \/ active = MaxThreads

LEMMA AwaitedStep ==
    ASSUME PoolInv, PoolInv', ~CallerOvertaken, CallerAwaited, [PoolNext]_poolVars
    PROVE  CallerAwaited'
<1> USE DEF PoolInv, PoolTypeOK, SlotsExact, CallerAwaited, In
<1>1. ASSUME NEW r \in Requests, Submit(r) PROVE CallerAwaited'
  BY <1>1 DEF Submit
<1>2. ASSUME NEW r \in Requests, NEW ok \in BOOLEAN, CountDown(r, ok) PROVE CallerAwaited'
  BY <1>2 DEF CountDown, Goto
<1>3. ASSUME NEW r \in Requests, Tell(r) PROVE CallerAwaited'
  BY <1>3 DEF Tell
<1>4. CASE Wait
  <2>1. active' = active /\ active \in Nat /\ active <= MaxThreads /\ ~(active < MaxThreads)
    BY <1>4 DEF Wait, CallerOvertaken
  <2> QED  BY <2>1, ClientPoolAssumption
<1>5. CASE Full \/ SpuriousWakeUp \/ WaitAll
  BY <1>5 DEF Full, SpuriousWakeUp, WaitAll
<1>6. CASE UNCHANGED poolVars
  BY <1>6 DEF poolVars
<1> QED  BY <1>1, <1>2, <1>3, <1>4, <1>5, <1>6 DEF PoolNext

\* As long as the caller is not overtaken between its test and its wait, it
\* waits only while a thread is at work that will notify it.
THEOREM OnlyOvertakenCallerSleeps == PoolSpec /\ []~CallerOvertaken => []CallerAwaited
<1>1. PoolInit => CallerAwaited
  BY DEF PoolInit, CallerAwaited
<1>2. PoolInv /\ PoolInv' /\ ~CallerOvertaken /\ CallerAwaited /\ [PoolNext]_poolVars => CallerAwaited'
  BY AwaitedStep
<1> QED  BY <1>1, <1>2, PoolInvariant, PTL DEF PoolSpec

-----------------------------------------------------------------------------
\* Window counts as this module does.
LEMMA SameCardinality == \A S : Win!Cardinality(S) = Cardinality(S)
  BY DEF Cardinality, Win!Cardinality

\* Each step of the pool is a step of the window, or none.
LEMMA StepIsWindowStep ==
    PoolInv /\ [PoolNext]_poolVars => [Win!Next]_<<Flight, Asked>>
<1> SUFFICES ASSUME PoolInv, [PoolNext]_poolVars PROVE [Win!Next]_<<Flight, Asked>>
  OBVIOUS
<1> USE DEF PoolInv, PoolTypeOK
<1>1. ASSUME NEW r \in Requests, Submit(r) PROVE Win!Submit(r)
  <2>1. r \notin Asked /\ Cardinality(Flight) < MaxThreads
    BY <1>1 DEF Submit, Goto, Asked, Flight, In, SlotsExact
  <2>2. Flight' = Flight \cup {r} /\ Asked' = Asked \cup {r}
    BY <1>1 DEF Submit, Goto, Asked, Flight, In
  <2> QED  BY <2>1, <2>2, SameCardinality DEF Win!Submit, Asked, Flight
<1>2. ASSUME NEW r \in Requests, NEW ok \in BOOLEAN, CountDown(r, ok) PROVE Win!Return(r)
  BY <1>2 DEF CountDown, Goto, Win!Return, In
<1>3. ASSUME NEW r \in Requests, Tell(r) PROVE UNCHANGED <<Flight, Asked>>
  BY <1>3 DEF Tell, Goto, Asked, Flight, In
<1>4. ASSUME WaitAll PROVE Win!WaitForAll
  <2>1. Flight = {} /\ Flight' = {} /\ Asked' = {}
    BY <1>4 DEF WaitAll, Flight, Asked, In
  <2> QED  BY <2>1 DEF Win!WaitForAll, Flight, Asked
<1>5. CASE Full \/ Wait \/ SpuriousWakeUp \/ UNCHANGED poolVars
  BY <1>5 DEF Full, Wait, SpuriousWakeUp, poolVars, Asked, Flight, In
<1> QED  BY <1>1, <1>2, <1>3, <1>4, <1>5 DEF PoolNext, Win!Next

\* The rest of the client may take the pool for Window.
THEOREM PoolImplementsWindow == PoolSpec => PoolIsWindow
<1>1. PoolInit => Win!Init
  BY DEF PoolInit, Win!Init, In
<1>2. PoolInv /\ [PoolNext]_poolVars => [Win!Next]_<<In({"running"}), In({"running", "notify", "over"})>>
  BY StepIsWindowStep DEF Flight, Asked
<1> QED  BY <1>1, <1>2, PoolInvariant, PTL DEF PoolSpec, PoolIsWindow, Win!Spec
=============================================================================
