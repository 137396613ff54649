----------------------------- MODULE ClientPool -----------------------------
(***************************************************************************)
(* The client's pool of asynchronous requests, async_send_and_receive and  *)
(* wait_all_async of Client_socket_API, as one thread of the client uses   *)
(* it: the main thread while it probes or restores, the watcher's after.   *)
(*                                                                         *)
(* A request has a thread of its own.  The caller waits on cv_ while       *)
(* MAX_THREADS run.  A thread that is done lowers the count and calls      *)
(* notify_one without the mutex m_threads_ that the caller tests it under, *)
(* so both can fall between the caller's test and its wait.                *)
(***************************************************************************)
EXTENDS Naturals, FiniteSets

CONSTANTS Requests,     \* the requests that can be made between two waits for all
          MaxThreads    \* Client_socket_API.h: MAX_THREADS

ASSUME ClientPoolAssumption == IsFiniteSet(Requests) /\ MaxThreads \in Nat \ {0}

VARIABLES
    caller,     \* the calling thread: it runs, is about to wait, or waits
    thread,     \* each request: not made, its thread running, about to notify, or over
    active,     \* n_active_threads_
    good,       \* the requests whose callback has returned true
    status      \* what the last wait_all_async has returned

poolVars == <<caller, thread, active, good, status>>

PoolInit == /\ caller = "runs"
            /\ thread = [r \in Requests |-> "none"]
            /\ active = 0 /\ good = {} /\ status = TRUE

In(where) == {r \in Requests : thread[r] \in where}
Goto(r, from, to) == thread[r] = from /\ thread' = [thread EXCEPT ![r] = to]

-----------------------------------------------------------------------------
\* async_send_and_receive.

\* Mutant: the count is tested after it was raised.
SubmitOneMore(r) == /\ caller = "runs" /\ active <= MaxThreads
                    /\ Goto(r, "none", "running")
                    /\ active' = active + 1
                    /\ UNCHANGED <<caller, good, status>>

\* Mutant: the new thread is not counted.
SubmitUncounted(r) == /\ caller = "runs" /\ active < MaxThreads
                      /\ Goto(r, "none", "running")
                      /\ UNCHANGED <<caller, active, good, status>>

\* The test finds a free slot, and only the caller could take it.
Submit(r) == /\ caller = "runs" /\ active < MaxThreads
             /\ Goto(r, "none", "running")
             /\ active' = active + 1
             /\ UNCHANGED <<caller, good, status>>

\* The test finds none.
Full == /\ caller = "runs" /\ active >= MaxThreads /\ In({"none"}) # {}
        /\ caller' = "blocks"
        /\ UNCHANGED <<thread, active, good, status>>

Wait == caller = "blocks" /\ caller' = "waits" /\ UNCHANGED <<thread, active, good, status>>

SpuriousWakeUp == caller = "waits" /\ caller' = "runs" /\ UNCHANGED <<thread, active, good, status>>

\* The request is answered or has failed, the callback has judged it.
CountDown(r, ok) == /\ Goto(r, "running", "notify")
                    /\ active' = active - 1
                    /\ good' = IF ok THEN good \cup {r} ELSE good
                    /\ UNCHANGED <<caller, status>>

\* Mutant: the thread that ends does not notify.
TellNobody(r) == Goto(r, "notify", "over") /\ UNCHANGED <<caller, active, good, status>>

\* notify_one; the thread returns.
Tell(r) == /\ Goto(r, "notify", "over")
           /\ caller' = IF caller = "waits" THEN "runs" ELSE caller
           /\ UNCHANGED <<active, good, status>>

-----------------------------------------------------------------------------
\* Mutant: the futures are waited for, and their values are not looked at.
WaitAllDeaf == /\ caller = "runs" /\ In({"running", "notify"}) = {}
               /\ status' = TRUE
               /\ thread' = [r \in Requests |-> "none"] /\ good' = {}
               /\ UNCHANGED <<caller, active>>

\* wait_all_async.  A future that is not ready in WAIT_TIMEOUT counts as a
\* failure, but erasing it waits for its thread all the same: the function
\* returns when all threads have, and is true only if all callbacks were.
WaitAll == /\ caller = "runs" /\ In({"running", "notify"}) = {}
           /\ status' \in {In({"over"}) \subseteq good, FALSE}
           /\ thread' = [r \in Requests |-> "none"] /\ good' = {}
           /\ UNCHANGED <<caller, active>>

PoolNext == \/ \E r \in Requests : Submit(r) \/ (\E ok \in BOOLEAN : CountDown(r, ok)) \/ Tell(r)
            \/ Full \/ Wait \/ SpuriousWakeUp \/ WaitAll

PoolSpec == PoolInit /\ [][PoolNext]_poolVars

-----------------------------------------------------------------------------
\* The values the variables take.
PoolTypeOK == /\ caller \in {"runs", "blocks", "waits"}
              /\ thread \in [Requests -> {"none", "running", "notify", "over"}]
              /\ active \in Nat /\ good \subseteq Requests /\ status \in BOOLEAN

\* n_active_threads_ is the number of threads that have not lowered it yet, and
\* never above MAX_THREADS: a slot is neither lost nor given twice.
SlotsExact == active = Cardinality(In({"running"})) /\ active <= MaxThreads

\* The pool is the window the rest of the client takes it for.
Win == INSTANCE Window WITH flight <- In({"running"}), asked <- In({"running", "notify", "over"})
PoolIsWindow == Win!Spec
=============================================================================
