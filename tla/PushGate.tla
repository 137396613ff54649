------------------------------ MODULE PushGate ------------------------------
(***************************************************************************)
(* The gate at the top of Server::push (server/Server.cpp:108-111) and its *)
(* exits (184-185, and the same two statements on every error path).       *)
(*                                                                         *)
(* The pushes of one session run one at a time: a worker takes session->m_,*)
(* waits on session->cv_ while session->active_thread_ is set, sets the    *)
(* flag and unlocks.  An exit clears the flag and calls notify_one WITHOUT *)
(* taking session->m_, so both can fall between the test of the predicate  *)
(* and the moment the waiter is in the condition variable's wait set.      *)
(* cv.wait(lock, pred) is `while (!pred()) wait(lock)': each of its steps  *)
(* is an action here.                                                      *)
(***************************************************************************)
CONSTANTS Workers,    \* the worker threads of the server
          Sessions,   \* the Session objects
          None        \* no session, no mutex owner

ASSUME NoneAssumption == None \notin Workers /\ None \notin Sessions

VARIABLES
    pc,        \* where each worker is
    sess,      \* the session a worker's push belongs to, None between pushes
    mutex,     \* owner of session->m_
    active     \* session->active_thread_

vars == <<pc, sess, mutex, active>>

Locations == {"idle", "lock", "test", "block", "claim", "waiting", "woken",
              "body", "notify"}

Init == /\ pc = [w \in Workers |-> "idle"]
        /\ sess = [w \in Workers |-> None]
        /\ mutex = [s \in Sessions |-> None]
        /\ active = [s \in Sessions |-> FALSE]

-----------------------------------------------------------------------------
At(l, s) == {w \in Workers : pc[w] = l /\ sess[w] = s}

Goto(w, from, to) == pc[w] = from /\ pc' = [pc EXCEPT ![w] = to]

\* Mutants: one plausible slip in the code each.

\* The wait keeps the mutex.
BlockHoldingMutex(w) == Goto(w, "block", "waiting") /\ UNCHANGED <<sess, mutex, active>>

\* cv_.wait without the predicate's loop: a woken worker claims at once.
TestOnce(w) == /\ Goto(w, "test", "claim")
               /\ UNCHANGED <<sess, mutex, active>>

\* An exit path that returns without clearing the flag (a bare `return
\* false' inside the try).
FinishKeepsFlag(w) == Goto(w, "body", "notify") /\ UNCHANGED <<sess, mutex, active>>

\* An exit path that forgets notify_one.
NotifyNobody(w) == /\ Goto(w, "notify", "idle")
                   /\ sess' = [sess EXCEPT ![w] = None]
                   /\ UNCHANGED <<mutex, active>>

\* An exit path that leaves at once, its request still bound to the session.
FinishAndLeave(w) == /\ Goto(w, "body", "idle")
                     /\ active' = [active EXCEPT ![sess[w]] = FALSE]
                     /\ UNCHANGED <<sess, mutex>>

\* A worker tests the flag without taking the mutex.
LockWithoutMutex(w) == /\ pc[w] \in {"lock", "woken"}
                       /\ pc' = [pc EXCEPT ![w] = "test"]
                       /\ UNCHANGED <<sess, mutex, active>>

-----------------------------------------------------------------------------
\* The steps of a push.

\* A request of type PUSH for session s reaches the handler.
Enter(w, s) == /\ Goto(w, "idle", "lock")
               /\ sess' = [sess EXCEPT ![w] = s]
               /\ UNCHANGED <<mutex, active>>

\* unique_lock's constructor, or the re-acquisition at the end of a wait.
Lock(w) == /\ pc[w] \in {"lock", "woken"}
           /\ mutex[sess[w]] = None
           /\ mutex' = [mutex EXCEPT ![sess[w]] = w]
           /\ pc' = [pc EXCEPT ![w] = "test"]
           /\ UNCHANGED <<sess, active>>

\* The predicate of cv_.wait: an atomic load of the flag, under the mutex.
Test(w) == /\ \/ Goto(w, "test", "block") /\ active[sess[w]]
              \/ Goto(w, "test", "claim") /\ ~active[sess[w]]
           /\ UNCHANGED <<sess, mutex, active>>

\* The wait proper: enter the wait set and release the mutex, in one step.
Block(w) == /\ Goto(w, "block", "waiting")
            /\ mutex' = [mutex EXCEPT ![sess[w]] = None]
            /\ UNCHANGED <<sess, active>>

\* The standard allows a wait to return without a notification.
SpuriousWake(w) == Goto(w, "waiting", "woken") /\ UNCHANGED <<sess, mutex, active>>

\* session->active_thread_ = true; lock.unlock().
Claim(w) == /\ Goto(w, "claim", "body")
            /\ active' = [active EXCEPT ![sess[w]] = TRUE]
            /\ mutex' = [mutex EXCEPT ![sess[w]] = None]
            /\ UNCHANGED sess

\* Any exit of the push: session->active_thread_ = false, without the mutex.
Finish(w) == /\ Goto(w, "body", "notify")
             /\ active' = [active EXCEPT ![sess[w]] = FALSE]
             /\ UNCHANGED <<sess, mutex>>

\* cv_.notify_one: wakes one waiter if there is one, and is lost otherwise.
\* The push returns.
Notify(w) ==
    /\ pc[w] = "notify"
    /\ LET waiters == At("waiting", sess[w])
       IN \/ /\ waiters = {}
             /\ pc' = [pc EXCEPT ![w] = "idle"]
          \/ \E u \in waiters :
                pc' = [pc EXCEPT ![u] = "woken", ![w] = "idle"]
    /\ sess' = [sess EXCEPT ![w] = None]
    /\ UNCHANGED <<mutex, active>>

Step(w) == Lock(w) \/ Test(w) \/ Block(w) \/ Claim(w) \/ Finish(w) \/ Notify(w)

Next == \E w \in Workers : \/ \E s \in Sessions : Enter(w, s)
                           \/ Step(w)
                           \/ SpuriousWake(w)

Spec == Init /\ [][Next]_vars

\* The scheduler runs every thread, and a mutex that is free again and again
\* is eventually granted.  Nobody owes the server a new request, and no wait
\* owes it a spurious wake-up.
FairSpec == /\ Spec
            /\ \A w \in Workers : SF_vars(Lock(w)) /\ WF_vars(Step(w))

-----------------------------------------------------------------------------
\* The values the variables take: a worker has a session exactly while it is
\* serving a push.
TypeOK == /\ pc \in [Workers -> Locations]
          /\ sess \in [Workers -> Sessions \cup {None}]
          /\ mutex \in [Sessions -> Workers \cup {None}]
          /\ active \in [Sessions -> BOOLEAN]
          /\ \A w \in Workers : sess[w] = None <=> pc[w] = "idle"

\* The mutex of a session is owned by the worker that is testing, about to
\* wait or about to claim, and by nobody else.
MutexOwned == \A w \in Workers, s \in Sessions :
                mutex[s] = w <=> sess[w] = s /\ pc[w] \in {"test", "block", "claim"}

\* The flag a worker found clear is still clear when it sets it.  The flag is
\* cleared outside the mutex, so only the setters could break this.
ClaimFresh == \A w \in Workers : pc[w] = "claim" => ~active[sess[w]]

\* active_thread_ is set exactly while a worker is in the body of its push:
\* no exit leaves it set, no exit clears it under another worker.
FlagOwned == \A s \in Sessions : active[s] <=> At("body", s) # {}

\* Two pushes of one session are never between gate and exit together.  What
\* the two stores behind the push (backup directory and database) rely on.
MutualExclusion == \A u, v \in Workers :
                     /\ pc[u] = "body" /\ pc[v] = "body"
                     /\ sess[u] = sess[v]
                     => u = v

\* A worker that will reach the exit of a push of session s, or will test
\* the flag again because it has been woken.
Carriers(s) == {w \in Workers : /\ sess[w] = s
                                /\ pc[w] \in {"body", "notify", "woken", "test", "claim"}}

\* The lost wake-up strands at most one push of a session: as soon as two
\* workers wait, some other worker still has to pass the gate's exit, and its
\* notify_one will free one of the two.
StrandsAtMostOne == \A u, v \in Workers :
                      /\ u # v
                      /\ pc[u] = "waiting" /\ pc[v] = "waiting"
                      /\ sess[u] = sess[v]
                      => Carriers(sess[u]) # {}

\* A worker about to wait saw the flag set while the mutex kept the other
\* waiters from testing it: if one of those exists, the exit it waits for is
\* still to come, or has already woken it.
BlockedBehindExit == \A u, v \in Workers :
                       /\ pc[u] = "block" /\ pc[v] = "waiting"
                       /\ sess[u] = sess[v]
                       => \E w \in Workers : /\ sess[w] = sess[u]
                                             /\ pc[w] \in {"body", "notify", "woken"}

\* The inductive invariant.
IInv == /\ TypeOK
        /\ MutexOwned
        /\ ClaimFresh
        /\ FlagOwned
        /\ MutualExclusion
        /\ BlockedBehindExit
        /\ StrandsAtMostOne

\* The gate is a lock: the abstract specification, with the workers in the
\* body of a push inside the session's lock.
inside == [s \in Sessions |-> At("body", s)]
Lk == INSTANCE Mutex
Implements == Lk!Spec

-----------------------------------------------------------------------------
\* The gate is given back: no exit path forgets to clear active_thread_.
GateReleased == \A s \in Sessions : active[s] ~> ~active[s]

\* A worker that reached the gate gets the mutex and decides: it enters the
\* body, or it ends up in the wait set; it is never kept out by the others.
GateDecides == \A w \in Workers : pc[w] \in {"lock", "woken"} ~> pc[w] \in {"body", "waiting"}

\* Two or more waiters of a session never stay as they are: a notify_one
\* reaches one of them in the end, though the exits notify without the mutex.
\* It need not reach a given one: the condition variable is not fair.
WaitersMove == \A s \in Sessions : \A W \in SUBSET Workers :
                 (\E u, v \in W : u # v)
                 => (At("waiting", s) = W ~> At("waiting", s) # W)

\* Every push that reaches the gate returns to its caller (Server.h:52-54
\* documents the result of every push).
PushReturns == \A w \in Workers : pc[w] = "lock" ~> pc[w] = "idle"

=============================================================================
