------------------------------- MODULE Mutex -------------------------------
(***************************************************************************)
(* What the gate of Server::push promises: for every session, at most one  *)
(* worker thread of the server is between the gate and the end of its      *)
(* push.  How the gate is built (a std::mutex, a condition variable and    *)
(* the flag active_thread_) is the business of PushGate, which implements  *)
(* this specification.                                                     *)
(***************************************************************************)

CONSTANTS Workers,    \* the worker threads of the server
          Sessions    \* the Session objects

VARIABLE inside       \* for each session, the workers inside its push body

\* No worker is inside any session.
Init == inside = [s \in Sessions |-> {}]

\* A worker enters a session that nobody is inside of.
Acquire(w, s) == /\ inside[s] = {}
                 /\ inside' = [inside EXCEPT ![s] = {w}]

\* The worker inside leaves.
Release(w, s) == /\ inside[s] = {w}
                 /\ inside' = [inside EXCEPT ![s] = {}]

Next == \E w \in Workers, s \in Sessions : Acquire(w, s) \/ Release(w, s)

Spec == Init /\ [][Next]_inside
=============================================================================
