------------------------------- MODULE Window -------------------------------
(***************************************************************************)
(* What the pool of Client_socket_API promises the rest of the client: at  *)
(* most MaxThreads requests are in flight, and a wait for all of them ends *)
(* with none.  ClientPool implements it.                                   *)
(***************************************************************************)
EXTENDS Naturals, FiniteSets

CONSTANTS Requests,     \* what can be asked for
          MaxThreads    \* how many requests can be in flight

VARIABLES flight,       \* the requests in flight
          asked         \* the requests made since the last wait for all

Init == flight = {} /\ asked = {}

Submit(r) == /\ r \notin asked /\ Cardinality(flight) < MaxThreads
             /\ flight' = flight \cup {r}
             /\ asked' = asked \cup {r}

Return(r) == r \in flight /\ flight' = flight \ {r} /\ UNCHANGED asked

\* All are waited for.
WaitForAll == flight = {} /\ asked' = {} /\ UNCHANGED flight

Next == (\E r \in Requests : Submit(r) \/ Return(r)) \/ WaitForAll

Spec == Init /\ [][Next]_<<flight, asked>>
=============================================================================
