----------------------------- MODULE Connection -----------------------------
(***************************************************************************)
(* One request over one connection at a time: send_and_receive and the     *)
(* Socket_API under it at the client's end; accept, discard and one pass   *)
(* through Server_API::run at the server's, where every connection has a   *)
(* thread.  Requests are independent of each other but for the caller.     *)
(*                                                                         *)
(* TCP: a write of a short message always finds room; a long one does not  *)
(* end before the server reads, and is reset where the server has shut the *)
(* connection down; what has arrived can be read also after a reset.  The  *)
(* message is the code of an answer, okay, error or retry later; and what   *)
(* becomes of a request's header (Header).                                 *)
(***************************************************************************)
EXTENDS Naturals, FiniteSets, Header

CONSTANTS Requests,
          Messages,      \* what each may send: sets of codes and lengths
          Long,          \* those whose message does not fit into the buffers
          MaxBusy,       \* bound: connections discarded by a full server
          Fragile,       \* bound: those whose connection may suffer
          MaxMishaps     \* bound: so many of them do

\* Those whose header may come out right at the server, and those whose may not.
Legible   == {r \in Requests : \E m \in Messages[r] : Survives(m)}
Illegible == {r \in Requests : \E m \in Messages[r] : ~Survives(m)}

ASSUME ConnectionAssumption ==
    /\ (Long \cup Fragile) \subseteq Requests /\ {MaxBusy, MaxMishaps} \subseteq Nat
    /\ Illegible \subseteq Long

VARIABLES
    at,        \* the caller of each request
    link,      \* its connection as the network has it
    wire,      \* the whole message is at the server
    peer,      \* the server's end
    answer,    \* what the server has sent
    served,    \* how often the server has handled the request
    busy,      \* connections discarded
    hurt       \* requests whose connection suffered

connVars == <<at, link, wire, peer, answer, served, busy, hurt>>

Waiting == {"opening", "sending", "reading", "sleeping"}
Ended   == {"okay", "refused", "failed"}

ConnInit == /\ at = [r \in Requests |-> "idle"]
            /\ link = [r \in Requests |-> "none"] /\ wire = [r \in Requests |-> FALSE]
            /\ peer = [r \in Requests |-> "none"] /\ answer = [r \in Requests |-> "none"]
            /\ served = [r \in Requests |-> 0]
            /\ busy = 0 /\ hurt = {}

\* The network does something to the connection of r.
Mishap(r) == r \in Fragile \ hurt /\ Cardinality(hurt) < MaxMishaps /\ hurt' = hurt \cup {r}

Step(r, from, to) == at[r] = from /\ at' = [at EXCEPT ![r] = to]
Serve(r, from, to) == peer[r] = from /\ peer' = [peer EXCEPT ![r] = to]

-----------------------------------------------------------------------------
\* The client's end: Client_socket_API::send_and_receive.

Call(r) == Step(r, "idle", "opening") /\ UNCHANGED <<link, wire, peer, answer, served, busy, hurt>>

\* A connection of its own, as keep_alive is not set: what was left of the one
\* before is closed.
Fresh(r) == /\ link' = [link EXCEPT ![r] = "up"] /\ peer' = [peer EXCEPT ![r] = "backlog"]
            /\ wire' = [wire EXCEPT ![r] = FALSE] /\ answer' = [answer EXCEPT ![r] = "none"]

Open(r) == Step(r, "opening", "sending") /\ Fresh(r) /\ UNCHANGED <<served, busy, hurt>>

\* Nobody accepts connections, or the connection is there only after
\* CONN_TIMEOUT: nothing is sent over it, and the server waits for a request.
OpenFails(r) == /\ Step(r, "opening", "failed") /\ Mishap(r)
                /\ Fresh(r) \/ UNCHANGED <<link, wire, peer, answer>>
                /\ UNCHANGED <<served, busy>>

\* Socket_API::send.
Send(r) == /\ \/ /\ Step(r, "sending", "reading")
                 /\ link[r] = "up" /\ r \in Legible /\ (r \in Long => peer[r] = "receive")
                 /\ wire' = [wire EXCEPT ![r] = TRUE]
              \/ /\ Step(r, "sending", "failed")
                 /\ link[r] = "down" \/ (r \in Long /\ peer[r] = "gone")
                 /\ UNCHANGED wire
           /\ UNCHANGED <<link, peer, answer, served, busy, hurt>>

\* Mutant: a server that is busy is a failure like any other.
BusyFails == [okay |-> "okay", error |-> "refused", busy |-> "failed"]

\* What becomes of the request with an answer: after RETRY_LATER it is made
\* again, as often as that comes.
Outcome == [okay |-> "okay", error |-> "refused", busy |-> "sleeping"]

\* Socket_API::receive.
Receive(r) == /\ answer[r] # "none" /\ Step(r, "reading", Outcome[answer[r]])
              /\ UNCHANGED <<link, wire, peer, answer, served, busy, hurt>>

\* The connection has ended, and no answer has come or it was lost.
NothingToRead(r) == link[r] = "down" \/ (link[r] = "up" /\ peer[r] = "gone" /\ answer[r] = "none")

\* Mutant: the connection is opened again and the request repeated, as the code
\* would if receive kept the error that is_connection_error_ looks for.
Reconnect(r) == /\ NothingToRead(r) /\ Step(r, "reading", "opening")
                /\ UNCHANGED <<link, wire, peer, answer, served, busy, hurt>>

\* receive replaces the socket's error code by an error without one, so
\* is_connection_error_ is never true and the request has failed.
ReceiveFails(r) == /\ NothingToRead(r) /\ Step(r, "reading", "failed")
                   /\ UNCHANGED <<link, wire, peer, answer, served, busy, hurt>>

\* retry_delay_ has passed.
Retry(r) == /\ Step(r, "sleeping", "opening")
            /\ UNCHANGED <<link, wire, peer, answer, served, busy, hurt>>

\* The process of the callers lets go of requests, or the socket that two of
\* them share does.
Abandon(S) == /\ \A r \in S : at[r] \in Waiting
              /\ at' = [r \in Requests |-> IF r \in S THEN "failed" ELSE at[r]]
              /\ link' = [r \in Requests |-> IF r \in S /\ link[r] = "up" THEN "down" ELSE link[r]]
              /\ hurt' = hurt \cup S
              /\ UNCHANGED <<wire, peer, answer, served, busy>>

-----------------------------------------------------------------------------
\* The server's end.

Accept(r) == /\ Serve(r, "backlog", "receive")
             /\ UNCHANGED <<at, link, wire, answer, served, busy, hurt>>

\* All threads are taken, by whomever: RETRY_LATER is sent and the connection is
\* shut down without a look at the request.
Discard(r) == /\ busy < MaxBusy /\ busy' = busy + 1
              /\ Serve(r, "backlog", "gone")
              /\ answer' = [answer EXCEPT ![r] = IF link[r] = "up" THEN "busy" ELSE "none"]
              /\ UNCHANGED <<at, link, wire, served, hurt>>

\* run receives the request, which may have come before a reset.
Take(r) == /\ wire[r] /\ Serve(r, "receive", "handle")
           /\ UNCHANGED <<at, link, wire, answer, served, busy, hurt>>

\* The header comes out wrong: that ends run, with an error for an answer.
Misread(r) == /\ r \in Illegible /\ at[r] = "sending"
              /\ Serve(r, "receive", "gone")
              /\ answer' = [answer EXCEPT ![r] = IF link[r] = "up" THEN "error" ELSE "none"]
              /\ UNCHANGED <<at, link, wire, served, busy, hurt>>

\* Mutant: nothing is received, but the thread waits on.
TakeFailsOnReset(r) == /\ link[r] = "down" /\ Serve(r, "receive", "gone")
                       /\ UNCHANGED <<at, link, wire, answer, served, busy, hurt>>

\* The connection was reset, or its client has left it unused until it was
\* closed or SOCKET_TIMEOUT was over.
TakeFails(r) == /\ link[r] = "down" \/ (at[r] \in Ended /\ ~wire[r])
                /\ Serve(r, "receive", "gone")
                /\ UNCHANGED <<at, link, wire, answer, served, busy, hurt>>

\* SOCKET_TIMEOUT is over before the request is there, or just as it comes.
Timeout(r) == /\ at[r] \notin Ended /\ Mishap(r) /\ Serve(r, "receive", "gone")
              /\ UNCHANGED <<at, link, wire, answer, served, busy>>

\* The request is served and answered.
Handle(r, reply) ==
    /\ Serve(r, "handle", "gone")
    /\ served' = [served EXCEPT ![r] = @ + 1]
    /\ answer' = [answer EXCEPT ![r] = IF link[r] = "up" THEN reply ELSE "none"]
    /\ UNCHANGED <<at, link, wire, busy, hurt>>

-----------------------------------------------------------------------------
\* The network.

Break(r) == /\ at[r] \in {"sending", "reading"} /\ link[r] = "up" /\ Mishap(r)
            /\ link' = [link EXCEPT ![r] = "down"]
            /\ UNCHANGED <<at, wire, peer, answer, served, busy>>

\* The server or the way to it vanishes without a word, after the request has
\* arrived: a client that only reads never learns of it.
FallSilent(r) == /\ at[r] = "reading" /\ peer[r] = "handle" /\ link[r] = "up" /\ Mishap(r)
                 /\ link' = [link EXCEPT ![r] = "silent"]
                 /\ UNCHANGED <<at, wire, peer, answer, served, busy>>

-----------------------------------------------------------------------------
Caller(r)  == Open(r) \/ Send(r) \/ Receive(r) \/ ReceiveFails(r) \/ Retry(r)
Server(r)  == Accept(r) \/ Discard(r) \/ Take(r) \/ Misread(r) \/ TakeFails(r)
Network(r) == OpenFails(r) \/ Timeout(r) \/ Break(r) \/ FallSilent(r)

ConnNext == \/ \E r \in Requests : \/ Call(r) \/ Caller(r) \/ Server(r) \/ Network(r)
                                   \/ \E reply \in {"okay", "error"} : Handle(r, reply)
            \/ \E S \in SUBSET Requests : Abandon(S)

ConnSpec == ConnInit /\ [][ConnNext]_connVars

-----------------------------------------------------------------------------
\* The values the variables take.
ConnTypeOK ==
    /\ at \in [Requests -> Waiting \cup Ended \cup {"idle"}]
    /\ link \in [Requests -> {"none", "up", "down", "silent"}] /\ wire \in [Requests -> BOOLEAN]
    /\ peer \in [Requests -> {"none", "backlog", "receive", "handle", "gone"}]
    /\ answer \in [Requests -> {"none", "okay", "error", "busy"}]
    /\ served \in [Requests -> Nat] /\ busy \in 0..MaxBusy /\ hurt \subseteq Requests

\* A request is served once at most, however often a busy server had it sent
\* again and wherever its connection broke, and what the caller is told of an
\* answer is true.
Once == INSTANCE AtMostOnce
        WITH call <- [r \in Requests |-> IF at[r] \in Waiting THEN "waiting" ELSE at[r]],
             ran <- served
ServedAtMostOnce == Once!Spec

\* A busy server alone makes no request fail, however often it sends it away,
\* unless the request is long: that one is reset while it is written.  What the
\* connection does not spoil can be spoiled by the header only.
BusyComesBack ==
    \A r \in Requests : at[r] = "failed" => \/ r \in hurt
                                            \/ r \in Long /\ (answer[r] = "busy" \/ r \in Illegible)
=============================================================================
