------------------------------ MODULE ServerApi ------------------------------
(***************************************************************************)
(* The server's front: Server::accept with its bounded pool of threads,    *)
(* Server_API::run and discard, and the Session_manager, serving clients   *)
(* that log in, probe, push over several connections at once and end.      *)
(*                                                                         *)
(* Every request has a connection of its own, as the client in src/client  *)
(* never asks to keep one alive, so the loop of run is passed once.  What  *)
(* a handler does is in PushGate and Backup; here it is one step, run in   *)
(* the session that retrieve_session found for the request's cookie.       *)
(*                                                                         *)
(* sessions_ is a std::map without a lock.  A write of it (insert, erase)  *)
(* takes a while here; a search or a write that overlaps it may go wrong.  *)
(***************************************************************************)
EXTENDS Naturals, FiniteSets

CONSTANTS Clients,     \* running clients, each of a user of its own
          Conns,       \* connections there can be at a time
          None,        \* no client
          MaxThreads,  \* Server.h: MAX_THREADS
          Requests,    \* bound: the requests of each client
          MaxId,       \* bound: the sessions made by one run of the server
          Possible,    \* the mishaps that can happen, each of them once
          MaxMishaps   \* bound: mishaps in one behaviour

ASSUME ServerApiAssumption ==
    /\ None \notin Clients /\ IsFiniteSet(Conns) /\ MaxThreads \in Nat \ {0}
    /\ Requests \in [Clients -> Nat] /\ {MaxId, MaxMishaps} \subseteq Nat
    /\ Possible \subseteq {"break", "race", "restart"}

VARIABLES
    stage,     \* each client: it has yet to log in, is in, or has ended
    cookie,    \* Client_socket_API::cookie_, 0 for the empty string
    left,      \* requests a client may still make
    pc,        \* each connection: what its thread of the server does
    req,       \* the request on each connection
    open,      \* the connections whose client waits for the answer
    sess,      \* the Session object a thread holds, by its id
    active,    \* Server::n_active_threads_
    sessions,  \* the ids in Session_manager::sessions_
    user,      \* Session::user of each Session object, None for the empty string
    logged,    \* the ids whose Session object has login_status set
    counter,   \* Session_manager::session_counter_
    mishaps    \* a connection broke, the map went wrong, the server was restarted

clientVars == <<stage, cookie, left>>
connVars   == <<pc, req, open, sess>>
table      == <<sessions, user, logged, counter>>
vars       == <<clientVars, connVars, active, table, mishaps>>

Kinds == {"LOGIN", "PROBE", "PUSH", "END"}
Ids == 1..MaxId

\* cookie 0 is none; good: the password is right.
Request == [client : Clients, kind : Kinds, cookie : Ids \cup {0}, good : BOOLEAN]
NoRequest == [client |-> None, kind |-> "END", cookie |-> 0, good |-> FALSE]

Running == {"receive", "insert", "check", "handle", "erase", "pauseFind", "pauseInsert"}
Init == /\ stage = [k \in Clients |-> "new"]
        /\ cookie = [k \in Clients |-> 0]
        /\ left = Requests
        /\ pc = [c \in Conns |-> "free"] /\ req = [c \in Conns |-> NoRequest]
        /\ open = {} /\ sess = [c \in Conns |-> 0]
        /\ active = 0 /\ sessions = {} /\ user = [i \in Ids |-> None] /\ logged = {}
        /\ counter = 1 /\ mishaps = {}

Mishap(what) == /\ what \in Possible \ mishaps /\ Cardinality(mishaps) < MaxMishaps
                /\ mishaps' = mishaps \cup {what}

Goto(c, from, to) == pc[c] = from /\ pc' = [pc EXCEPT ![c] = to]

-----------------------------------------------------------------------------
\* The clients.

Pending(k) == {c \in open : req[c].client = k}

\* What a client may ask for: it logs in, again if it was refused; then one
\* request at a time but for pushes, which it makes in parallel; it ends when
\* its pushes are over, also if it never got in.
MayAsk(k, kind) ==
    /\ left[k] > 0
    /\ CASE kind = "LOGIN" -> stage[k] = "new" /\ Pending(k) = {}
         [] kind = "PROBE" -> stage[k] = "in" /\ Pending(k) = {}
         [] kind = "PUSH"  -> stage[k] = "in" /\ \A c \in Pending(k) : req[c].kind = "PUSH"
         [] OTHER          -> stage[k] # "done" /\ Pending(k) = {}

\* A connection is opened and the request is written to it, with the cookie
\* the client has now.
Connect(k, kind, c) ==
    /\ MayAsk(k, kind) /\ pc[c] = "free"
    /\ left' = [left EXCEPT ![k] = @ - 1]
    /\ pc' = [pc EXCEPT ![c] = "backlog"]
    /\ \E good \in IF kind = "LOGIN" THEN BOOLEAN ELSE {TRUE} :
          req' = [req EXCEPT ![c] = [client |-> k, kind |-> kind,
                                     cookie |-> cookie[k], good |-> good]]
    /\ open' = open \cup {c}
    /\ UNCHANGED <<stage, cookie, sess, active, table, mishaps>>

\* The request got no answer: a client that was ending ends all the same.
WithoutAnswer(C) ==
    stage' = [k \in Clients |->
                 IF \E c \in C \cap open : req[c].client = k /\ req[c].kind = "END"
                 THEN "done" ELSE stage[k]]

\* The connection breaks, or the client is gone.  The server learns of it
\* only if it waits for the request.
Sever(c) == /\ c \in open /\ Mishap("break")
            /\ open' = open \ {c}
            /\ WithoutAnswer({c})
            /\ UNCHANGED <<cookie, left, pc, req, sess, active, table>>

-----------------------------------------------------------------------------
\* Server::accept, on the one accepting thread.

\* Mutant: the thread counts itself when it has received its request.
AcceptUncounted(c) ==
    /\ pc[c] = "backlog"
    /\ pc' = [pc EXCEPT ![c] = IF active >= MaxThreads THEN "discard" ELSE "receive"]
    /\ UNCHANGED <<clientVars, req, open, sess, active, table, mishaps>>

Accept(c) ==
    /\ \/ /\ active >= MaxThreads
          /\ Goto(c, "backlog", "discard")
          /\ UNCHANGED active
       \/ /\ active < MaxThreads
          /\ Goto(c, "backlog", "receive")
          /\ active' = active + 1
    /\ UNCHANGED <<clientVars, req, open, sess, table, mishaps>>

\* Mutant: the discarding thread counts itself out as the others do.
DiscardCountsDown(c) ==
    /\ Goto(c, "discard", "free")
    /\ open' = open \ {c}
    /\ active' = active - 1
    /\ req' = [req EXCEPT ![c] = NoRequest]
    /\ UNCHANGED <<clientVars, sess, table, mishaps>>

\* Server_API::discard: nothing is read, RETRY_LATER is sent, the connection
\* is closed.  The client sleeps and asks again.
Discard(c) ==
    /\ Goto(c, "discard", "free")
    /\ open' = open \ {c}
    /\ left' = IF c \in open THEN [left EXCEPT ![req[c].client] = @ + 1] ELSE left
    /\ req' = [req EXCEPT ![c] = NoRequest]
    /\ UNCHANGED <<stage, cookie, sess, active, table, mishaps>>

-----------------------------------------------------------------------------
\* Server_API::run.

\* Nothing came before the end of the connection or the timeout, or the whole
\* request came with the timeout and is left alone: run breaks out of its
\* loop, holding an empty message or the request.
ReceiveFails(c) ==
    /\ Goto(c, "receive", "pauseFind")
    /\ \E id \in {0} \cup IF c \in open THEN {req[c].cookie} ELSE {} :
          req' = [req EXCEPT ![c].cookie = id]
    /\ IF c \in open THEN Mishap("break") ELSE UNCHANGED mishaps
    /\ open' = open \ {c}
    /\ WithoutAnswer({c})
    /\ UNCHANGED <<cookie, left, sess, active, table>>

\* Another thread is writing the map.
MapIsWritten(c) == \E e \in Conns \ {c} : pc[e] \in {"insert", "erase", "pauseInsert"}

\* An operation on the map meets that write and goes wrong.
Race(c) == MapIsWritten(c) /\ Mishap("race")

\* Mutant: ids are taken from the size of the map.
IdFromSize == Cardinality(sessions) + 1

\* The next session's id.
NextId == counter

\* sessions_.find and, if there is no such session, a new Session.
Search(c, found, missing) ==
    \/ /\ req[c].cookie \in sessions /\ found
       /\ UNCHANGED <<user, logged, counter, mishaps>>
    \/ /\ \/ req[c].cookie \notin sessions /\ UNCHANGED mishaps
          \/ req[c].cookie \in sessions /\ Race(c)
       /\ NextId \in Ids
       /\ missing
       /\ sess' = [sess EXCEPT ![c] = NextId]
       /\ user' = [user EXCEPT ![NextId] = None] /\ logged' = logged \ {NextId}
       /\ counter' = counter + 1

\* sessions_.insert_or_assign.
InsertSession(c) == \/ sessions' = sessions \cup {sess[c]} /\ UNCHANGED mishaps
                    \/ sessions' = sessions /\ Race(c)

\* The request is received, be its client still there or not, and
\* retrieve_session looks for its session.
Receive(c) == /\ Search(c, Goto(c, "receive", "check") /\ sess' = [sess EXCEPT ![c] = req[c].cookie],
                           Goto(c, "receive", "insert"))
              /\ UNCHANGED <<clientVars, req, open, active, sessions>>

Insert(c) == /\ Goto(c, "insert", "check")
             /\ InsertSession(c)
             /\ UNCHANGED <<clientVars, req, open, sess, active, user, logged, counter>>

\* Nobody but a session that is logged in may do anything but log in.  The
\* error message has an empty cookie, and the client's own thread takes that
\* one like any other.
Admit(c) == /\ Goto(c, "check", "handle")
            /\ req[c].kind = "LOGIN" \/ sess[c] \in logged
            /\ UNCHANGED <<clientVars, req, open, sess, active, table, mishaps>>

Refuse(c) ==
    /\ Goto(c, "check", "pauseFind")
    /\ req[c].kind # "LOGIN" /\ sess[c] \notin logged
    /\ open' = open \ {c}
    /\ cookie' = IF c \in open /\ req[c].kind # "PUSH"
                 THEN [cookie EXCEPT ![req[c].client] = 0] ELSE cookie
    /\ WithoutAnswer({c})
    /\ UNCHANGED <<left, req, sess, active, table, mishaps>>

\* Server::login sets the session's user if the password is right; do_login_
\* sets or clears the status, and a wrong password leaves the user there.
Login(c) ==
    /\ user' = [user EXCEPT ![sess[c]] = IF req[c].good THEN req[c].client ELSE @]
    /\ logged' = IF req[c].good THEN logged \cup {sess[c]} ELSE logged \ {sess[c]}

\* The handler and its answer; none but the login changes the session.
\* The answer carries the session's cookie: the client's own thread keeps it;
\* a push has a Client_socket_API, and a cookie, of its own.
Handle(c) ==
    /\ pc[c] = "handle"
    /\ pc' = [pc EXCEPT ![c] = IF req[c].kind = "END" THEN "erase" ELSE "pauseFind"]
    /\ IF req[c].kind = "LOGIN" THEN Login(c) ELSE UNCHANGED <<user, logged>>
    /\ open' = open \ {c}
    /\ LET k == req[c].client
       IN IF c \notin open THEN UNCHANGED <<stage, cookie>>
          ELSE /\ cookie' = IF req[c].kind = "PUSH" THEN cookie
                            ELSE [cookie EXCEPT ![k] = sess[c]]
               /\ stage' = CASE req[c].kind = "LOGIN" /\ req[c].good -> [stage EXCEPT ![k] = "in"]
                             [] req[c].kind = "END" -> [stage EXCEPT ![k] = "done"]
                             [] OTHER -> stage
    /\ UNCHANGED <<left, req, sess, active, sessions, counter, mishaps>>

\* remove_session, after the answer to END: the search in it may miss the
\* session, which then stays.
Erase(c) == /\ Goto(c, "erase", "pauseFind")
            /\ \/ sessions' = sessions \ {sess[c]} /\ UNCHANGED mishaps
               \/ sessions' = sessions /\ Race(c)
            /\ UNCHANGED <<clientVars, req, open, sess, active, user, logged, counter>>

\* Back in the thread's lambda: terminate_ closes the connection and the count
\* goes down.
Leave(c, from) == /\ Goto(c, from, "free")
                  /\ active' = active - 1
                  /\ req' = [req EXCEPT ![c] = NoRequest]
                  /\ sess' = [sess EXCEPT ![c] = 0]

\* Mutant: pausing a session drops it.
PauseDrops(c) == /\ Leave(c, "pauseFind")
                 /\ sessions' = sessions \ {req[c].cookie}
                 /\ UNCHANGED <<clientVars, open, user, logged, counter, mishaps>>

\* pause_session retrieves the session again, by the cookie of the message,
\* and makes one if there is none: a request without a cookie, and an END,
\* leave behind a session nobody knows.
PauseFind(c) == /\ Search(c, Leave(c, "pauseFind"), Goto(c, "pauseFind", "pauseInsert") /\ UNCHANGED <<active, req>>)
                /\ UNCHANGED <<clientVars, open, sessions>>

PauseInsert(c) == /\ Leave(c, "pauseInsert")
                  /\ InsertSession(c)
                  /\ UNCHANGED <<clientVars, open, user, logged, counter>>

\* The server is stopped and started again: threads, connections and sessions
\* are gone, the ids begin anew.  Clients keep their cookies.
Restart == /\ Mishap("restart")
           /\ WithoutAnswer(Conns)
           /\ pc' = [c \in Conns |-> "free"] /\ req' = [c \in Conns |-> NoRequest]
           /\ open' = {} /\ sess' = [c \in Conns |-> 0]
           /\ active' = 0 /\ sessions' = {} /\ user' = [i \in Ids |-> None] /\ logged' = {}
           /\ counter' = 1
           /\ UNCHANGED <<cookie, left>>

-----------------------------------------------------------------------------
Thread(c) == \/ Receive(c) \/ ReceiveFails(c) \/ Insert(c) \/ Admit(c)
             \/ Refuse(c) \/ Handle(c) \/ Erase(c)
             \/ PauseFind(c) \/ PauseInsert(c)

Next == \/ \E c \in Conns : \/ \E k \in Clients, kind \in Kinds : Connect(k, kind, c)
                            \/ Sever(c) \/ Accept(c) \/ Discard(c) \/ Thread(c)
        \/ Restart

Spec == Init /\ [][Next]_vars

-----------------------------------------------------------------------------
\* The values the variables take.
TypeOK ==
    /\ stage \in [Clients -> {"new", "in", "done"}]
    /\ cookie \in [Clients -> Ids \cup {0}] /\ left \in [Clients -> Nat] /\ \A k \in Clients : left[k] <= Requests[k]
    /\ pc \in [Conns -> Running \cup {"free", "backlog", "discard"}]
    /\ req \in [Conns -> Request \cup {NoRequest}]
    /\ open \subseteq Conns /\ sess \in [Conns -> Ids \cup {0}]
    /\ active \in Nat /\ sessions \subseteq Ids /\ user \in [Ids -> Clients \cup {None}]
    /\ logged \subseteq Ids
    /\ counter \in 1..(MaxId + 1) /\ mishaps \subseteq Possible

\* The connections a thread serves.
Served == {c \in Conns : pc[c] \in Running}

\* The pool's counter is the number of threads that serve a connection, on
\* every path through run, and never more than MAX_THREADS.
PoolExact == active = Cardinality(Served) /\ active <= MaxThreads

\* As long as the server is not restarted, a request is handled as the user
\* who sent it: the session its cookie leads to bears that user's name, also
\* when the request arrives after the client's END and other users have come
\* and gone, when the map goes wrong, and when a late wrong login logs the
\* session out under the handler.
ServedAsSelf == "restart" \notin mishaps => \A c \in Conns :
    pc[c] = "handle" /\ req[c].kind # "LOGIN" => user[sess[c]] = req[c].client

\* A client that is in can go on: unless the map has gone wrong or the server
\* was restarted, its cookie leads to its own session and that session is
\* logged in.  If the connection of a wrong login broke, the server may still
\* handle it after the right one: the session is logged out, and the next
\* refusal takes the cookie away.  It never becomes another user's.
SessionKept == mishaps \subseteq {"break"} => \A k \in Clients : stage[k] = "in" =>
    \/ cookie[k] \in sessions \cap logged /\ user[cookie[k]] = k
    \/ /\ "break" \in mishaps
       /\ cookie[k] = 0 \/ (cookie[k] \in sessions /\ user[cookie[k]] = k)

-----------------------------------------------------------------------------
\* Session.h:34-38: the cookie identifies the session.  A push is handled as
\* the user who sent it, also by a server that was restarted since the login.
PushedAsSelf == \A c \in Conns :
    pc[c] = "handle" /\ req[c].kind = "PUSH" => user[sess[c]] = req[c].client
=============================================================================
