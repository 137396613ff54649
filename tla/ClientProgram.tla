---------------------------- MODULE ClientProgram ----------------------------
(***************************************************************************)
(* The client from its first question to its end: main, and Client with    *)
(* its watcher's thread.  It asks for its configuration (Setup), logs in,  *)
(* probes or restores, and watches until it is closed; every request goes  *)
(* over a connection of its own (Connection).                              *)
(*                                                                         *)
(* What a push, a probe and a restore do is in Backup and Restore.  Here   *)
(* they are requests, and the matter is who asks, waits for whom and ends  *)
(* what: closing and the watcher's failure both end the session, while     *)
(* pushes are on their way.  Two pushes meet at the gate of their session, *)
(* where one may be left asleep (PushGate).  The pool has room for every   *)
(* push, and the server removes a session together with its answer to END. *)
(***************************************************************************)
EXTENDS Setup, Connection

CONSTANTS Logins,    \* the attempts to log in, in their order; Client.h: MAX_ATTEMPTS
          Pushes     \* bound: the pushes of the watcher

Ends == {"end", "endAgain", "endWatcher"}
Attempts == {Logins[i] : i \in DOMAIN Logins}

ASSUME ClientProgramAssumption ==
    /\ Logins \in Seq(Requests) /\ Logins # <<>>
    /\ Requests = Attempts \cup {"sync"} \cup Pushes \cup Ends
    /\ Attempts \cap ({"none", "sync"} \cup Pushes \cup Ends) = {}
    /\ Pushes \cap ({"sync"} \cup Ends) = {} /\ Ends \cap Long = {}

VARIABLES
    main,       \* what the main thread does
    way,        \* how it came to its end
    tries,      \* logins that were tried
    watcher,    \* the watcher's thread
    running,    \* FileWatcher::running_
    fresh,      \* no push of this cycle of the watcher was made yet
    holder,     \* the thread that waits for all requests with m_threads_ locked
    pending,    \* Client_socket_API::threads_
    late,       \* pushes made when the main thread had waited for all before its END
    cookie,     \* the login whose session the client holds
    sessions,   \* the sessions the server has logged in, by their logins
    asleep      \* the pushes that sleep at the gate of Server::push

progVars == <<main, way, tries, watcher, running, fresh, holder, pending, late, cookie, sessions, asleep>>
vars     == <<setupVars, connVars, progVars>>

Init == /\ SetupInit /\ ConnInit
        /\ main = "setup" /\ way = "none" /\ tries = 0
        /\ watcher = "none" /\ running = TRUE /\ fresh = TRUE
        /\ holder = "none" /\ pending = {} /\ late = {}
        /\ cookie = "none" /\ sessions = {} /\ asleep = {}

-----------------------------------------------------------------------------
\* A thread makes request r, which must be over before it goes on.
Makes(r) == at[r] = "idle" /\ Call(r)

\* The process ends, and its connections with it.
Perish == main' = "over" /\ Abandon({r \in Requests : at[r] \in Waiting})

\* wait_all_async.  Nobody can make an asynchronous request meanwhile.
Locks(t) == holder = "none" /\ holder' = t /\ UNCHANGED <<pending, connVars>>

\* Mutant: nobody waits for the requests' ends.
Forgotten(t) == /\ holder = t /\ holder' = "none"
                /\ pending' = {} /\ UNCHANGED connVars

AllBack(t) == /\ holder = t /\ holder' = "none"
              /\ \A p \in pending : at[p] \in Ended
              /\ pending' = {} /\ UNCHANGED connVars

-----------------------------------------------------------------------------
\* main and its thread.

Questions == /\ main = "setup" /\ SetupNext
             /\ UNCHANGED <<connVars, progVars>>

\* The folder of the configuration is there.
FolderIsThere == config["path"] = Default \/ (config["path"] \in Names /\ there[config["path"]] = "dir")

\* The Client is made, which looks at its folder; if it throws there is no
\* client for the handler to close, and the process dies.  Nothing looks at the
\* configuration again.
Construct ==
    /\ main = "setup" /\ program = "client" /\ stage = "done"
    /\ main' = IF FolderIsThere THEN "login" ELSE "over"
    /\ console' = "clean" /\ config' = Defaults /\ exists' = FALSE /\ file' = <<>>
    /\ there' = OnDisk /\ starts' = 1 /\ UNCHANGED <<program, stage, typed, ec>>
    /\ UNCHANGED <<connVars, way, tries, watcher, running, fresh, holder, pending, late, cookie, sessions, asleep>>

\* pwdAttempts: another attempt, while there are any.
Attempt == /\ main = "login" /\ tries < Len(Logins)
           /\ tries > 0 => at[Logins[tries]] \in {"refused", "failed"}
           /\ tries' = tries + 1 /\ Makes(Logins[tries + 1])
           /\ UNCHANGED <<setupVars, main, way, watcher, running, fresh, holder, pending, late, cookie, sessions, asleep>>

Welcome == /\ main = "login" /\ tries > 0 /\ at[Logins[tries]] = "okay"
           /\ main' = "menu" /\ cookie' = Logins[tries]
           /\ UNCHANGED <<setupVars, connVars, way, tries, watcher, running, fresh, holder, pending, late, sessions, asleep>>

\* After the last one the client ends its session all the same.
NoAttemptsLeft == /\ main = "login" /\ tries = Len(Logins) /\ at[Logins[tries]] \in {"refused", "failed"}
                  /\ main' = "wait" /\ way' = "login"
                  /\ UNCHANGED <<setupVars, connVars, tries, watcher, running, fresh, holder, pending, late, cookie, sessions, asleep>>

\* The menu: synchronise or restore; leave, without a word to the server; or
\* the input ends, and the handler of the exception closes the client.
Menu == /\ main = "menu"
        /\ \/ main' = "sync" /\ UNCHANGED way
           \/ main' = "over" /\ way' = "menu"
           \/ main' = "wait" /\ way' = "caught"
        /\ UNCHANGED <<setupVars, connVars, tries, watcher, running, fresh, holder, pending, late, cookie, sessions, asleep>>

\* Mutant: the program leaves without closing the client.
SynchronizeOrLeave ==
    /\ main = "sync"
    /\ UNCHANGED <<setupVars, tries, running, fresh, holder, pending, late, cookie, sessions, asleep>>
    /\ \/ Makes("sync") /\ UNCHANGED <<main, way, watcher>>
       \/ at["sync"] = "okay" /\ main' = "watch" /\ watcher' = "scan" /\ UNCHANGED <<connVars, way>>
       \/ at["sync"] \in {"refused", "failed"} /\ main' = "over" /\ way' = "close" /\ UNCHANGED <<connVars, watcher>>

\* probe or restore; then run starts the watcher, or the client is closed.
Synchronize ==
    /\ main = "sync"
    /\ UNCHANGED <<setupVars, tries, running, fresh, holder, pending, late, cookie, sessions, asleep>>
    /\ \/ Makes("sync") /\ UNCHANGED <<main, way, watcher>>
       \/ at["sync"] = "okay" /\ main' = "watch" /\ watcher' = "scan" /\ UNCHANGED <<connVars, way>>
       \/ at["sync"] \in {"refused", "failed"} /\ main' = "wait" /\ way' = "close" /\ UNCHANGED <<connVars, watcher>>

\* The user quits, or the input ends.
Quit == /\ main = "watch" /\ main' = "wait"
        /\ way' \in {"close", "caught"}
        /\ UNCHANGED <<setupVars, connVars, tries, watcher, running, fresh, holder, pending, late, cookie, sessions, asleep>>

\* Client_API::end, as close calls it: all requests are waited for, whatever
\* became of them, and then END is sent.
WaitAllBeforeEnd ==
    /\ main = "wait"
    /\ \/ Locks("main") /\ UNCHANGED main
       \/ AllBack("main") /\ main' = "end"
    /\ UNCHANGED <<setupVars, way, tries, watcher, running, fresh, late, cookie, sessions, asleep>>

End == IF way = "again" THEN "endAgain" ELSE "end"

\* Mutant: the watcher is not told.
EndWithoutStop ==
    /\ main = "end"
    /\ \/ Makes(End) /\ UNCHANGED main
       \/ /\ at[End] \in Ended /\ UNCHANGED connVars
          /\ main' = IF way = "login" THEN "over" ELSE "join"
    /\ UNCHANGED <<setupVars, way, tries, watcher, running, fresh, holder, pending, late, cookie, sessions, asleep>>

\* Then the watcher is told to stop, but not after the last login.
EndSession ==
    /\ main = "end"
    /\ \/ Makes(End) /\ UNCHANGED <<main, running>>
       \/ /\ at[End] \in Ended /\ UNCHANGED connVars
          /\ main' = IF way = "login" THEN "over" ELSE "join"
          /\ running' = (way = "login")
    /\ UNCHANGED <<setupVars, way, tries, watcher, fresh, holder, pending, late, cookie, sessions, asleep>>

\* f_.get waits for the watcher and throws what it threw: into main's handler,
\* which closes the client again, or out of the handler.  A push that is still
\* on its way ends with the process.
Join ==
    /\ main = "join" /\ watcher \in {"none", "done", "threw"}
    /\ IF watcher = "threw" /\ way = "close"
       THEN main' = "wait" /\ way' = "again" /\ watcher' = "none" /\ UNCHANGED connVars
       ELSE Perish /\ UNCHANGED <<way, watcher>>
    /\ UNCHANGED <<setupVars, tries, running, fresh, holder, pending, late, cookie, sessions, asleep>>

-----------------------------------------------------------------------------
\* The watcher's thread: FileWatcher::start and what Client::run does after it.

AnyLeft == \E p \in Pushes : at[p] = "idle"

\* A cycle is over, and after the delay the next one begins.
Cycle == /\ watcher = "scan"
         /\ watcher' = (IF running THEN "scan" ELSE "done") /\ fresh' = running
         /\ UNCHANGED <<connVars, holder, pending, late>>

\* An exception ends the thread.
Throws == /\ watcher = "scan" /\ watcher' = "threw"
          /\ UNCHANGED <<connVars, fresh, holder, pending, late>>

\* The first push of a cycle waits for all requests before it, and gives up if
\* one of them was not served.
Barrier == /\ \/ watcher = "scan" /\ fresh /\ AnyLeft /\ Locks("watcher") /\ watcher' = "barrier" /\ UNCHANGED fresh
              \/ /\ watcher = "barrier" /\ AllBack("watcher")
                 /\ IF \A p \in pending : at[p] = "okay"
                    THEN watcher' = "push" /\ fresh' = FALSE
                    ELSE watcher' = "wait" /\ UNCHANGED fresh
           /\ UNCHANGED late

\* A push is given to a thread of its own.
Submit == /\ watcher = "push" \/ (watcher = "scan" /\ ~fresh)
          /\ watcher' = "scan" /\ holder = "none"
          /\ \E p \in Pushes : /\ Makes(p) /\ pending' = pending \cup {p}
                               /\ late' = IF main \in {"end", "join"} THEN late \cup {p} ELSE late
          /\ UNCHANGED <<fresh, holder>>

\* After a cycle that failed the watcher ends the session itself.
WaitAllAfterFailure == /\ \/ watcher = "wait" /\ Locks("watcher") /\ watcher' = "waiting"
                          \/ watcher = "waiting" /\ AllBack("watcher") /\ watcher' = "end"
                       /\ UNCHANGED <<fresh, late>>

EndFromWatcher == /\ watcher = "end" /\ Makes("endWatcher")
                  /\ UNCHANGED <<watcher, fresh, holder, pending, late>>

Watch == /\ main # "over"
         /\ Cycle \/ Throws \/ Barrier \/ Submit \/ WaitAllAfterFailure \/ EndFromWatcher
         /\ UNCHANGED <<setupVars, main, way, tries, running, cookie, sessions, asleep>>

\* Then it ends the process, whatever the main thread does.
Exit == /\ main # "over" /\ watcher = "end" /\ at["endWatcher"] \in Ended
        /\ way' = "exit" /\ watcher' = "done" /\ Perish
        /\ UNCHANGED <<setupVars, tries, running, fresh, holder, pending, late, cookie, sessions, asleep>>

\* Both threads end the session over the one socket and message of api_, which
\* nothing protects: the process may die of it, or a request.
Clash == LET both == {End, "endWatcher"}
         IN /\ \A r \in both : at[r] \in Waiting
            /\ \/ way' = "clash" /\ Perish
               \/ \E r \in both : Abandon({r}) /\ UNCHANGED <<main, way>>
            /\ UNCHANGED <<setupVars, tries, watcher, running, fresh, holder, pending, late, cookie, sessions, asleep>>

-----------------------------------------------------------------------------
\* The connections, and what the server does: it logs a user in or does not,
\* serves whom it knows, if it has what is asked of it, and forgets a session at
\* its END.  A push that slept had its session when it came.
Serves(r) == \E reply \in {"okay", "error"} :
    /\ Handle(r, reply)
    /\ r \notin Attempts \cup asleep /\ cookie \notin sessions => reply = "error"
    /\ r \in asleep \/ (r \in Pushes \cup Ends /\ cookie \in sessions) => reply = "okay"
    /\ sessions' = CASE r \in Attempts /\ reply = "okay" -> sessions \cup {r}
                     [] r \in Ends -> sessions \ {cookie}
                     [] OTHER -> sessions
    /\ asleep' = asleep \ {r}
    /\ UNCHANGED <<setupVars, main, way, tries, watcher, running, fresh, holder, pending, late, cookie>>

\* A push finds the gate taken by another one and sleeps, until it is woken or
\* for ever: the other one's notification may be lost.
Sleeps(p) ==
    /\ p \in Pushes \ asleep /\ peer[p] = "handle" /\ cookie \in sessions
    /\ \E q \in Pushes \ asleep : q # p /\ peer[q] = "handle"
    /\ asleep' = asleep \cup {p}
    /\ UNCHANGED <<setupVars, connVars, main, way, tries, watcher, running, fresh, holder, pending, late, cookie, sessions>>

Moves(r) == Caller(r) /\ UNCHANGED <<setupVars, progVars>>
Admits(r) == Server(r) /\ UNCHANGED <<setupVars, progVars>>
Suffers(r) == Network(r) /\ UNCHANGED <<setupVars, progVars>>

User == Questions \/ Construct \/ Attempt \/ Menu \/ Quit
Goes == Welcome \/ NoAttemptsLeft \/ Synchronize \/ WaitAllBeforeEnd \/ EndSession \/ Join

Next == \/ User \/ Goes \/ Watch \/ Exit \/ Clash
        \/ \E r \in Requests : Moves(r) \/ Admits(r) \/ Suffers(r) \/ Serves(r) \/ Sleeps(r)

\* A push sleeps at the gate, and no other one that would be woken instead.
Stranded(p) == asleep = {p}

\* What somebody's thread can do by itself.  The user owes nothing, not even
\* changes to watch, but a dialogue at the end of its input goes on by itself.
\* Nobody owes it to a push that sleeps alone to wake it.
Owed == \/ Goes \/ Exit
        \/ main = "setup" /\ Dialogue /\ UNCHANGED <<connVars, progVars>>
        \/ Watch /\ (watcher = "scan" => Cycle)
        \/ \E r \in Requests : Moves(r) \/ Admits(r) \/ (~Stranded(r) /\ Serves(r))

\* Neither client nor server stops while one of its threads can go on: no thread
\* goes on for ever, so it need not be said of each of them.
Spec == Init /\ [][Next]_vars /\ WF_vars(Owed)

-----------------------------------------------------------------------------
\* The values the variables take.
ProgramTypeOK ==
    /\ SetupTypeOK /\ ConnTypeOK
    /\ main \in {"setup", "login", "menu", "sync", "watch", "wait", "end", "join", "over"}
    /\ way \in {"none", "login", "menu", "close", "caught", "again", "exit", "clash"}
    /\ tries \in 0..Len(Logins)
    /\ watcher \in {"none", "scan", "barrier", "push", "wait", "waiting", "end", "done", "threw"}
    /\ running \in BOOLEAN /\ fresh \in BOOLEAN /\ holder \in {"none", "main", "watcher"}
    /\ pending \subseteq Pushes /\ late \subseteq Pushes
    /\ cookie \in Attempts \cup {"none"} /\ sessions \subseteq Attempts /\ asleep \subseteq Pushes

\* A push is refused for want of its session only if it was made when close had
\* waited for all: neither END of the two threads overtakes a push made before.
RefusedOnlyLate == \A p \in Pushes : at[p] = "refused" => p \in late

\* The client that is over has left no session at the server, unless it was
\* ended at the menu, or a login or an END was lost.
LeavesNoSession == main = "over" => sessions = {} \/ way = "menu" \/ hurt \cap (Attempts \cup Ends) # {}

\* In the end no caller waits, and the server has every thread back, also those
\* that wait for a request of a client that has given up; unless a connection
\* fell silent, or for a push that is left asleep.
RequestsEnd == <>[](\A r \in Requests : /\ at[r] \in Waiting => link[r] = "silent" \/ Stranded(r)
                                        /\ peer[r] \in {"none", "gone"} \/ Stranded(r))

\* Once the user quits, or the input ends, the program ends, whatever its
\* watcher does; unless the server fell silent, or it waits for a push that is
\* left asleep.
QuitEnds == []<>(\/ main \notin {"wait", "end", "join"}
                 \/ \E r \in Requests : link[r] = "silent" \/ (Stranded(r) /\ at[r] \in Waiting))
=============================================================================
