------------------------ MODULE ClientProgram_proofs ------------------------
(***************************************************************************)
(* Proofs about ClientProgram, for any dialogue, any number of logins and  *)
(* pushes: whatever the program does, its requests behave as Connection    *)
(* says, and so they are served at most once; no push that was waited for  *)
(* loses its session, and no session is left behind.                       *)
(***************************************************************************)
EXTENDS ClientProgram, Connection_proofs, Setup_proofs

\* The attempts are counted.
Counted == tries \in Nat

LEMMA CountedInit == Init => Counted
  BY DEF Init, Counted

LEMMA CountedStep == Counted /\ [Next]_vars => Counted'
<1> SUFFICES ASSUME Counted, [Next]_vars PROVE Counted'
  OBVIOUS
<1>1. CASE UNCHANGED tries
  BY <1>1 DEF Counted
<1>2. CASE Attempt
  BY <1>2 DEF Attempt, Counted
<1>3. CASE Questions \/ Construct \/ Menu \/ Quit \/ Goes
  BY <1>1, <1>3 DEF Questions, Construct, Menu, Quit, Goes, Welcome, NoAttemptsLeft,
     Synchronize, WaitAllBeforeEnd, EndSession, Join, progVars
<1>4. CASE Watch \/ Exit \/ Clash
  BY <1>1, <1>4 DEF Watch, Exit, Clash
<1>5. ASSUME NEW r \in Requests, Moves(r) \/ Admits(r) \/ Suffers(r) \/ Serves(r) \/ Sleeps(r)
      PROVE  Counted'
  BY <1>1, <1>5 DEF Moves, Admits, Suffers, Serves, Sleeps, progVars
<1>6. CASE UNCHANGED vars
  BY <1>1, <1>6 DEF vars, progVars
<1> QED  BY <1>2, <1>3, <1>4, <1>5, <1>6 DEF Next, User

\* What the two threads do to requests: they make one, or let go of some.
LEMMA ThreadsOnlyCallOrAbandon ==
    ASSUME Counted, User \/ Goes \/ Watch \/ Exit \/ Clash
    PROVE  [ConnNext]_connVars
<1> DEFINE Gives == \E S \in SUBSET Requests : Abandon(S)
<1>0. /\ \A i \in DOMAIN Logins : Logins[i] \in Requests
      /\ "sync" \in Requests /\ Pushes \subseteq Requests /\ Ends \subseteq Requests
  BY ClientProgramAssumption DEF Attempts
<1>1. CASE User
  <2>1. CASE Questions \/ Construct \/ Menu \/ Quit
    BY <2>1 DEF Questions, Construct, Menu, Quit
  <2>2. CASE Attempt
    <3>1. tries + 1 \in DOMAIN Logins
      BY <2>2, ClientProgramAssumption DEF Attempt, Counted
    <3> QED  BY <2>2, <3>1, <1>0 DEF Attempt, Makes, ConnNext
  <2> QED  BY <1>1, <2>1, <2>2 DEF User
<1>2. Perish => Gives
  BY DEF Perish
<1>3. CASE Goes
  <2>1. CASE Welcome \/ NoAttemptsLeft \/ WaitAllBeforeEnd
    BY <2>1 DEF Welcome, NoAttemptsLeft, WaitAllBeforeEnd, Locks, AllBack
  <2>2. CASE Synchronize \/ EndSession
    BY <2>2, <1>0 DEF Synchronize, EndSession, Makes, End, Ends, ConnNext
  <2>3. CASE Join
    BY <2>3, <1>2 DEF Join, ConnNext
  <2> QED  BY <1>3, <2>1, <2>2, <2>3 DEF Goes
<1>4. CASE Watch
  <2>1. CASE Cycle \/ Throws \/ Barrier \/ WaitAllAfterFailure
    BY <2>1 DEF Cycle, Throws, Barrier, WaitAllAfterFailure, Locks, AllBack
  <2>2. CASE Submit \/ EndFromWatcher
    BY <2>2, <1>0 DEF Submit, EndFromWatcher, Makes, Ends, ConnNext
  <2> QED  BY <1>4, <2>1, <2>2 DEF Watch
<1>5. CASE Exit
  BY <1>5, <1>2 DEF Exit, ConnNext
<1>6. CASE Clash
  <2>1. CASE Perish
    BY <2>1, <1>2 DEF ConnNext
  <2>2. CASE \E r \in {End, "endWatcher"} : Abandon({r})
    <3>1. {End, "endWatcher"} \subseteq Requests
      BY <1>0 DEF End, Ends
    <3> QED  BY <2>2, <3>1 DEF ConnNext
  <2> QED  BY <1>6, <2>1, <2>2 DEF Clash
<1> QED  BY <1>1, <1>3, <1>4, <1>5, <1>6

LEMMA ProgramStep == Counted /\ [Next]_vars => [ConnNext]_connVars
<1> SUFFICES ASSUME Counted, [Next]_vars PROVE [ConnNext]_connVars
  OBVIOUS
<1>1. CASE User \/ Goes \/ Watch \/ Exit \/ Clash
  BY <1>1, ThreadsOnlyCallOrAbandon
<1>2. ASSUME NEW r \in Requests, Moves(r) \/ Admits(r) \/ Suffers(r) \/ Serves(r) \/ Sleeps(r)
      PROVE  [ConnNext]_connVars
  BY <1>2 DEF Moves, Admits, Suffers, Serves, Sleeps, ConnNext
<1>3. CASE UNCHANGED vars
  BY <1>3 DEF vars
<1> QED  BY <1>1, <1>2, <1>3 DEF Next

\* The requests of the whole client, with its two threads and its sudden ends,
\* behave as Connection allows.
THEOREM ProgramImplementsConnection == Spec => ConnSpec
<1>1. Init => ConnInit
  BY DEF Init
<1> QED  BY <1>1, CountedInit, CountedStep, ProgramStep, PTL DEF Spec, ConnSpec

\* So none of them is served twice, and what a caller is told of it is true.
THEOREM ProgramServesAtMostOnce == Spec => ServedAtMostOnce
<1> QED  BY ProgramImplementsConnection, ConnectionServesAtMostOnce, PTL

\* And a busy server alone makes none of them fail but a long one.
THEOREM ProgramSurvivesBusyServer == Spec => []BusyComesBack
<1> QED  BY ProgramImplementsConnection, BusyServerComesBack, PTL

-----------------------------------------------------------------------------
\* The main thread while the watcher may run.
Running == {"watch", "wait", "end", "join"}

\* The main thread's stages, and what the watcher and the cookie have to do
\* with them.
Stages ==
    /\ main = "setup" => tries = 0
    /\ main \in {"setup", "login"} => cookie = "none"
    /\ main \in {"setup", "login", "menu", "sync"} => way = "none"
    /\ watcher # "none" => main \in Running \cup {"over"}
    /\ watcher # "none" /\ main # "over" => way \notin {"login", "again"}
    /\ cookie # "none" => at[cookie] = "okay"

\* Which request is whose turn: one login after the other, then the
\* synchronisation, then pushes, then the ENDs.
LoginsInTurn ==
    \A r \in Attempts : /\ at[r] \in Waiting => main = "login"
                        /\ at[r] \in Waiting \cup {"okay"} => tries > 0 /\ r = Logins[tries]
                        /\ at[r] = "okay" => main = "login" \/ r = cookie
OthersInTurn ==
    /\ at["sync"] # "idle" => main \notin {"setup", "login", "menu"}
    /\ at["sync"] \in Waiting => main = "sync"
    /\ \A p \in Pushes : at[p] # "idle" => main = "over" \/ (main \in Running /\ way # "login")
EndsInTurn ==
    /\ at["end"] # "idle" => main \in {"end", "join", "over"} \/ (main = "wait" /\ way = "again")
    /\ at["end"] \in Waiting => main = "end" /\ way # "again"
    /\ at["endAgain"] # "idle" => main = "over" \/ (main \in {"end", "join"} /\ way = "again")
    /\ at["endWatcher"] # "idle" => main = "over" \/ watcher = "end"
OverIsOver == main = "over" => \A r \in Requests : at[r] \notin Waiting

\* A push that is on its way is waited for before an END, or it is late.
WaitedFor == \A p \in Pushes \ late : at[p] \in Waiting =>
    p \in pending /\ main \notin {"end", "join", "over"} /\ watcher # "end" /\ way # "again"

\* The server has handled an END.
Ending == \E e \in Ends : served[e] # 0

\* The client has a session at the server until an END.
LoggedIn == main \in {"menu", "sync", "watch"} \/ (main \in Running /\ way # "login")
KeepsSession ==
    /\ LoggedIn => cookie \in sessions \/ Ending
    /\ \A r \in Attempts : answer[r] = "okay" \/ at[r] = "okay" => r \in sessions \/ Ending

\* What the server refuses of the pushes is late.
OnlyLateRefused == \A p \in Pushes \ late : /\ at[p] \in Waiting /\ answer[p] = "error" => served[p] = 0
                                            /\ at[p] # "refused"

\* A session is that of a login that was answered, or whose answer was lost; and
\* the client's is gone with an END, unless that was lost.
SessionsTold == \A r \in sessions : /\ served[r] = 1
                                    /\ \/ r \in hurt \/ at[r] = "okay"
                                       \/ at[r] = "reading" /\ answer[r] = "okay"
EndedIsGone ==
    /\ Ending => cookie \notin sessions
    /\ main = "join" \/ (main = "over" /\ way # "menu")
       => cookie \notin sessions \/ hurt \cap (Attempts \cup Ends) # {}

InTurn == LoginsInTurn /\ OthersInTurn /\ EndsInTurn /\ OverIsOver

ProgramInv == /\ ProgramTypeOK /\ ConnInv /\ Stages /\ InTurn
              /\ WaitedFor /\ KeepsSession /\ OnlyLateRefused /\ SessionsTold /\ EndedIsGone

\* The requests are of four kinds.
LEMMA Kinds ==
    /\ Attempts \subseteq Requests /\ "sync" \in Requests /\ Pushes \subseteq Requests
    /\ Ends \subseteq Requests /\ Ends = {"end", "endAgain", "endWatcher"}
    /\ Attempts \cap ({"none", "sync"} \cup Pushes \cup Ends) = {}
    /\ Pushes \cap ({"sync"} \cup Ends) = {} /\ Ends \cap Long = {} /\ Ends \cap Illegible = {}
    /\ Len(Logins) \in Nat \ {0} /\ DOMAIN Logins = 1..Len(Logins)
    /\ \A i \in 1..Len(Logins) : Logins[i] \in Attempts
    /\ Requests = Attempts \cup {"sync"} \cup Pushes \cup Ends
<1>1. Logins \in Seq(Requests) /\ Logins # <<>>
  BY ClientProgramAssumption
<1>2. Len(Logins) \in Nat \ {0} /\ DOMAIN Logins = 1..Len(Logins)
  BY <1>1
<1>3. Ends \cap Illegible = {}
  BY ClientProgramAssumption, ConnectionAssumption
<1> QED  BY <1>2, <1>3, ClientProgramAssumption DEF Ends, Attempts

\* What a step of a connection does to its request, and what it leaves alone.
Moved(r) ==
    /\ \A s \in Requests \ {r} : UNCHANGED Of(s)
    /\ hurt \subseteq hurt' /\ served'[r] = served[r]
    /\ at[r] \notin Waiting => at'[r] = at[r]
    /\ at[r] \in Waiting => at'[r] \in Waiting \cup Ended
    /\ at'[r] = "okay" => at[r] = "okay" \/ answer[r] = "okay"
    /\ at'[r] = "refused" => at[r] = "refused" \/ (at[r] \in Waiting /\ answer[r] = "error" /\ served[r] = 1)
    /\ answer'[r] \in {"none", "busy", answer[r]} \/ (served[r] = 0 /\ answer'[r] = "error")
    /\ at[r] = "reading" /\ answer[r] = "okay"
       => r \in hurt' \/ at'[r] = "okay" \/ (at'[r] = "reading" /\ answer'[r] = "okay")

LEMMA ConnectionMoves ==
    ASSUME ConnInv, ConnInv', NEW r \in Requests, Caller(r) \/ Server(r) \/ Network(r)
    PROVE  Moved(r)
<1>0. ConnTypeOK /\ Sound(r) /\ Sound(r)' /\ ConnTypeOK'
  BY DEF ConnInv
<1> USE DEF ConnTypeOK, Step, Serve, Mishap, Waiting, Ended, Of
<1>1. CASE Open(r)
  BY <1>0, <1>1 DEF Open, Fresh, Moved
<1>2. CASE Send(r)
  BY <1>0, <1>2 DEF Send, Moved
<1>3. CASE Receive(r)
  BY <1>0, <1>3 DEF Receive, Outcome, Moved, Sound, Spoiled
<1>4. CASE ReceiveFails(r)
  BY <1>0, <1>4 DEF ReceiveFails, NothingToRead, Moved, Sound
<1>5. CASE Retry(r)
  BY <1>0, <1>5 DEF Retry, Moved
<1>6. CASE Server(r)
  BY <1>0, <1>6, ConnectionAssumption DEF Server, Accept, Discard, Take, Misread, TakeFails, Moved, Sound
<1>7. CASE Network(r)
  BY <1>0, <1>7 DEF Network, OpenFails, Fresh, Timeout, Break, FallSilent, Moved
<1> QED  BY <1>1, <1>2, <1>3, <1>4, <1>5, <1>6, <1>7 DEF Caller

\* So a step of a connection keeps what is known of the program.
LEMMA ProgramConnKeeps ==
    ASSUME ProgramInv, ConnInv', NEW r \in Requests, Moved(r), UNCHANGED progVars, UNCHANGED setupVars
    PROVE  ProgramInv'
<1> USE DEF progVars
<1>0. ProgramTypeOK /\ ConnInv /\ ConnTypeOK /\ ConnTypeOK'
  BY DEF ProgramInv, ConnInv
<1>1. ProgramTypeOK'
  BY <1>0 DEF ProgramTypeOK, SetupTypeOK, setupVars
<1>2. \A s \in Requests : /\ at[s] \notin Waiting => at'[s] = at[s]
                          /\ at'[s] = "okay" => at[s] = "okay" \/ (at[s] \in Waiting /\ answer[s] = "okay")
                          /\ served'[s] = served[s]
  BY DEF Moved, Of, Ended, Waiting
<1>3. Stages'
  BY <1>0, <1>2, Kinds DEF ProgramInv, Stages, ProgramTypeOK, Waiting
<1>4. LoginsInTurn'
  BY <1>2, Kinds DEF ProgramInv, InTurn, LoginsInTurn
<1>5. OthersInTurn'
  BY <1>2, Kinds DEF ProgramInv, InTurn, OthersInTurn, Waiting
<1>6. EndsInTurn' /\ OverIsOver'
  BY <1>2, Kinds DEF ProgramInv, InTurn, EndsInTurn, OverIsOver, Waiting
<1>7. WaitedFor'
  BY <1>2, Kinds DEF ProgramInv, WaitedFor
<1>8. UNCHANGED Ending
  BY <1>2, Kinds DEF Ending
<1>9. KeepsSession'
  BY <1>2, <1>8, Kinds DEF ProgramInv, KeepsSession, LoggedIn, Moved, Of
<1>10. OnlyLateRefused'
  BY <1>2, Kinds DEF ProgramInv, OnlyLateRefused, Moved, Of, Waiting
<1>11. SessionsTold'
  <2> SUFFICES ASSUME NEW s \in sessions
               PROVE  /\ served'[s] = 1
                      /\ \/ s \in hurt' \/ at'[s] = "okay"
                         \/ at'[s] = "reading" /\ answer'[s] = "okay"
    BY DEF SessionsTold
  <2>1. /\ s \in Requests /\ served[s] = 1
        /\ s \in hurt \/ at[s] = "okay" \/ (at[s] = "reading" /\ answer[s] = "okay")
    BY <1>0, Kinds DEF ProgramInv, SessionsTold, ProgramTypeOK
  <2>2. CASE s = r
    BY <1>2, <2>1, <2>2 DEF Moved, Waiting
  <2>3. CASE s # r
    BY <2>1, <2>3 DEF Moved, Of
  <2> QED  BY <2>2, <2>3
<1>12. EndedIsGone'
  BY <1>8 DEF ProgramInv, EndedIsGone, Moved
<1> QED  BY <1>1, <1>3, <1>4, <1>5, <1>6, <1>7, <1>9, <1>10, <1>11, <1>12 DEF ProgramInv, InTurn

\* What it is for the server to handle a request.
Handled(r, reply) ==
    /\ \A s \in Requests \ {r} : UNCHANGED Of(s)
    /\ at' = at /\ hurt' = hurt /\ served[r] = 0 /\ served'[r] = 1
    /\ answer'[r] \in {"none", reply} /\ (r \notin hurt => answer'[r] = reply)
    /\ at[r] \notin {"idle", "okay", "refused"} /\ (at[r] \in Waiting => at[r] = "reading")
    /\ at[r] = "failed" => r \in hurt

LEMMA HandleHandles ==
    ASSUME ConnInv, NEW r \in Requests, NEW reply \in {"okay", "error"}, Handle(r, reply)
    PROVE  Handled(r, reply)
<1>1. ConnTypeOK /\ Sound(r) /\ peer[r] = "handle" /\ link[r] # "none"
  BY DEF ConnInv, Handle, Serve, Sound
<1>2. /\ at' = at /\ hurt' = hurt /\ served' = [served EXCEPT ![r] = @ + 1] /\ link' = link
      /\ answer' = [answer EXCEPT ![r] = IF link[r] = "up" THEN reply ELSE "none"]
      /\ peer' = [peer EXCEPT ![r] = "gone"] /\ wire' = wire
  BY DEF Handle, Serve
<1>3. \A s \in Requests \ {r} : UNCHANGED Of(s)
  BY <1>1, <1>2 DEF Of, ConnTypeOK
<1>4. served[r] = 0 /\ served'[r] = 1 /\ answer'[r] \in {"none", reply}
  BY <1>1, <1>2 DEF Sound, ConnTypeOK
<1>5. r \notin hurt => answer'[r] = reply
  BY <1>1, <1>2 DEF Sound, ConnTypeOK
<1>6. /\ at[r] \notin {"idle", "okay", "refused"} /\ (at[r] \in Waiting => at[r] = "reading")
      /\ at[r] = "failed" => r \in hurt
  BY <1>1 DEF Sound, Spoiled, Waiting
<1> QED  BY <1>2, <1>3, <1>4, <1>5, <1>6 DEF Handled

\* The server refuses only a late push, and ends the session only of a client
\* that has ended it.
LEMMA ServesKeeps ==
    ASSUME ProgramInv, ConnInv', NEW r \in Requests, Serves(r)
    PROVE  ProgramInv'
<1>0. ProgramTypeOK /\ ConnInv /\ ConnTypeOK /\ ConnTypeOK' /\ sessions \subseteq Attempts
  BY DEF ProgramInv, ConnInv, ProgramTypeOK
<1>1. PICK reply \in {"okay", "error"} :
         /\ Handle(r, reply)
         /\ r \notin Attempts \cup asleep /\ cookie \notin sessions => reply = "error"
         /\ r \in asleep \/ (r \in Pushes \cup Ends /\ cookie \in sessions) => reply = "okay"
         /\ sessions' = CASE r \in Attempts /\ reply = "okay" -> sessions \cup {r}
                          [] r \in Ends -> sessions \ {cookie}
                          [] OTHER -> sessions
  BY DEF Serves
<1>2. /\ UNCHANGED <<main, way, tries, watcher, running, fresh, holder, pending, late, cookie>>
      /\ UNCHANGED setupVars /\ asleep' \subseteq asleep
  BY DEF Serves
<1>3. Handled(r, reply)
  BY <1>0, <1>1, HandleHandles
<1>4. ProgramTypeOK'
  <2>1. SetupTypeOK'
    BY <1>0, <1>2 DEF ProgramTypeOK, SetupTypeOK, setupVars
  <2>2. sessions' \subseteq Attempts
    BY <1>0, <1>1
  <2> QED  BY <1>0, <1>2, <2>1, <2>2 DEF ProgramTypeOK
<1>5. at' = at /\ hurt' = hurt
  BY <1>3 DEF Handled
<1>6. Stages' /\ InTurn' /\ WaitedFor'
  BY <1>2, <1>5 DEF ProgramInv, Stages, InTurn, LoginsInTurn, OthersInTurn, EndsInTurn,
     OverIsOver, WaitedFor
<1>7. \A s \in Requests \ {r} : served'[s] = served[s] /\ answer'[s] = answer[s]
  BY <1>3 DEF Handled, Of
<1>8. Ending' <=> Ending \/ r \in Ends
  <2>1. served[r] = 0 /\ served'[r] = 1
    BY <1>3 DEF Handled
  <2> QED  BY <1>7, <2>1, Kinds DEF Ending
<1>9. r \in Attempts => cookie # r
  BY <1>3, Kinds DEF ProgramInv, Stages, Handled
<1>10. KeepsSession'
  <2>1. r \in Ends => Ending'
    BY <1>8
  <2>2. r \notin Ends => sessions \subseteq sessions'
    BY <1>1
  <2>3. LoggedIn' => cookie' \in sessions' \/ Ending'
    BY <1>2, <1>8, <2>1, <2>2 DEF ProgramInv, KeepsSession, LoggedIn
  <2>4. ASSUME NEW s \in Attempts, answer'[s] = "okay" \/ at'[s] = "okay"
        PROVE  s \in sessions' \/ Ending'
    <3>1. CASE s # r
      BY <1>5, <1>7, <1>8, <2>1, <2>2, <2>4, <3>1, Kinds DEF ProgramInv, KeepsSession
    <3>2. CASE s = r
      <4>1. reply = "okay"
        BY <1>3, <1>5, <2>4, <3>2 DEF Handled
      <4>2. r \in Attempts /\ r \notin Ends
        BY <2>4, <3>2, Kinds
      <4>3. sessions' = sessions \cup {r}
        BY <1>1, <4>1, <4>2
      <4> QED  BY <3>2, <4>3
    <3> QED  BY <3>1, <3>2
  <2> QED  BY <2>3, <2>4 DEF KeepsSession
<1>11. OnlyLateRefused'
  <2> SUFFICES ASSUME NEW p \in Pushes \ late
               PROVE  /\ at[p] \in Waiting /\ answer'[p] = "error" => served'[p] = 0
                      /\ at[p] # "refused"
    BY <1>2, <1>5 DEF OnlyLateRefused
  <2>1. p \in Requests /\ at[p] # "refused"
    BY Kinds DEF ProgramInv, OnlyLateRefused
  <2>2. CASE p # r
    BY <1>7, <2>1, <2>2 DEF ProgramInv, OnlyLateRefused
  <2>3. CASE p = r /\ at[p] \in Waiting
    <3>1. main \notin {"end", "join", "over"} /\ watcher # "end" /\ way # "again"
      BY <2>3 DEF ProgramInv, WaitedFor
    <3>2. main \in Running /\ way # "login" /\ LoggedIn
      BY <2>3, <3>1 DEF ProgramInv, InTurn, OthersInTurn, LoggedIn, Waiting
    <3>3. ~Ending
      <4>1. \A e \in Ends : at[e] = "idle"
        BY <3>1, Kinds DEF ProgramInv, InTurn, EndsInTurn
      <4>2. \A e \in Ends : served[e] = 0
        BY <1>0, <4>1, Kinds DEF ConnInv, Sound
      <4> QED  BY <4>2 DEF Ending
    <3>4. cookie \in sessions
      BY <3>2, <3>3 DEF ProgramInv, KeepsSession
    <3>5. reply = "okay"
      BY <1>1, <2>3, <3>4
    <3> QED  BY <1>3, <2>1, <2>3, <3>5 DEF Handled
  <2> QED  BY <2>1, <2>2, <2>3
<1>12. SessionsTold'
  <2> SUFFICES ASSUME NEW s \in sessions'
               PROVE  /\ served'[s] = 1
                      /\ \/ s \in hurt \/ at[s] = "okay"
                         \/ at[s] = "reading" /\ answer'[s] = "okay"
    BY <1>5 DEF SessionsTold
  <2>1. CASE s \in sessions
    <3>1. s \in Requests /\ served[s] = 1 /\ s # r
      BY <1>0, <1>3, <2>1, Kinds DEF ProgramInv, SessionsTold, Handled
    <3> QED  BY <1>7, <2>1, <3>1 DEF ProgramInv, SessionsTold
  <2>2. CASE s \notin sessions
    <3>1. s = r /\ reply = "okay"
      BY <1>1, <2>2
    <3>2. at[r] \in Waiting \cup Ended \cup {"idle"}
      BY <1>0 DEF ConnTypeOK
    <3> QED  BY <1>3, <3>1, <3>2 DEF Handled, Ended
  <2> QED  BY <2>1, <2>2
<1>13. EndedIsGone'
  <2>1. cookie \notin sessions => cookie \notin sessions'
    BY <1>1, <1>9
  <2>2. r \in Ends => cookie \notin sessions'
    BY <1>1, Kinds
  <2> QED  BY <1>2, <1>5, <1>8, <2>1, <2>2 DEF ProgramInv, EndedIsGone
<1> QED  BY <1>0, <1>4, <1>6, <1>10, <1>11, <1>12, <1>13 DEF ProgramInv

-----------------------------------------------------------------------------
\* What the threads of the client do.
ThreadStep == User \/ Goes \/ Watch \/ Exit \/ Clash

\* The stages follow each other, and the watcher starts when they say so.
LEMMA StagesKept ==
    ASSUME ProgramInv, ConnInv', ThreadStep
    PROVE  (Stages)'
<1>0. ProgramTypeOK /\ ConnTypeOK /\ \A r \in Requests : Sound(r)
  BY DEF ProgramInv, ConnInv
<1> USE <1>0, Kinds DEF ProgramInv, ProgramTypeOK, ConnTypeOK, Sound, Waiting, Ended, Stages, Running, InTurn, OthersInTurn
<1>1. CASE Questions
  BY <1>1 DEF Questions, connVars, progVars
<1>2. CASE Construct
  BY <1>2 DEF Construct, connVars
<1>3. CASE Welcome
  BY <1>3 DEF Welcome, connVars
<1>4. CASE NoAttemptsLeft
  BY <1>4 DEF NoAttemptsLeft, connVars
<1>5. CASE Menu \/ Quit
  BY <1>5 DEF Menu, Quit, connVars
<1>6. CASE Attempt
  BY <1>6 DEF Attempt, Makes, Call, Step
<1>7. CASE Synchronize
  <2>1. /\ main = "sync" /\ main' \in {"sync", "watch", "wait"} /\ UNCHANGED <<tries, cookie>>
        /\ watcher' = "none" \/ (main' = "watch" /\ way' = "none")
    BY <1>7 DEF Synchronize
  <2>2. at' = at \/ at' = [at EXCEPT !["sync"] = "opening"]
    BY <1>7 DEF Synchronize, Makes, Call, Step, connVars
  <2>3. cookie # "none" => at'[cookie] = "okay"
    BY <2>1, <2>2
  <2>4. main' = "sync" => way' = "none"
    BY <1>7 DEF Synchronize
  <2> QED  BY <2>1, <2>3, <2>4
<1>8. CASE WaitAllBeforeEnd
  BY <1>8 DEF WaitAllBeforeEnd, Locks, AllBack, connVars
<1>9. CASE EndSession
  BY <1>9 DEF EndSession, End, Makes, Call, Step, connVars
<1>10. CASE Join
  BY <1>10 DEF Join, Perish, Abandon, connVars
<1>11. CASE Watch /\ (Cycle \/ Throws)
  BY <1>11 DEF Watch, Cycle, Throws, connVars
<1>12. CASE Watch /\ (Barrier \/ WaitAllAfterFailure)
  BY <1>12 DEF Watch, Barrier, WaitAllAfterFailure, Locks, AllBack, connVars
<1>13. CASE Watch /\ Submit
  BY <1>13 DEF Watch, Submit, Makes, Call, Step
<1>14. CASE Watch /\ EndFromWatcher
  BY <1>14 DEF Watch, EndFromWatcher, Makes, Call, Step
<1>15. CASE Exit
  BY <1>15 DEF Exit, Perish, Abandon
<1>16. CASE Clash
  BY <1>16 DEF Clash, End, Perish, Abandon
<1> QED  BY <1>1, <1>2, <1>3, <1>4, <1>5, <1>6, <1>7, <1>8, <1>9, <1>10, <1>11, <1>12, <1>13, <1>14, <1>15, <1>16 DEF ThreadStep, User, Goes, Watch

\* Every request is made in its turn, and is over before the next stage.
LEMMA TurnsKept ==
    ASSUME ProgramInv, ConnInv', ThreadStep
    PROVE  (InTurn)'
<1>0. ProgramTypeOK /\ ConnTypeOK /\ \A r \in Requests : Sound(r)
  BY DEF ProgramInv, ConnInv
<1> USE <1>0, Kinds DEF ProgramInv, ProgramTypeOK, ConnTypeOK, Sound, Waiting, Ended, InTurn, LoginsInTurn, OthersInTurn, EndsInTurn, OverIsOver, Stages, Running
<1>1. CASE Questions
  BY <1>1 DEF Questions, connVars, progVars
<1>2. CASE Construct
  BY <1>2 DEF Construct, connVars
<1>3. CASE Welcome
  BY <1>3 DEF Welcome, connVars
<1>4. CASE NoAttemptsLeft
  BY <1>4 DEF NoAttemptsLeft, connVars
<1>5. CASE Menu \/ Quit
  BY <1>5 DEF Menu, Quit, connVars
<1>6. CASE Attempt
  BY <1>6 DEF Attempt, Makes, Call, Step
<1>7. CASE Synchronize
  BY <1>7 DEF Synchronize, Makes, Call, Step, connVars
<1>8. CASE WaitAllBeforeEnd
  BY <1>8 DEF WaitAllBeforeEnd, Locks, AllBack, connVars
<1>9. CASE EndSession
  BY <1>9 DEF EndSession, End, Makes, Call, Step, connVars
<1>10. CASE Join
  BY <1>10 DEF Join, Perish, Abandon, connVars
<1>11. CASE Watch /\ (Cycle \/ Throws)
  BY <1>11 DEF Watch, Cycle, Throws, connVars
<1>12. CASE Watch /\ (Barrier \/ WaitAllAfterFailure)
  BY <1>12 DEF Watch, Barrier, WaitAllAfterFailure, Locks, AllBack, connVars
<1>13. CASE Watch /\ Submit
  BY <1>13 DEF Watch, Submit, Makes, Call, Step
<1>14. CASE Watch /\ EndFromWatcher
  BY <1>14 DEF Watch, EndFromWatcher, Makes, Call, Step
<1>15. CASE Exit
  BY <1>15 DEF Exit, Perish, Abandon
<1>16. CASE Clash
  BY <1>16 DEF Clash, End, Perish, Abandon
<1> QED  BY <1>1, <1>2, <1>3, <1>4, <1>5, <1>6, <1>7, <1>8, <1>9, <1>10, <1>11, <1>12, <1>13, <1>14, <1>15, <1>16 DEF ThreadStep, User, Goes, Watch

\* A push is in pending until it is over, and an END is made only after that.
LEMMA PushesKept ==
    ASSUME ProgramInv, ConnInv', ThreadStep
    PROVE  (WaitedFor /\ OnlyLateRefused)'
<1>0. ProgramTypeOK /\ ConnTypeOK /\ \A r \in Requests : Sound(r)
  BY DEF ProgramInv, ConnInv
<1> USE <1>0, Kinds DEF ProgramInv, ProgramTypeOK, ConnTypeOK, Sound, Waiting, Ended, WaitedFor, OnlyLateRefused, InTurn, OthersInTurn, EndsInTurn, Stages, Running
<1>1. CASE Questions
  BY <1>1 DEF Questions, connVars, progVars
<1>2. CASE Construct
  BY <1>2 DEF Construct, connVars
<1>3. CASE Welcome
  BY <1>3 DEF Welcome, connVars
<1>4. CASE NoAttemptsLeft
  BY <1>4 DEF NoAttemptsLeft, connVars
<1>5. CASE Menu \/ Quit
  BY <1>5 DEF Menu, Quit, connVars
<1>6. CASE Attempt
  BY <1>6 DEF Attempt, Makes, Call, Step
<1>7. CASE Synchronize
  BY <1>7 DEF Synchronize, Makes, Call, Step, connVars
<1>8. CASE WaitAllBeforeEnd
  BY <1>8 DEF WaitAllBeforeEnd, Locks, AllBack, connVars
<1>9. CASE EndSession
  BY <1>9 DEF EndSession, End, Makes, Call, Step, connVars
<1>10. CASE Join
  BY <1>10 DEF Join, Perish, Abandon, connVars
<1>11. CASE Watch /\ (Cycle \/ Throws)
  BY <1>11 DEF Watch, Cycle, Throws, connVars
<1>12. CASE Watch /\ (Barrier \/ WaitAllAfterFailure)
  BY <1>12 DEF Watch, Barrier, WaitAllAfterFailure, Locks, AllBack, connVars
<1>13. CASE Watch /\ Submit
  BY <1>13 DEF Watch, Submit, Makes, Call, Step
<1>14. CASE Watch /\ EndFromWatcher
  BY <1>14 DEF Watch, EndFromWatcher, Makes, Call, Step
<1>15. CASE Exit
  BY <1>15 DEF Exit, Perish, Abandon
<1>16. CASE Clash
  BY <1>16 DEF Clash, End, Perish, Abandon
<1> QED  BY <1>1, <1>2, <1>3, <1>4, <1>5, <1>6, <1>7, <1>8, <1>9, <1>10, <1>11, <1>12, <1>13, <1>14, <1>15, <1>16 DEF ThreadStep, User, Goes, Watch

\* The session comes with a login, and an END that was answered was handled.
LEMMA SessionsKept ==
    ASSUME ProgramInv, ConnInv', ThreadStep
    PROVE  (KeepsSession /\ SessionsTold /\ EndedIsGone)'
<1>0. ProgramTypeOK /\ ConnTypeOK /\ \A r \in Requests : Sound(r)
  BY DEF ProgramInv, ConnInv
<1> USE <1>0, Kinds DEF ProgramInv, ProgramTypeOK, ConnTypeOK, Sound, Waiting, Ended, KeepsSession, LoggedIn, Ending, SessionsTold, EndedIsGone, InTurn, LoginsInTurn, OthersInTurn, EndsInTurn, Stages, Running
<1>1. CASE Questions
  BY <1>1 DEF Questions, connVars, progVars
<1>2. CASE Construct
  BY <1>2 DEF Construct, connVars
<1>3. CASE Welcome
  <2>1. cookie' \in Attempts /\ at[cookie'] = "okay" /\ main = "login" /\ main' = "menu"
    BY <1>3 DEF Welcome
  <2>2. UNCHANGED <<at, answer, served, hurt, sessions>>
    BY <1>3 DEF Welcome, connVars
  <2>3. ~Ending
    BY <2>1
  <2>4. (KeepsSession /\ SessionsTold)'
    BY <2>1, <2>2
  <2>5. EndedIsGone'
    BY <2>1, <2>2, <2>3
  <2> QED  BY <2>4, <2>5
<1>4. CASE NoAttemptsLeft
  BY <1>4 DEF NoAttemptsLeft, connVars
<1>5. CASE Menu \/ Quit
  <2>1. UNCHANGED <<at, answer, served, hurt, sessions, cookie>>
    BY <1>5 DEF Menu, Quit, connVars
  <2>2. /\ main \in {"menu", "watch"}
        /\ main' \in {"sync", "wait"} \/ (main' = "over" /\ way' = "menu")
    BY <1>5 DEF Menu, Quit
  <2> QED  BY <2>1, <2>2
<1>6. CASE Attempt
  BY <1>6 DEF Attempt, Makes, Call, Step
<1>7. CASE Synchronize
  BY <1>7 DEF Synchronize, Makes, Call, Step, connVars
<1>8. CASE WaitAllBeforeEnd
  BY <1>8 DEF WaitAllBeforeEnd, Locks, AllBack, connVars
<1>9. CASE EndSession
  BY <1>9 DEF EndSession, End, Makes, Call, Step, connVars
<1>10. CASE Join
  BY <1>10 DEF Join, Perish, Abandon, connVars
<1>11. CASE Watch /\ (Cycle \/ Throws)
  BY <1>11 DEF Watch, Cycle, Throws, connVars
<1>12. CASE Watch /\ (Barrier \/ WaitAllAfterFailure)
  BY <1>12 DEF Watch, Barrier, WaitAllAfterFailure, Locks, AllBack, connVars
<1>13. CASE Watch /\ Submit
  BY <1>13 DEF Watch, Submit, Makes, Call, Step
<1>14. CASE Watch /\ EndFromWatcher
  BY <1>14 DEF Watch, EndFromWatcher, Makes, Call, Step
<1>15. CASE Exit
  BY <1>15 DEF Exit, Perish, Abandon
<1>16. CASE Clash
  BY <1>16 DEF Clash, End, Perish, Abandon
<1> QED  BY <1>1, <1>2, <1>3, <1>4, <1>5, <1>6, <1>7, <1>8, <1>9, <1>10, <1>11, <1>12, <1>13, <1>14, <1>15, <1>16 DEF ThreadStep, User, Goes, Watch


LEMMA ProgramTypeKept ==
    ASSUME ProgramInv, ConnInv', SetupTypeOK', ThreadStep
    PROVE  ProgramTypeOK'
<1>0. ProgramTypeOK /\ ConnTypeOK' /\ Pushes \subseteq Requests
  BY Kinds DEF ProgramInv, ConnInv
<1> USE <1>0 DEF ProgramTypeOK
<1>1. CASE Questions \/ Construct
  BY <1>1 DEF Questions, Construct, progVars
<1>2. CASE Welcome
  <2>1. Logins[tries] \in Attempts
    BY <1>2, Kinds DEF Welcome
  <2> QED  BY <1>2, <2>1 DEF Welcome
<1>3. CASE NoAttemptsLeft \/ Menu \/ Quit
  BY <1>3 DEF NoAttemptsLeft, Menu, Quit
<1>4. CASE Attempt
  BY <1>4, Kinds DEF Attempt
<1>5. CASE Synchronize \/ Join
  BY <1>5 DEF Synchronize, Join, Perish
<1>6. CASE WaitAllBeforeEnd \/ EndSession
  BY <1>6 DEF WaitAllBeforeEnd, EndSession, Locks, AllBack
<1>7. CASE Watch
  <2>0. UNCHANGED <<main, way, tries, running, cookie, sessions, asleep>>
    BY <1>7 DEF Watch
  <2>1. watcher' \in {"none", "scan", "barrier", "push", "wait", "waiting", "end", "done", "threw"}
    BY <1>7 DEF Watch, Cycle, Throws, Barrier, Submit, WaitAllAfterFailure, EndFromWatcher
  <2>2. fresh' \in BOOLEAN
    BY <1>7 DEF Watch, Cycle, Throws, Barrier, Submit, WaitAllAfterFailure, EndFromWatcher
  <2>3. holder' \in {"none", "main", "watcher"}
    BY <1>7 DEF Watch, Cycle, Throws, Barrier, Submit, WaitAllAfterFailure, EndFromWatcher, Locks, AllBack
  <2>4. pending' \subseteq Pushes
    BY <1>7 DEF Watch, Cycle, Throws, Barrier, Submit, WaitAllAfterFailure, EndFromWatcher, Locks, AllBack
  <2>5. late' \subseteq Pushes
    BY <1>7 DEF Watch, Cycle, Throws, Barrier, Submit, WaitAllAfterFailure, EndFromWatcher
  <2> QED  BY <2>0, <2>1, <2>2, <2>3, <2>4, <2>5
<1>8. CASE Exit \/ Clash
  BY <1>8 DEF Exit, Clash, Perish
<1> QED  BY <1>1, <1>2, <1>3, <1>4, <1>5, <1>6, <1>7, <1>8 DEF ThreadStep, User, Goes

-----------------------------------------------------------------------------
\* The dialogue in the program: it goes on as Setup says until the client is
\* made, which forgets its answers.
DialogueInv == DialogueType /\ NewlineContained /\ Recorded

LEMMA DialogueInProgram == DialogueInv /\ [Next]_vars => DialogueInv'
<1> SUFFICES ASSUME DialogueInv, [Next]_vars PROVE DialogueInv'
  OBVIOUS
<1>1. CASE [SetupNext]_setupVars
  BY <1>1, DialogueTypeStep, NewlineStep, RecordedStep DEF DialogueInv
<1>2. CASE Construct
  <2>1. SetupTypeOK /\ OnItsWay /\ Fields' = Fields
    BY <1>2 DEF DialogueInv, DialogueType, Construct, Fields, Order
  <2>2. /\ program' = program /\ stage = "done" /\ stage' = "done" /\ console' = "clean"
        /\ config' = Defaults /\ exists' = FALSE /\ file' = <<>> /\ there' = OnDisk
        /\ starts' = 1 /\ typed' = typed /\ ec' = ec
    BY <1>2 DEF Construct
  <2>3. config' \in [Keys -> Values] /\ there' \in [Names -> {"dir", "file", "none"}]
    BY <2>2, SetupAssumption DEF Defaults, Values
  <2>4. 1 \in 1..(MaxStarts + 1)
    BY SetupAssumption
  <2>5. file' \in Seq([key : Keys, value : Values]) /\ Len(file') <= 4
    BY <2>2
  <2>6. SetupTypeOK'
    BY <2>1, <2>2, <2>3, <2>4, <2>5 DEF SetupTypeOK
  <2>7. OnItsWay'
    BY <2>2 DEF OnItsWay, Keys
  <2>8. NewlineContained' /\ Recorded'
    BY <2>2 DEF NewlineContained, Recorded, InOrder, SoFar, ReadBack
  <2> QED  BY <2>6, <2>7, <2>8 DEF DialogueInv, DialogueType
<1>3. CASE UNCHANGED setupVars \/ Questions
  BY <1>1, <1>3 DEF Questions
<1>4. CASE Attempt \/ Menu \/ Quit \/ Goes
  BY <1>3, <1>4 DEF Attempt, Menu, Quit, Goes, Welcome, NoAttemptsLeft, Synchronize,
     WaitAllBeforeEnd, EndSession, Join
<1>5. CASE Watch \/ Exit \/ Clash
  BY <1>3, <1>5 DEF Watch, Exit, Clash
<1>6. ASSUME NEW r \in Requests, Moves(r) \/ Admits(r) \/ Suffers(r) \/ Serves(r) \/ Sleeps(r)
      PROVE  DialogueInv'
  BY <1>3, <1>6 DEF Moves, Admits, Suffers, Serves, Sleeps
<1>7. CASE UNCHANGED vars
  BY <1>3, <1>7 DEF vars
<1> QED  BY <1>2, <1>3, <1>4, <1>5, <1>6, <1>7 DEF Next, User

\* The program and its dialogue.
WholeInv == ProgramInv /\ DialogueInv

LEMMA WholeInit == Init => WholeInv
<1> SUFFICES ASSUME Init PROVE WholeInv
  OBVIOUS
<1>1. SetupInit /\ ConnInit
  BY DEF Init
<1>2. DialogueInv
  BY <1>1, DialogueTypeAtStart DEF SetupInit, DialogueInv, NewlineContained, Recorded, InOrder, SoFar, ReadBack
<1>3. ConnInv
  BY <1>1, ConnInvInit
<1>4. ProgramTypeOK
  BY <1>2, <1>3, Kinds DEF Init, ProgramTypeOK, DialogueInv, DialogueType, ConnInv
<1>5. \A r \in Requests : at[r] = "idle" /\ answer[r] = "none" /\ served[r] = 0
  BY <1>1 DEF ConnInit
<1>6. Stages /\ InTurn /\ WaitedFor
  BY <1>5, Kinds DEF Init, Stages, InTurn, LoginsInTurn, OthersInTurn, EndsInTurn, OverIsOver,
     WaitedFor, Waiting
<1>7. KeepsSession /\ OnlyLateRefused /\ SessionsTold /\ EndedIsGone
  BY <1>5, Kinds DEF Init, KeepsSession, LoggedIn, Running, OnlyLateRefused, SessionsTold, EndedIsGone
<1> QED  BY <1>2, <1>3, <1>4, <1>6, <1>7 DEF WholeInv, ProgramInv

LEMMA WholeStep == WholeInv /\ [Next]_vars => WholeInv'
<1> SUFFICES ASSUME WholeInv, [Next]_vars PROVE WholeInv'
  OBVIOUS
<1>1. DialogueInv' /\ SetupTypeOK'
  BY DialogueInProgram DEF WholeInv, DialogueInv, DialogueType
<1>2. ProgramInv /\ ConnInv /\ Counted
  BY Kinds DEF WholeInv, ProgramInv, ProgramTypeOK, Counted
<1>3. ConnInv'
  BY <1>2, ProgramStep, ConnInvStep
<1>4. CASE ThreadStep
  <2>1. ProgramTypeOK' /\ Stages' /\ InTurn'
    BY <1>1, <1>2, <1>3, <1>4, ProgramTypeKept, StagesKept, TurnsKept
  <2>2. (WaitedFor /\ OnlyLateRefused)' /\ (KeepsSession /\ SessionsTold /\ EndedIsGone)'
    BY <1>2, <1>3, <1>4, PushesKept, SessionsKept
  <2>3. ProgramInv'
    BY <1>3, <2>1, <2>2 DEF ProgramInv
  <2> QED  BY <1>1, <2>3 DEF WholeInv
<1>5. ASSUME NEW r \in Requests, Moves(r) \/ Admits(r) \/ Suffers(r) PROVE WholeInv'
  <2>1. Moved(r)
    BY <1>2, <1>3, <1>5, ConnectionMoves DEF Moves, Admits, Suffers
  <2>2. ProgramInv'
    BY <1>2, <1>3, <1>5, <2>1, ProgramConnKeeps DEF Moves, Admits, Suffers
  <2> QED  BY <1>1, <2>2 DEF WholeInv
<1>6. ASSUME NEW r \in Requests, Serves(r) PROVE WholeInv'
  <2>1. ProgramInv'
    BY <1>2, <1>3, <1>6, ServesKeeps
  <2> QED  BY <1>1, <2>1 DEF WholeInv
<1>7. CASE UNCHANGED vars \/ \E p \in Pushes : Sleeps(p)
  <2>1. /\ UNCHANGED <<connVars, main, way, tries, watcher, running, fresh, holder, pending, late, cookie, sessions>>
        /\ asleep' \subseteq Pushes
    BY <1>2, <1>7 DEF vars, progVars, Sleeps, ProgramInv, ProgramTypeOK
  <2>2. ProgramTypeOK' /\ Stages' /\ InTurn' /\ WaitedFor'
    BY <1>1, <1>2, <1>3, <2>1 DEF connVars, ProgramInv, ConnInv, ProgramTypeOK, Stages, InTurn,
       LoginsInTurn, OthersInTurn, EndsInTurn, OverIsOver, WaitedFor
  <2>3. (KeepsSession /\ OnlyLateRefused /\ SessionsTold /\ EndedIsGone)'
    BY <1>2, <2>1 DEF connVars, ProgramInv, KeepsSession, LoggedIn, Ending,
       OnlyLateRefused, SessionsTold, EndedIsGone
  <2> QED  BY <1>1, <1>3, <2>2, <2>3 DEF WholeInv, ProgramInv
<1>8. ASSUME NEW r \in Requests, Sleeps(r) PROVE WholeInv'
  BY <1>7, <1>8 DEF Sleeps
<1> QED  BY <1>4, <1>5, <1>6, <1>7, <1>8 DEF Next, ThreadStep

\* Everything that is known of the client, from its first question to its end.
THEOREM WholeInvariant == Spec => []WholeInv
<1> QED  BY WholeInit, WholeStep, PTL DEF Spec

\* All variables of the program have their types (ProgramTypeOK).
THEOREM ProgramTypeCorrect == Spec => []ProgramTypeOK
<1>1. WholeInv => ProgramTypeOK
  BY DEF WholeInv, ProgramInv
<1> QED  BY <1>1, WholeInvariant, PTL

\* What Setup's dialogue promises it promises in the program too (ReadBack and
\* NewlineContained).
THEOREM ProgramReadsBack == Spec => [](ReadBack /\ NewlineContained)
<1>1. WholeInv => ReadBack /\ NewlineContained
  BY DEF WholeInv, DialogueInv, Recorded
<1> QED  BY <1>1, WholeInvariant, PTL

\* No push that was made before close had waited for all is refused for want of
\* its session, whichever thread ends it (RefusedOnlyLate).
THEOREM PushesKeepTheirSession == Spec => []RefusedOnlyLate
<1>1. WholeInv => RefusedOnlyLate
  BY DEF WholeInv, ProgramInv, OnlyLateRefused, RefusedOnlyLate
<1> QED  BY <1>1, WholeInvariant, PTL

\* The client that is over has left no session behind, but by the menu's way out
\* or when a login or an END was lost (LeavesNoSession).
THEOREM ClientLeavesNoSession == Spec => []LeavesNoSession
<1>1. WholeInv => LeavesNoSession
  <2> SUFFICES ASSUME WholeInv, main = "over", way # "menu", hurt \cap (Attempts \cup Ends) = {},
                      NEW s \in sessions
               PROVE  FALSE
    BY DEF LeavesNoSession
  <2>1. s \in Attempts /\ s \in Requests /\ s \notin hurt
    BY Kinds DEF WholeInv, ProgramInv, ProgramTypeOK
  <2>2. at[s] \notin Waiting
    BY <2>1 DEF WholeInv, ProgramInv, InTurn, OverIsOver
  <2>3. at[s] = "okay"
    BY <2>1, <2>2 DEF WholeInv, ProgramInv, SessionsTold, Waiting
  <2>4. s = cookie
    BY <2>1, <2>3 DEF WholeInv, ProgramInv, InTurn, LoginsInTurn
  <2> QED  BY <2>4 DEF WholeInv, ProgramInv, EndedIsGone
<1> QED  BY <1>1, WholeInvariant, PTL
=============================================================================
