--------------------------- MODULE ServerApi_proofs ---------------------------
(***************************************************************************)
(* Proofs about ServerApi, for any number of clients, connections, threads *)
(* and requests and whatever mishaps: the count of the pool, the types,    *)
(* and whose session a request is handled in.                              *)
(***************************************************************************)
EXTENDS ServerApi, FiniteSetTheorems, TLAPS

\* The part of the type invariant the pool needs.
PoolType == pc \in [Conns -> Running \cup {"free", "backlog", "discard"}] /\ active \in Int

PoolInv == PoolType /\ PoolExact

\* A step of a thread inside run neither takes a connection up nor gives it
\* up.
Within == /\ PoolType'
          /\ Served' = Served
          /\ active' = active

LEMMA ServedFinite == IsFiniteSet(Served)
<1>1. Served \subseteq Conns
  BY DEF Served
<1> QED  BY <1>1, FS_Subset, ServerApiAssumption

\* Moving one connection between two places that both count, or both do not,
\* leaves the set of served ones.
LEMMA MoveWithin ==
    ASSUME PoolType, NEW c \in Conns,
           NEW to \in Running \cup {"free", "backlog", "discard"},
           pc' = [pc EXCEPT ![c] = to],
           pc[c] \in Running <=> to \in Running,
           active' = active
    PROVE  Within
<1>1. pc' \in [Conns -> Running \cup {"free", "backlog", "discard"}]
  BY DEF PoolType
<1>2. Served' = Served
  BY DEF Served, PoolType
<1> QED  BY <1>1, <1>2 DEF Within, PoolType

\* What a thread does between taking a connection and leaving it.
Inside(c) == \/ Insert(c) \/ Admit(c) \/ Refuse(c) \/ Handle(c) \/ Erase(c)
             \/ Receive(c) \/ ReceiveFails(c)

LEMMA InsideIsWithin ==
    ASSUME PoolType, NEW c \in Conns, Inside(c)
    PROVE  Within
<1>1. PICK to \in Running :
         pc[c] \in Running /\ pc' = [pc EXCEPT ![c] = to] /\ active' = active
  <2>1. CASE Insert(c)        BY <2>1 DEF Insert, Goto, Running
  <2>2. CASE Admit(c)         BY <2>2 DEF Admit, Goto, Running
  <2>3. CASE Refuse(c)        BY <2>3 DEF Refuse, Goto, Running
  <2>4. CASE Handle(c)        BY <2>4 DEF Handle, Running
  <2>5. CASE Erase(c)         BY <2>5 DEF Erase, Goto, Running
  <2>6. CASE Receive(c)       BY <2>6 DEF Receive, Search, Goto, Running
  <2>7. CASE ReceiveFails(c)  BY <2>7 DEF ReceiveFails, Goto, Running
  <2> QED  BY <2>1, <2>2, <2>3, <2>4, <2>5, <2>6, <2>7, Inside(c) DEF Inside
<1> QED  BY <1>1, MoveWithin

\* A connection taken up counts one more.
LEMMA TakeUp ==
    ASSUME PoolInv, NEW c \in Conns, pc[c] = "backlog", active < MaxThreads,
           pc' = [pc EXCEPT ![c] = "receive"], active' = active + 1
    PROVE  PoolInv'
<1>1. PoolType'
  BY DEF PoolInv, PoolType, Running
<1>2. Served' = Served \cup {c} /\ c \notin Served
  BY DEF PoolInv, PoolType, Served, Running
<1>3. Cardinality(Served') = Cardinality(Served) + 1
  BY <1>2, ServedFinite, FS_AddElement
<1>4. active' <= MaxThreads
  BY ServerApiAssumption DEF PoolInv, PoolType
<1> QED  BY <1>1, <1>3, <1>4 DEF PoolInv, PoolExact

\* A connection left counts one less.
LEMMA LeaveCounts ==
    ASSUME PoolInv, NEW c \in Conns, NEW from \in Running, Leave(c, from)
    PROVE  PoolInv'
<1>1. PoolType'
  BY DEF PoolInv, PoolType, Leave, Goto
<1>2. Served' = Served \ {c} /\ c \in Served
  BY DEF PoolInv, PoolType, Served, Leave, Goto, Running
<1>3. Cardinality(Served') = Cardinality(Served) - 1
  BY <1>2, ServedFinite, FS_RemoveElement
<1>4. active' = active - 1 /\ active' <= MaxThreads
  BY ServerApiAssumption DEF PoolInv, PoolType, PoolExact, Leave
<1> QED  BY <1>1, <1>3, <1>4 DEF PoolInv, PoolExact

LEMMA WithinKeeps == ASSUME PoolInv, Within PROVE PoolInv'
  BY DEF PoolInv, Within, PoolExact

LEMMA PoolInvInit == Init => PoolInv
<1> SUFFICES ASSUME Init PROVE PoolInv
  OBVIOUS
<1>1. PoolType
  BY DEF Init, PoolType
<1>2. Served = {}
  BY DEF Init, Served, Running
<1> QED  BY <1>1, <1>2, FS_EmptySet, ServerApiAssumption DEF Init, PoolInv, PoolExact

\* Every step of the system keeps the count.
LEMMA PoolInvStep == PoolInv /\ [Next]_vars => PoolInv'
<1> SUFFICES ASSUME PoolInv, [Next]_vars PROVE PoolInv'
  OBVIOUS
<1> USE DEF PoolInv
<1>1. ASSUME NEW c \in Conns, NEW k \in Clients, NEW kind \in Kinds, Connect(k, kind, c)
      PROVE  PoolInv'
  BY <1>1, MoveWithin, WithinKeeps DEF Connect, Running
<1>2. ASSUME NEW c \in Conns, Sever(c) PROVE PoolInv'
  BY <1>2 DEF Sever, PoolType, PoolExact, Served
<1>3. ASSUME NEW c \in Conns, Accept(c) PROVE PoolInv'
  <2>1. CASE active >= MaxThreads
    <3>1. active' = active /\ pc' = [pc EXCEPT ![c] = "discard"] /\ pc[c] = "backlog"
      BY <1>3, <2>1, ServerApiAssumption DEF Accept, Goto, PoolType
    <3> QED  BY <3>1, MoveWithin, WithinKeeps DEF Running
  <2>2. CASE active < MaxThreads
    <3>1. active' = active + 1 /\ pc' = [pc EXCEPT ![c] = "receive"] /\ pc[c] = "backlog"
      BY <1>3, <2>2, ServerApiAssumption DEF Accept, Goto, PoolType
    <3> QED  BY <3>1, <2>2, TakeUp
  <2> QED  BY <1>3, <2>1, <2>2 DEF Accept
<1>4. ASSUME NEW c \in Conns, Discard(c) PROVE PoolInv'
  BY <1>4, MoveWithin, WithinKeeps DEF Discard, Goto, Running
<1>5. ASSUME NEW c \in Conns, Thread(c) PROVE PoolInv'
  <2>1. CASE Inside(c)
    BY <2>1, InsideIsWithin, WithinKeeps
  <2>2. CASE PauseFind(c)
    <3>1. CASE Leave(c, "pauseFind")
      BY <3>1, LeaveCounts DEF Running
    <3>2. CASE Goto(c, "pauseFind", "pauseInsert") /\ UNCHANGED <<active, req>>
      BY <3>2, MoveWithin, WithinKeeps DEF Goto, Running
    <3> QED  BY <2>2, <3>1, <3>2 DEF PauseFind, Search
  <2>3. CASE PauseInsert(c)
    BY <2>3, LeaveCounts DEF PauseInsert, Running
  <2> QED  BY <1>5, <2>1, <2>2, <2>3 DEF Thread, Inside
<1>6. CASE Restart
  <2>1. Served' = {} /\ active' = 0 /\ PoolType'
    BY <1>6 DEF Restart, Served, PoolType, Running
  <2> QED  BY <2>1, FS_EmptySet, ServerApiAssumption DEF PoolExact
<1>7. CASE UNCHANGED vars
  BY <1>7 DEF vars, connVars, PoolType, PoolExact, Served
<1> QED  BY <1>1, <1>2, <1>3, <1>4, <1>5, <1>6, <1>7 DEF Next

\* The pool's counter is exact and never above MAX_THREADS, on every path
\* through Server_API::run and whatever the connections do.
THEOREM PoolIsExact == Spec => []PoolExact
<1>1. Init => PoolInv  BY PoolInvInit
<1>2. PoolInv /\ [Next]_vars => PoolInv'  BY PoolInvStep
<1>3. PoolInv => PoolExact  BY DEF PoolInv
<1> QED  BY <1>1, <1>2, <1>3, PTL DEF Spec

-----------------------------------------------------------------------------
(***************************************************************************)
(* The types.  The connections in use and their sessions must be known to  *)
(* fit, and the requests a busy server hands back must be accounted for.   *)
(***************************************************************************)

\* The values of the variables but for two bounds that are about the pool and
\* about the requests a client has left.
PlainType ==
    /\ stage \in [Clients -> {"new", "in", "done"}]
    /\ cookie \in [Clients -> Ids \cup {0}] /\ left \in [Clients -> Nat]
    /\ pc \in [Conns -> Running \cup {"free", "backlog", "discard"}]
    /\ req \in [Conns -> Request \cup {NoRequest}]
    /\ open \subseteq Conns /\ sess \in [Conns -> Ids \cup {0}]
    /\ sessions \subseteq Ids /\ user \in [Ids -> Clients \cup {None}] /\ logged \subseteq Ids
    /\ counter \in 1..(MaxId + 1) /\ mishaps \subseteq Possible

\* Where the client may still wait for the answer, and where the thread has
\* found or made a Session.
Asked == {"backlog", "discard", "receive", "insert", "check", "handle"}
Found == {"insert", "check", "handle", "erase", "pauseInsert"}

\* A connection in use carries a request; a thread that has come past
\* retrieve_session holds a Session.
Shape == \A c \in Conns :
    /\ pc[c] # "free" => req[c] \in Request
    /\ pc[c] = "free" => req[c] = NoRequest
    /\ c \in open => pc[c] \in Asked
    /\ pc[c] \in {"free", "backlog", "discard", "receive"} => sess[c] = 0
    /\ pc[c] \in Found => sess[c] \in Ids

\* An answer that does not come only ends clients.
LEMMA WithoutAnswerType ==
    ASSUME PlainType, NEW C, WithoutAnswer(C)
    PROVE  stage' \in [Clients -> {"new", "in", "done"}]
  BY DEF PlainType, WithoutAnswer

\* A search keeps the table's types, whatever else its step does.
LEMMA SearchType ==
    ASSUME PlainType, NEW c \in Conns, NEW found, NEW missing, Search(c, found, missing),
           found => sess' \in [Conns -> Ids \cup {0}]
    PROVE  /\ sess' \in [Conns -> Ids \cup {0}] 
           /\ user' \in [Ids -> Clients \cup {None}] /\ logged' \subseteq Ids
           /\ counter' \in 1..(MaxId + 1) /\ mishaps' \subseteq Possible
<1>1. CASE found /\ UNCHANGED <<user, logged, counter, mishaps>>
  BY <1>1 DEF PlainType
<1>2. CASE /\ UNCHANGED mishaps \/ Race(c)
           /\ counter \in Ids
           /\ sess' = [sess EXCEPT ![c] = counter]
           /\ user' = [user EXCEPT ![counter] = None] /\ logged' = logged \ {counter}
           /\ counter' = counter + 1
  <2>1. counter' \in 1..(MaxId + 1)
    BY <1>2, ServerApiAssumption DEF Ids
  <2>2. mishaps' \subseteq Possible
    BY <1>2 DEF Race, Mishap, PlainType
  <2> QED  BY <1>2, <2>1, <2>2 DEF PlainType
<1> QED  BY <1>1, <1>2 DEF Search, NextId

LEMMA PlainTypeStep == PlainType /\ Shape /\ [Next]_vars => PlainType'
<1> SUFFICES ASSUME PlainType, Shape, [Next]_vars PROVE PlainType'
  OBVIOUS
<1>1. ASSUME NEW c \in Conns, NEW k \in Clients, NEW kind \in Kinds, Connect(k, kind, c)
      PROVE  PlainType'
  <2>1. left' \in [Clients -> Nat]
    BY <1>1 DEF Connect, MayAsk, PlainType
  <2>2. req' \in [Conns -> Request \cup {NoRequest}]
    <3>1. PICK good \in BOOLEAN : req' = [req EXCEPT ![c] =
             [client |-> k, kind |-> kind, cookie |-> cookie[k], good |-> good]]
      BY <1>1 DEF Connect
    <3>2. [client |-> k, kind |-> kind, cookie |-> cookie[k], good |-> good] \in Request
      BY DEF PlainType, Request
    <3> QED  BY <3>1, <3>2 DEF PlainType
  <2> QED  BY <1>1, <2>1, <2>2 DEF Connect, PlainType, table
<1>2. ASSUME NEW c \in Conns, Sever(c) PROVE PlainType'
  BY <1>2, WithoutAnswerType DEF Sever, Mishap, PlainType, table
<1>3. ASSUME NEW c \in Conns, Accept(c) PROVE PlainType'
  BY <1>3 DEF Accept, Goto, PlainType, Running, clientVars, table
<1>4. ASSUME NEW c \in Conns, Discard(c) PROVE PlainType'
  <2>1. left' \in [Clients -> Nat]
    <3>1. CASE left' = left
      BY <3>1 DEF PlainType
    <3>2. CASE left' = [left EXCEPT ![req[c].client] = @ + 1]
      <4>1. req[c].client \in Clients
        BY <1>4 DEF Discard, Goto, Shape, Request
      <4> QED  BY <3>2, <4>1 DEF PlainType
    <3> QED  BY <1>4, <3>1, <3>2 DEF Discard
  <2> QED  BY <1>4, <2>1 DEF Discard, Goto, PlainType, table
<1>5. ASSUME NEW c \in Conns, ReceiveFails(c) PROVE PlainType'
  <2>1. PICK id \in {0, req[c].cookie} : req' = [req EXCEPT ![c].cookie = id]
    BY <1>5 DEF ReceiveFails
  <2>2. req' \in [Conns -> Request \cup {NoRequest}]
    <3>1. req[c] \in Request
      BY <1>5 DEF ReceiveFails, Goto, Shape
    <3>2. [req[c] EXCEPT !.cookie = id] \in Request
      BY <2>1, <3>1 DEF Request
    <3> QED  BY <2>1, <3>2 DEF PlainType
  <2> QED  BY <1>5, <2>2, WithoutAnswerType DEF ReceiveFails, Goto, Mishap, PlainType, table, Running
<1>6. ASSUME NEW c \in Conns, Receive(c) PROVE PlainType'
  <2>1. (Goto(c, "receive", "check") /\ sess' = [sess EXCEPT ![c] = req[c].cookie])
           => sess' \in [Conns -> Ids \cup {0}]
    BY DEF PlainType, Request, NoRequest
  <2>2. pc' \in [Conns -> Running \cup {"free", "backlog", "discard"}]
    BY <1>6 DEF Receive, Search, Goto, PlainType, Running
  <2> QED  BY <1>6, <2>1, <2>2, SearchType DEF Receive, PlainType, clientVars
<1>7. ASSUME NEW c \in Conns, Insert(c) PROVE PlainType'
  <2>1. sess[c] \in Ids
    BY <1>7 DEF Insert, Goto, Shape, Found
  <2> QED
    BY <1>7, <2>1 DEF Insert, InsertSession, Race, Mishap, Goto, PlainType, Running, clientVars
<1>8. ASSUME NEW c \in Conns, Admit(c) PROVE PlainType'
  BY <1>8 DEF Admit, Goto, PlainType, Running, clientVars, table
<1>9. ASSUME NEW c \in Conns, Refuse(c) PROVE PlainType'
  BY <1>9, WithoutAnswerType DEF Refuse, Goto, PlainType, Running, table
<1>10. ASSUME NEW c \in Conns, Handle(c) PROVE PlainType'
  <2>1. user' \in [Ids -> Clients \cup {None}] /\ logged' \subseteq Ids
    <3>1. sess[c] \in Ids
      BY <1>10 DEF Handle, Shape, Found
    <3>2. req[c].client \in Clients \cup {None}
      BY DEF PlainType, Request, NoRequest
    <3>3. CASE req[c].kind = "LOGIN"
      BY <1>10, <3>1, <3>2, <3>3 DEF Handle, Login, PlainType
    <3> QED  BY <1>10, <3>3 DEF Handle, PlainType
  <2>2. /\ stage' \in [Clients -> {"new", "in", "done"}]
        /\ cookie' \in [Clients -> Ids \cup {0}]
    BY <1>10 DEF Handle, PlainType
  <2> QED  BY <1>10, <2>1, <2>2 DEF Handle, PlainType, Running
<1>11. ASSUME NEW c \in Conns, Erase(c) PROVE PlainType'
  BY <1>11 DEF Erase, Race, Mishap, Goto, PlainType, Running, clientVars
<1>12. ASSUME NEW c \in Conns, PauseFind(c) PROVE PlainType'
  <2>1. Leave(c, "pauseFind") => sess' \in [Conns -> Ids \cup {0}]
    BY DEF Leave, PlainType
  <2>2. /\ pc' \in [Conns -> Running \cup {"free", "backlog", "discard"}]
        /\ req' \in [Conns -> Request \cup {NoRequest}]
    BY <1>12 DEF PauseFind, Search, Leave, Goto, PlainType, Running
  <2> QED  BY <1>12, <2>1, <2>2, SearchType DEF PauseFind, PlainType, clientVars
<1>13. ASSUME NEW c \in Conns, PauseInsert(c) PROVE PlainType'
  <2>1. sess[c] \in Ids
    BY <1>13 DEF PauseInsert, Leave, Goto, Shape, Found
  <2> QED
    BY <1>13, <2>1 DEF PauseInsert, InsertSession, Race, Mishap, Leave, Goto, PlainType, clientVars
<1>14. CASE Restart
  <2>1. counter' \in 1..(MaxId + 1)
    BY <1>14, ServerApiAssumption DEF Restart
  <2> QED  BY <1>14, <2>1, WithoutAnswerType DEF Restart, Mishap, PlainType
<1>15. CASE UNCHANGED vars
  BY <1>15 DEF vars, clientVars, connVars, table, PlainType
<1> QED
  BY <1>1, <1>2, <1>3, <1>4, <1>5, <1>6, <1>7, <1>8, <1>9, <1>10, <1>11, <1>12, <1>13,
     <1>14, <1>15 DEF Next, Thread

\* A step gives connection c a place, a request and a session that fit each
\* other.
Fits(c, to, r, i) ==
    /\ pc' = [pc EXCEPT ![c] = to] /\ req' = [req EXCEPT ![c] = r]
    /\ sess' = [sess EXCEPT ![c] = i] /\ open' \subseteq open \cup {c}
    /\ to # "free" => r \in Request
    /\ to = "free" => r = NoRequest
    /\ c \in open' => to \in Asked
    /\ to \in {"free", "backlog", "discard", "receive"} => i = 0
    /\ to \in Found => i \in Ids

\* The other connections keep their shape.
LEMMA FitKeepsShape ==
    ASSUME PlainType, Shape, NEW c \in Conns, NEW to, NEW r, NEW i, Fits(c, to, r, i)
    PROVE  Shape'
<1> USE DEF Fits
<1>1. pc'[c] = to /\ req'[c] = r /\ sess'[c] = i
  BY DEF PlainType
<1>2. ASSUME NEW d \in Conns, d # c
      PROVE  /\ pc'[d] = pc[d] /\ req'[d] = req[d] /\ sess'[d] = sess[d]
             /\ d \in open' => d \in open
  BY <1>2 DEF PlainType
<1>3. Request' = Request /\ NoRequest' = NoRequest /\ Ids' = Ids
  BY DEF Request, NoRequest, Ids, Kinds
<1> QED
  BY <1>1, <1>2 DEF Shape

LEMMA ShapeStep == PlainType /\ Shape /\ [Next]_vars => Shape'
<1> SUFFICES ASSUME PlainType, Shape, [Next]_vars PROVE Shape'
  OBVIOUS
<1>0. ASSUME NEW c \in Conns
      PROVE  /\ pc[c] # "free" => req[c] \in Request
             /\ c \in open => pc[c] \in Asked
             /\ pc[c] \in {"free", "backlog", "discard", "receive"} => sess[c] = 0
             /\ pc[c] \in Found => sess[c] \in Ids
             /\ req = [req EXCEPT ![c] = req[c]]
             /\ sess = [sess EXCEPT ![c] = sess[c]]
             /\ pc = [pc EXCEPT ![c] = pc[c]]
  BY DEF Shape, PlainType
<1>1. ASSUME NEW c \in Conns, NEW k \in Clients, NEW kind \in Kinds, Connect(k, kind, c)
      PROVE  Shape'
  <2>1. PICK good \in BOOLEAN : req' = [req EXCEPT ![c] =
           [client |-> k, kind |-> kind, cookie |-> cookie[k], good |-> good]]
    BY <1>1 DEF Connect
  <2>2. [client |-> k, kind |-> kind, cookie |-> cookie[k], good |-> good] \in Request
    BY DEF PlainType, Request
  <2>3. Fits(c, "backlog", [client |-> k, kind |-> kind, cookie |-> cookie[k], good |-> good], sess[c])
    BY <1>0, <1>1, <2>1, <2>2 DEF Connect, Asked, Found, Fits
  <2> QED  BY <2>3, FitKeepsShape
<1>2. ASSUME NEW c \in Conns, Sever(c) PROVE Shape'
  BY <1>2 DEF Sever, Shape
<1>3. ASSUME NEW c \in Conns, Accept(c) PROVE Shape'
  <2>1. Fits(c, "discard", req[c], sess[c]) \/ Fits(c, "receive", req[c], sess[c])
    BY <1>0, <1>3 DEF Accept, Goto, Asked, Found, Fits
  <2> QED  BY <2>1, FitKeepsShape
<1>4. ASSUME NEW c \in Conns, Discard(c) PROVE Shape'
  <2>1. Fits(c, "free", NoRequest, sess[c])
    BY <1>0, <1>4 DEF Discard, Goto, Asked, Found, Fits
  <2> QED  BY <2>1, FitKeepsShape
<1>5. ASSUME NEW c \in Conns, ReceiveFails(c) PROVE Shape'
  <2>1. PICK id \in {0, req[c].cookie} : req' = [req EXCEPT ![c].cookie = id]
    BY <1>5 DEF ReceiveFails
  <2>2. req[c] \in Request
    BY <1>5 DEF ReceiveFails, Goto, Shape
  <2>3. [req[c] EXCEPT !.cookie = id] \in Request
    BY <2>1, <2>2 DEF Request
  <2>4. Fits(c, "pauseFind", [req[c] EXCEPT !.cookie = id], sess[c])
    BY <1>0, <1>5, <2>1, <2>3 DEF ReceiveFails, Goto, Asked, Found, Fits
  <2> QED  BY <2>4, FitKeepsShape
<1>6. ASSUME NEW c \in Conns, Receive(c) PROVE Shape'
  <2>1. CASE pc[c] = "receive" /\ pc' = [pc EXCEPT ![c] = "check"]
             /\ sess' = [sess EXCEPT ![c] = req[c].cookie] /\ req[c].cookie \in sessions
    <3>1. req[c].cookie \in Ids
      BY <2>1 DEF PlainType
    <3>2. Fits(c, "check", req[c], req[c].cookie)
      BY <1>0, <1>6, <2>1, <3>1 DEF Receive, Asked, Found, Fits
    <3> QED  BY <3>2, FitKeepsShape
  <2>2. CASE pc[c] = "receive" /\ pc' = [pc EXCEPT ![c] = "insert"]
             /\ sess' = [sess EXCEPT ![c] = counter] /\ counter \in Ids
    <3>1. Fits(c, "insert", req[c], counter)
      BY <1>0, <1>6, <2>2 DEF Receive, Asked, Found, Fits
    <3> QED  BY <3>1, FitKeepsShape
  <2> QED  BY <1>6, <2>1, <2>2 DEF Receive, Search, Goto, NextId
<1>7. ASSUME NEW c \in Conns, Insert(c) \/ Admit(c) \/ Refuse(c) \/ Handle(c) \/ Erase(c)
      PROVE  Shape'
  <2>1. PICK to \in {"check", "handle", "erase", "pauseFind"} :
           /\ pc[c] \in {"insert", "check", "handle", "erase"}
           /\ pc' = [pc EXCEPT ![c] = to]
           /\ to \in {"erase", "pauseFind"} => c \notin open'
           /\ UNCHANGED <<req, sess>> /\ open' \subseteq open
    <3>1. CASE Insert(c)  BY <3>1 DEF Insert, Goto
    <3>2. CASE Admit(c)   BY <3>2 DEF Admit, Goto
    <3>3. CASE Refuse(c)  BY <3>3 DEF Refuse, Goto
    <3>4. CASE Handle(c)  BY <3>4 DEF Handle
    <3>5. CASE Erase(c)   BY <1>0, <3>5 DEF Erase, Goto, Asked
    <3> QED  BY <1>7, <3>1, <3>2, <3>3, <3>4, <3>5
  <2>2. Fits(c, to, req[c], sess[c])
    BY <1>0, <2>1 DEF Asked, Found, Fits
  <2> QED  BY <2>2, FitKeepsShape
<1>8. ASSUME NEW c \in Conns, PauseFind(c) \/ PauseInsert(c) PROVE Shape'
  <2>1. CASE Leave(c, pc[c]) /\ open' = open /\ pc[c] \in {"pauseFind", "pauseInsert"}
    <3>1. Fits(c, "free", NoRequest, 0)
      BY <1>0, <2>1 DEF Leave, Goto, Asked, Found, Fits
    <3> QED  BY <3>1, FitKeepsShape
  <2>2. CASE pc[c] = "pauseFind" /\ pc' = [pc EXCEPT ![c] = "pauseInsert"] /\ UNCHANGED <<req, open>>
             /\ sess' = [sess EXCEPT ![c] = counter] /\ counter \in Ids
    <3>1. Fits(c, "pauseInsert", req[c], counter)
      BY <1>0, <2>2 DEF Asked, Found, Fits
    <3> QED  BY <3>1, FitKeepsShape
  <2>3. CASE PauseFind(c)
    BY <2>1, <2>2, <2>3 DEF PauseFind, Search, Leave, Goto, NextId
  <2>4. CASE PauseInsert(c)
    BY <2>1, <2>4 DEF PauseInsert, Leave, Goto
  <2> QED  BY <1>8, <2>3, <2>4
<1>9. CASE Restart
  BY <1>9 DEF Restart, Shape, Asked, Found
<1>10. CASE UNCHANGED vars
  BY <1>10 DEF vars, connVars, Shape
<1> QED
  BY <1>1, <1>2, <1>3, <1>4, <1>5, <1>6, <1>7, <1>8, <1>9, <1>10 DEF Next, Thread

\* The requests of client k a busy server may still hand back to it.
Owing(k) == {c \in open : req[c].client = k /\ pc[c] \in {"backlog", "discard"}}

\* A request is either still to be made or was made once: RETRY_LATER gives
\* back what the connection took.
Accounted == \A k \in Clients : left[k] + Cardinality(Owing(k)) <= Requests[k]

LEMMA OwingFinite == ASSUME PlainType, NEW k PROVE IsFiniteSet(Owing(k))
<1>1. Owing(k) \subseteq Conns
  BY DEF Owing, PlainType
<1> QED  BY <1>1, FS_Subset, ServerApiAssumption

\* Nothing new to give back, and nothing given back.
LEMMA OwingLess ==
    ASSUME PlainType, Accounted, left' = left, \A k \in Clients : Owing(k)' \subseteq Owing(k)
    PROVE  Accounted'
<1> SUFFICES ASSUME NEW k \in Clients
             PROVE  left[k] + Cardinality(Owing(k)') <= Requests[k]
  BY DEF Accounted
<1>1. IsFiniteSet(Owing(k)') /\ Cardinality(Owing(k)') <= Cardinality(Owing(k))
  BY OwingFinite, FS_Subset
<1>2. Cardinality(Owing(k)') \in Nat /\ Cardinality(Owing(k)) \in Nat
  BY <1>1, OwingFinite, FS_CardinalityType
<1>3. left[k] \in Nat /\ Requests[k] \in Nat
  BY ServerApiAssumption DEF PlainType
<1> QED  BY <1>1, <1>2, <1>3 DEF Accounted

LEMMA AccountedStep == PlainType /\ Shape /\ Accounted /\ [Next]_vars => Accounted'
<1> SUFFICES ASSUME PlainType, Shape, Accounted, [Next]_vars PROVE Accounted'
  OBVIOUS
<1>1. ASSUME NEW c \in Conns, NEW k \in Clients, NEW kind \in Kinds, Connect(k, kind, c)
      PROVE  Accounted'
  <2>1. /\ left' = [left EXCEPT ![k] = @ - 1] /\ pc[c] = "free" /\ c \notin open
        /\ pc' = [pc EXCEPT ![c] = "backlog"] /\ open' = open \cup {c}
        /\ req'[c].client = k /\ \A d \in Conns \ {c} : req'[d] = req[d]
    BY <1>1 DEF Connect, PlainType, Shape, Asked
  <2>2. Owing(k)' = Owing(k) \cup {c} /\ c \notin Owing(k)
    BY <2>1 DEF Owing, PlainType
  <2>3. Cardinality(Owing(k)') = Cardinality(Owing(k)) + 1
    BY <2>2, OwingFinite, FS_AddElement
  <2>4. ASSUME NEW l \in Clients, l # k
        PROVE  Owing(l)' = Owing(l) /\ left'[l] = left[l]
    BY <2>1, <2>4 DEF Owing, PlainType
  <2>5. ASSUME NEW l \in Clients
        PROVE  Cardinality(Owing(l)) \in Nat /\ left[l] \in Nat /\ Requests[l] \in Nat
    BY OwingFinite, FS_CardinalityType, ServerApiAssumption DEF PlainType
  <2>6. left'[k] = left[k] - 1
    BY <2>1 DEF PlainType
  <2> QED  BY <2>3, <2>4, <2>5, <2>6 DEF Accounted
<1>2. ASSUME NEW c \in Conns, Sever(c) PROVE Accounted'
  BY <1>2, OwingLess DEF Sever, Owing
<1>3. ASSUME NEW c \in Conns, Accept(c) PROVE Accounted'
  <2>1. UNCHANGED <<left, req, open>> /\ pc[c] = "backlog"
        /\ \A d \in Conns : pc'[d] \in {"backlog", "discard"} => pc[d] \in {"backlog", "discard"}
    BY <1>3 DEF Accept, Goto, PlainType, clientVars
  <2> QED  BY <2>1, OwingLess DEF Owing, PlainType
<1>4. ASSUME NEW c \in Conns, Discard(c) PROVE Accounted'
  <2>1. /\ pc[c] = "discard" /\ pc' = [pc EXCEPT ![c] = "free"] /\ open' = open \ {c}
        /\ \A d \in Conns \ {c} : req'[d] = req[d]
    BY <1>4 DEF Discard, Goto, PlainType
  <2>2. CASE c \notin open
    BY <1>4, <2>1, <2>2, OwingLess DEF Discard, Owing, PlainType
  <2>3. CASE c \in open
    <3>1. PICK k \in Clients : k = req[c].client
      BY <2>1 DEF Shape, Request
    <3>2. left' = [left EXCEPT ![k] = @ + 1]
      BY <1>4, <2>3, <3>1 DEF Discard
    <3>3. Owing(k)' = Owing(k) \ {c} /\ c \in Owing(k)
      BY <2>1, <2>3, <3>1 DEF Owing, PlainType
    <3>4. Cardinality(Owing(k)') = Cardinality(Owing(k)) - 1
      BY <3>3, OwingFinite, FS_RemoveElement
    <3>5. ASSUME NEW l \in Clients, l # k
          PROVE  Owing(l)' = Owing(l) /\ left'[l] = left[l]
      BY <2>1, <3>1, <3>2, <3>5 DEF Owing, PlainType
    <3>6. ASSUME NEW l \in Clients
          PROVE  Cardinality(Owing(l)) \in Nat /\ left[l] \in Nat /\ Requests[l] \in Nat
      BY OwingFinite, FS_CardinalityType, ServerApiAssumption DEF PlainType
    <3>7. left'[k] = left[k] + 1
      BY <3>1, <3>2 DEF PlainType
    <3> QED  BY <3>1, <3>4, <3>5, <3>6, <3>7 DEF Accounted
  <2> QED  BY <2>2, <2>3
<1>5. ASSUME NEW c \in Conns, Thread(c) PROVE Accounted'
  <2>1. /\ pc[c] \notin {"backlog", "discard"} /\ left' = left /\ open' \subseteq open
        /\ \A d \in Conns \ {c} : pc'[d] = pc[d] /\ req'[d] = req[d]
        /\ pc'[c] \notin {"backlog", "discard"}
    <3>1. CASE ReceiveFails(c)  BY <3>1 DEF ReceiveFails, Goto, PlainType
    <3>2. CASE Receive(c)       BY <3>2 DEF Receive, Search, Goto, PlainType, clientVars
    <3>3. CASE Insert(c)        BY <3>3 DEF Insert, Goto, PlainType, clientVars
    <3>4. CASE Admit(c)         BY <3>4 DEF Admit, Goto, PlainType, clientVars
    <3>5. CASE Refuse(c)        BY <3>5 DEF Refuse, Goto, PlainType
    <3>6. CASE Handle(c)        BY <3>6 DEF Handle, PlainType
    <3>7. CASE Erase(c)         BY <3>7 DEF Erase, Goto, PlainType, clientVars
    <3>8. CASE PauseFind(c)     BY <3>8 DEF PauseFind, Search, Leave, Goto, PlainType, clientVars
    <3>9. CASE PauseInsert(c)   BY <3>9 DEF PauseInsert, Leave, Goto, PlainType, clientVars
    <3> QED  BY <1>5, <3>1, <3>2, <3>3, <3>4, <3>5, <3>6, <3>7, <3>8, <3>9 DEF Thread
  <2> QED  BY <2>1, OwingLess DEF Owing, PlainType
<1>6. CASE Restart
  BY <1>6, OwingLess DEF Restart, Owing
<1>7. CASE UNCHANGED vars
  BY <1>7, OwingLess DEF vars, clientVars, connVars, Owing
<1> QED  BY <1>1, <1>2, <1>3, <1>4, <1>5, <1>6, <1>7 DEF Next

TypeInv == PlainType /\ Shape /\ Accounted

LEMMA TypeInvInit == Init => TypeInv
<1> SUFFICES ASSUME Init PROVE TypeInv
  OBVIOUS
<1>1. PlainType
  BY ServerApiAssumption DEF Init, PlainType, Ids
<1>2. Shape
  BY DEF Init, Shape, Found
<1>3. ASSUME NEW k \in Clients PROVE left[k] + Cardinality(Owing(k)) <= Requests[k]
  <2>1. Owing(k) = {}
    BY DEF Init, Owing
  <2> QED  BY <2>1, FS_EmptySet, ServerApiAssumption DEF Init
<1> QED  BY <1>1, <1>2, <1>3 DEF TypeInv, Accounted

THEOREM TypeInvariant == Spec => []TypeInv
<1>1. TypeInv /\ [Next]_vars => TypeInv'
  BY PlainTypeStep, ShapeStep, AccountedStep DEF TypeInv
<1> QED  BY TypeInvInit, <1>1, PTL DEF Spec

\* The values the variables take, whatever happens: no request is made more
\* often than it is due, however often a busy server hands it back.
THEOREM TypeCorrect == Spec => []TypeOK
<1>1. TypeInv /\ PoolInv => TypeOK
  <2> SUFFICES ASSUME TypeInv, PoolInv PROVE TypeOK
    OBVIOUS
  <2>1. active \in Nat
    BY ServedFinite, FS_CardinalityType DEF PoolInv, PoolExact
  <2>2. ASSUME NEW k \in Clients PROVE left[k] <= Requests[k]
    BY OwingFinite, FS_CardinalityType, ServerApiAssumption DEF TypeInv, Accounted, PlainType
  <2> QED  BY <2>1, <2>2 DEF TypeInv, PlainType, TypeOK
<1>2. PoolInv /\ [Next]_vars => PoolInv'
  BY PoolInvStep
<1> QED  BY <1>1, <1>2, PoolInvInit, TypeInvariant, PTL DEF Spec

-----------------------------------------------------------------------------
(***************************************************************************)
(* The dialogue of a client: which of its requests are under way together. *)
(***************************************************************************)

\* Only pushes of a client wait for their answers together.
OnlyPushesTogether == \A c, d \in open :
    req[c].client = req[d].client /\ c # d => req[c].kind = "PUSH" /\ req[d].kind = "PUSH"

\* A request that is waited for fits the stage its client is in, and the
\* client's own thread sent the cookie it still has.
InStage == \A c \in open :
    /\ req[c].kind = "LOGIN" => stage[req[c].client] = "new"
    /\ req[c].kind \in {"PROBE", "PUSH"} => stage[req[c].client] = "in"
    /\ stage[req[c].client] # "done"
    /\ req[c].kind # "PUSH" => req[c].cookie = cookie[req[c].client]

\* An END nobody waits for has ended its client.
EndsClient == \A c \in Conns :
    pc[c] # "free" /\ c \notin open /\ req[c].kind = "END" => stage[req[c].client] = "done"

Dialogue == OnlyPushesTogether /\ InStage /\ EndsClient

\* Without a broken connection the server handles nothing nobody waits for.
Awaited == "break" \notin mishaps => \A c \in Conns : pc[c] \in Asked => c \in open

DialogueInv == Dialogue /\ Awaited

\* The clients and the connections in use stay as they are.
Unheard == /\ UNCHANGED <<stage, cookie, open, req>> /\ mishaps \subseteq mishaps'
           /\ \A c \in Conns : /\ pc'[c] = "free" <=> pc[c] = "free"
                               /\ pc'[c] \in Asked <=> pc[c] \in Asked

LEMMA UnheardKeeps == ASSUME DialogueInv, Unheard PROVE DialogueInv'
  BY DEF DialogueInv, Dialogue, OnlyPushesTogether, InStage, EndsClient, Awaited, Unheard

\* Connection c is given up: an END it carried ends its client.
GivenUp(c) ==
    /\ open' = open \ {c} /\ WithoutAnswer({c})
    /\ \A d \in Conns : /\ req'[d].client = req[d].client /\ req'[d].kind = req[d].kind
                        /\ d # c => req'[d] = req[d] /\ pc'[d] = pc[d]
                        /\ pc'[d] = "free" <=> pc[d] = "free"
    /\ \A k \in Clients : cookie'[k] = cookie[k]
          \/ (c \in open /\ req[c].client = k /\ req[c].kind # "PUSH")
    /\ mishaps \subseteq mishaps'
    /\ "break" \in mishaps' \/ pc'[c] \notin Asked

\* What giving up c does to the stage of a client.
LEMMA StageGivenUp ==
    ASSUME PlainType, Shape, NEW c \in Conns, GivenUp(c), NEW k \in Clients
    PROVE  stage'[k] = IF c \in open /\ req[c].client = k /\ req[c].kind = "END"
                       THEN "done" ELSE stage[k]
  BY DEF GivenUp, WithoutAnswer

LEMMA GivenUpKeeps ==
    ASSUME PlainType, Shape, DialogueInv, NEW c \in Conns, GivenUp(c)
    PROVE  DialogueInv'
<1>1. \A d \in open : req[d].client \in Clients /\ pc[d] # "free"
  BY DEF Shape, Asked, PlainType, Request
<1>2. OnlyPushesTogether'
  BY DEF GivenUp, DialogueInv, Dialogue, OnlyPushesTogether, PlainType
<1>3. InStage'
  <2> SUFFICES ASSUME NEW d \in open'
               PROVE  /\ req'[d].kind = "LOGIN" => stage'[req'[d].client] = "new"
                      /\ req'[d].kind \in {"PROBE", "PUSH"} => stage'[req'[d].client] = "in"
                      /\ stage'[req'[d].client] # "done"
                      /\ req'[d].kind # "PUSH" => req'[d].cookie = cookie'[req'[d].client]
    BY DEF InStage
  <2>1. d \in open /\ d # c /\ d \in Conns /\ req'[d] = req[d] /\ req[d].client \in Clients
    BY <1>1 DEF GivenUp, PlainType
  <2>2. c \in open /\ req[c].client = req[d].client => req[c].kind = "PUSH" /\ req[d].kind = "PUSH"
    BY <2>1 DEF DialogueInv, Dialogue, OnlyPushesTogether
  <2>3. stage'[req[d].client] = stage[req[d].client]
    BY <2>1, <2>2, StageGivenUp
  <2>4. req[d].kind # "PUSH" => cookie'[req[d].client] = cookie[req[d].client]
    BY <2>1, <2>2 DEF GivenUp
  <2> QED  BY <2>1, <2>3, <2>4 DEF DialogueInv, Dialogue, InStage
<1>4. EndsClient'
  <2> SUFFICES ASSUME NEW d \in Conns, pc'[d] # "free", d \notin open', req'[d].kind = "END"
               PROVE  stage'[req'[d].client] = "done"
    BY DEF EndsClient
  <2>1. pc[d] # "free" /\ req[d].kind = "END" /\ req'[d].client = req[d].client
    BY DEF GivenUp
  <2>2. req[d].client \in Clients
    BY <2>1 DEF Shape, Request
  <2>3. CASE d \in open
    BY <2>1, <2>2, <2>3, StageGivenUp DEF GivenUp
  <2>4. CASE d \notin open
    BY <2>1, <2>2, <2>4, StageGivenUp DEF DialogueInv, Dialogue, EndsClient
  <2> QED  BY <2>3, <2>4
<1>5. Awaited'
  BY DEF GivenUp, DialogueInv, Awaited
<1> QED  BY <1>2, <1>3, <1>4, <1>5 DEF DialogueInv, Dialogue

\* Connection c is free again, and nobody waits at it.
Freed(c) == /\ UNCHANGED <<stage, cookie>> /\ mishaps \subseteq mishaps' /\ open' = open \ {c}
            /\ pc' = [pc EXCEPT ![c] = "free"] /\ req' = [req EXCEPT ![c] = NoRequest]

LEMMA FreedKeeps ==
    ASSUME PlainType, DialogueInv, NEW c \in Conns, Freed(c)
    PROVE  DialogueInv'
<1>1. \A d \in Conns \ {c} : pc'[d] = pc[d] /\ req'[d] = req[d]
  BY DEF Freed, PlainType
<1>2. pc'[c] = "free"
  BY DEF Freed, PlainType
<1> QED  BY <1>1, <1>2 DEF Freed, DialogueInv, Dialogue, OnlyPushesTogether, InStage, EndsClient,
                           Awaited, Asked, PlainType

\* The client's own dialogue: what it may ask for.
LEMMA ConnectKeeps ==
    ASSUME PlainType, Shape, DialogueInv, NEW c \in Conns, NEW k \in Clients, NEW kind \in Kinds,
           Connect(k, kind, c)
    PROVE  DialogueInv'
<1>1. /\ MayAsk(k, kind) /\ pc[c] = "free" /\ c \notin open /\ open' = open \cup {c}
      /\ UNCHANGED <<stage, cookie, mishaps>>
      /\ req'[c].client = k /\ req'[c].kind = kind /\ req'[c].cookie = cookie[k]
      /\ \A d \in Conns \ {c} : req'[d] = req[d] /\ pc'[d] = pc[d]
  BY DEF Connect, PlainType, Shape, Asked
<1>2. /\ kind = "LOGIN" => stage[k] = "new" /\ Pending(k) = {}
      /\ kind = "PROBE" => stage[k] = "in" /\ Pending(k) = {}
      /\ kind = "PUSH" => stage[k] = "in" /\ \A d \in Pending(k) : req[d].kind = "PUSH"
      /\ kind = "END" => stage[k] # "done" /\ Pending(k) = {}
  BY <1>1 DEF MayAsk, Kinds
<1>3. OnlyPushesTogether'
  <2>1. ASSUME NEW d \in open, req[d].client = k
        PROVE  kind = "PUSH" /\ req[d].kind = "PUSH"
    BY <1>2, <2>1 DEF Pending, Kinds
  <2> QED  BY <1>1, <2>1 DEF DialogueInv, Dialogue, OnlyPushesTogether, PlainType
<1>4. InStage'
  BY <1>1, <1>2 DEF DialogueInv, Dialogue, InStage, PlainType, Kinds
<1>5. EndsClient'
  BY <1>1 DEF DialogueInv, Dialogue, EndsClient
<1>6. Awaited'
  BY <1>1 DEF DialogueInv, Awaited
<1> QED  BY <1>3, <1>4, <1>5, <1>6 DEF DialogueInv, Dialogue

LEMMA HandleKeeps ==
    ASSUME PlainType, Shape, DialogueInv, NEW c \in Conns, Handle(c)
    PROVE  DialogueInv'
<1>1. /\ pc[c] = "handle" /\ pc'[c] \in {"erase", "pauseFind"} /\ open' = open \ {c}
      /\ UNCHANGED <<req, mishaps>> /\ \A d \in Conns \ {c} : pc'[d] = pc[d]
  BY DEF Handle, PlainType
<1>2. req[c].client \in Clients
  BY <1>1 DEF Shape, Request
<1>3. ASSUME NEW l \in Clients, l # req[c].client \/ c \notin open
      PROVE  stage'[l] = stage[l] /\ cookie'[l] = cookie[l]
  BY <1>3 DEF Handle, PlainType
<1>4. c \in open => /\ req[c].kind = "END" => stage'[req[c].client] = "done"
                    /\ req[c].kind = "PUSH" => stage' = stage /\ cookie' = cookie
  BY <1>2 DEF Handle, PlainType
<1>5. ASSUME NEW d \in open'
      PROVE  d \in open /\ req[d].client \in Clients
             /\ stage'[req[d].client] = stage[req[d].client]
             /\ cookie'[req[d].client] = cookie[req[d].client]
  <2>1. d \in open /\ d # c /\ d \in Conns
    BY <1>1, <1>5 DEF PlainType
  <2>2. req[d].client \in Clients
    BY <2>1 DEF Shape, Asked, Request
  <2>3. c \in open /\ req[c].client = req[d].client => req[c].kind = "PUSH"
    BY <2>1 DEF DialogueInv, Dialogue, OnlyPushesTogether
  <2> QED  BY <1>3, <1>4, <2>1, <2>2, <2>3
<1>6. OnlyPushesTogether' /\ InStage'
  BY <1>1, <1>5 DEF DialogueInv, Dialogue, OnlyPushesTogether, InStage
<1>7. EndsClient'
  <2> SUFFICES ASSUME NEW d \in Conns, pc'[d] # "free", d \notin open', req[d].kind = "END"
               PROVE  stage'[req[d].client] = "done"
    BY <1>1 DEF EndsClient
  <2>1. pc[d] # "free" /\ req[d].client \in Clients
    BY <1>1 DEF Shape, Request
  <2>2. CASE d \in open
    BY <1>1, <1>4, <2>2
  <2>3. CASE d \notin open
    <3>1. stage[req[d].client] = "done"
      BY <2>1, <2>3 DEF DialogueInv, Dialogue, EndsClient
    <3>2. c \in open => stage[req[c].client] # "done"
      BY DEF DialogueInv, Dialogue, InStage
    <3> QED  BY <1>3, <2>1, <3>1, <3>2
  <2> QED  BY <2>2, <2>3
<1>8. Awaited'
  BY <1>1 DEF DialogueInv, Awaited, Asked
<1> QED  BY <1>6, <1>7, <1>8 DEF DialogueInv, Dialogue

LEMMA DialogueStep == PlainType /\ Shape /\ DialogueInv /\ [Next]_vars => DialogueInv'
<1> SUFFICES ASSUME PlainType, Shape, DialogueInv, [Next]_vars PROVE DialogueInv'
  OBVIOUS
<1>1. ASSUME NEW c \in Conns, NEW k \in Clients, NEW kind \in Kinds, Connect(k, kind, c)
      PROVE  DialogueInv'
  BY <1>1, ConnectKeeps
<1>2. ASSUME NEW c \in Conns, Sever(c) PROVE DialogueInv'
  <2>1. GivenUp(c)
    BY <1>2 DEF Sever, Mishap, GivenUp
  <2> QED  BY <2>1, GivenUpKeeps
<1>3. ASSUME NEW c \in Conns, Accept(c) PROVE DialogueInv'
  <2>1. Unheard
    BY <1>3 DEF Accept, Goto, PlainType, clientVars, table, Unheard, Asked
  <2> QED  BY <2>1, UnheardKeeps
<1>4. ASSUME NEW c \in Conns, Discard(c) PROVE DialogueInv'
  <2>1. Freed(c)
    BY <1>4 DEF Discard, Goto, Freed
  <2> QED  BY <2>1, FreedKeeps
<1>5. ASSUME NEW c \in Conns, Thread(c) PROVE DialogueInv'
  <2>1. CASE ReceiveFails(c)
    <3>1. PICK id \in {0, req[c].cookie} : req' = [req EXCEPT ![c].cookie = id]
      BY <2>1 DEF ReceiveFails
    <3>2. req[c] \in Request
      BY <2>1 DEF ReceiveFails, Goto, Shape
    <3>3. \A d \in Conns : /\ req'[d].client = req[d].client /\ req'[d].kind = req[d].kind
                           /\ d # c => req'[d] = req[d]
      BY <3>1, <3>2 DEF PlainType, Request
    <3>4. GivenUp(c)
      BY <2>1, <3>3 DEF ReceiveFails, Goto, Mishap, PlainType, GivenUp, Asked
    <3> QED  BY <3>4, GivenUpKeeps
  <2>2. CASE Receive(c)
    <3>1. Unheard
      BY <2>2 DEF Receive, Search, Goto, Race, Mishap, PlainType, clientVars, Unheard, Asked
    <3> QED  BY <3>1, UnheardKeeps
  <2>3. CASE Insert(c)
    <3>1. Unheard
      BY <2>3 DEF Insert, InsertSession, Goto, Race, Mishap, PlainType, clientVars, Unheard, Asked
    <3> QED  BY <3>1, UnheardKeeps
  <2>4. CASE Admit(c)
    <3>1. Unheard
      BY <2>4 DEF Admit, Goto, PlainType, clientVars, table, Unheard, Asked
    <3> QED  BY <3>1, UnheardKeeps
  <2>5. CASE Refuse(c)
    <3>1. GivenUp(c)
      BY <2>5 DEF Refuse, Goto, PlainType, GivenUp, Asked
    <3> QED  BY <3>1, GivenUpKeeps
  <2>6. CASE Handle(c)
    BY <2>6, HandleKeeps
  <2>7. CASE Erase(c)
    <3>1. Unheard
      BY <2>7 DEF Erase, Race, Mishap, Goto, PlainType, clientVars, Unheard, Asked
    <3> QED  BY <3>1, UnheardKeeps
  <2>8. CASE PauseFind(c)
    <3>0. c \notin open
      BY <2>8 DEF PauseFind, Search, Leave, Goto, Shape, Asked
    <3>1. CASE Leave(c, "pauseFind")
      <4>1. Freed(c)
        BY <2>8, <3>0, <3>1 DEF PauseFind, Search, Race, Mishap, Leave, Goto, clientVars, Freed
      <4> QED  BY <4>1, FreedKeeps
    <3>2. CASE Goto(c, "pauseFind", "pauseInsert") /\ req' = req
      <4>1. Unheard
        BY <2>8, <3>2 DEF PauseFind, Search, Goto, Race, Mishap, PlainType, clientVars, Unheard, Asked
      <4> QED  BY <4>1, UnheardKeeps
    <3> QED  BY <2>8, <3>1, <3>2 DEF PauseFind, Search
  <2>9. CASE PauseInsert(c)
    <3>0. c \notin open
      BY <2>9 DEF PauseInsert, Leave, Goto, Shape, Asked
    <3>1. Freed(c)
      BY <2>9, <3>0 DEF PauseInsert, InsertSession, Race, Mishap, Leave, Goto, clientVars, Freed
    <3> QED  BY <3>1, FreedKeeps
  <2> QED  BY <1>5, <2>1, <2>2, <2>3, <2>4, <2>5, <2>6, <2>7, <2>8, <2>9 DEF Thread
<1>6. CASE Restart
  BY <1>6 DEF Restart, DialogueInv, Dialogue, OnlyPushesTogether, InStage, EndsClient,
              Awaited, Asked
<1>7. CASE UNCHANGED vars
  BY <1>7 DEF vars, clientVars, connVars, DialogueInv, Dialogue, OnlyPushesTogether, InStage,
              EndsClient, Awaited
<1> QED  BY <1>1, <1>2, <1>3, <1>4, <1>5, <1>6, <1>7 DEF Next

-----------------------------------------------------------------------------
(***************************************************************************)
(* The ids: who knows which, and whose name a Session object bears.        *)
(***************************************************************************)

\* Client k, or a connection that carries its request, knows the id i.
Holds(k, i) == \/ cookie[k] = i
               \/ \E c \in Conns : req[c].client = k /\ (req[c].cookie = i \/ sess[c] = i)

\* An id is known to one client at most, no other user has logged in with it,
\* and no id is known before it is given out.
Owned == /\ \A k \in Clients, i \in Ids : Holds(k, i) => i < counter /\ user[i] \in {None, k}
         /\ \A k, l \in Clients, i \in Ids : Holds(k, i) /\ Holds(l, i) => k = l
         /\ \A i \in logged : user[i] # None

OwnedInv == "restart" \notin mishaps => Owned /\ ServedAsSelf

\* Connection c passes on what it or its client knew.
PassesOn(c) ==
    \/ /\ req'[c].client = req[c].client /\ req'[c].cookie \in {0, req[c].cookie}
       /\ sess'[c] \in {0, sess[c], req[c].cookie}
    \/ req'[c].cookie = cookie[req'[c].client] /\ sess'[c] = 0
    \/ req'[c].client \notin Clients

\* A client keeps its cookie, loses it, or takes that of its session.
TakesOn(k) == \/ cookie'[k] \in {0, cookie[k]}
              \/ \E c \in Conns : req[c].client = k /\ cookie'[k] = sess[c]

LEMMA NothingLearnt ==
    ASSUME \A c \in Conns : PassesOn(c), \A k \in Clients : TakesOn(k)
    PROVE  \A k \in Clients, i \in Ids : Holds(k, i)' => Holds(k, i)
<1>1. 0 \notin Ids
  BY ServerApiAssumption DEF Ids
<1> QED  BY <1>1 DEF Holds, PassesOn, TakesOn

\* A step that teaches nobody an id and leaves the table's users alone keeps
\* the ids in one hand; a request gets to its handler by way of Admit.
LEMMA NothingLearntKeeps ==
    ASSUME PlainType, Shape, OwnedInv,
           \A k \in Clients, i \in Ids : Holds(k, i)' => Holds(k, i),
           UNCHANGED <<user, logged, counter>>, mishaps \subseteq mishaps',
           \A c \in Conns : pc'[c] = "handle" =>
              /\ sess'[c] = sess[c] /\ req'[c] = req[c]
              /\ \/ pc[c] = "handle"
                 \/ pc[c] = "check" /\ (req[c].kind = "LOGIN" \/ sess[c] \in logged)
    PROVE  OwnedInv'
<1> SUFFICES ASSUME "restart" \notin mishaps' PROVE Owned' /\ ServedAsSelf'
  BY DEF OwnedInv
<1>1. Owned /\ ServedAsSelf
  BY DEF OwnedInv
<1>2. Ids' = Ids
  BY DEF Ids
<1>3. Owned'
  BY <1>1 DEF Owned
<1>4. ASSUME NEW c \in Conns, pc'[c] = "handle", req'[c].kind # "LOGIN"
      PROVE  user'[sess'[c]] = req'[c].client
  <2>1. CASE pc[c] = "handle"
    BY <1>1, <1>4, <2>1 DEF ServedAsSelf
  <2>2. CASE pc[c] = "check" /\ sess[c] \in logged
    <3>1. sess[c] \in Ids /\ req[c].client \in Clients
      BY <2>2 DEF Shape, Found, Request
    <3>2. Holds(req[c].client, sess[c])
      BY DEF Holds
    <3>3. user[sess[c]] = req[c].client
      BY <1>1, <2>2, <3>1, <3>2 DEF Owned
    <3> QED  BY <1>4, <3>3
  <2> QED  BY <1>4, <2>1, <2>2
<1> QED  BY <1>3, <1>4 DEF ServedAsSelf

\* A new Session gets an id that nobody knows but the thread that made it.
LEMMA NewIdKeeps ==
    ASSUME PlainType, Shape, OwnedInv, NEW c \in Conns,
           pc[c] \in {"receive", "pauseFind"},
           pc' = [pc EXCEPT ![c] = IF @ = "receive" THEN "insert" ELSE "pauseInsert"],
           UNCHANGED <<cookie, req>>, mishaps \subseteq mishaps',
           counter \in Ids, counter' = counter + 1,
           sess' = [sess EXCEPT ![c] = counter],
           user' = [user EXCEPT ![counter] = None], logged' = logged \ {counter}
    PROVE  OwnedInv'
<1> SUFFICES ASSUME "restart" \notin mishaps' PROVE Owned' /\ ServedAsSelf'
  BY DEF OwnedInv
<1>1. Owned /\ ServedAsSelf
  BY DEF OwnedInv
<1>2. req[c].client \in Clients
  BY DEF Shape, Request
<1>3. \A i \in Ids : i \in Nat
  BY DEF Ids
<1>4. ASSUME NEW k \in Clients, NEW i \in Ids, Holds(k, i)'
      PROVE  Holds(k, i) \/ (i = counter /\ k = req[c].client)
  BY <1>4 DEF Holds, PlainType
<1>5. ASSUME NEW k \in Clients, NEW i \in Ids, Holds(k, i)
      PROVE  i # counter /\ i < counter'
  BY <1>1, <1>3, <1>5 DEF Owned
<1>6. \A i \in Ids : user'[i] = IF i = counter THEN None ELSE user[i]
  BY DEF PlainType
<1>7. counter < counter'
  BY <1>3
<1>8. Owned'
  <2>1. ASSUME NEW k \in Clients, NEW i \in Ids, Holds(k, i)'
        PROVE  i < counter' /\ user'[i] \in {None, k}
    BY <1>1, <1>4, <1>5, <1>6, <1>7, <2>1 DEF Owned
  <2>2. ASSUME NEW k \in Clients, NEW l \in Clients, NEW i \in Ids, Holds(k, i)', Holds(l, i)'
        PROVE  k = l
    BY <1>1, <1>4, <1>5, <2>2 DEF Owned
  <2>3. \A i \in logged' : user'[i] # None
    BY <1>1, <1>6 DEF Owned, PlainType
  <2> QED  BY <2>1, <2>2, <2>3 DEF Owned, Ids
<1>9. ASSUME NEW d \in Conns, pc'[d] = "handle", req[d].kind # "LOGIN"
      PROVE  user'[sess'[d]] = req[d].client
  <2>1. d # c /\ pc[d] = "handle" /\ sess'[d] = sess[d]
    BY <1>9 DEF PlainType
  <2>2. sess[d] \in Ids /\ req[d].client \in Clients
    BY <2>1 DEF Shape, Found, Request
  <2>3. Holds(req[d].client, sess[d])
    BY DEF Holds
  <2>4. sess[d] # counter
    BY <1>5, <2>2, <2>3
  <2>5. user[sess[d]] = req[d].client
    BY <1>1, <1>9, <2>1 DEF ServedAsSelf
  <2> QED  BY <1>6, <2>1, <2>2, <2>4, <2>5
<1> QED  BY <1>8, <1>9 DEF ServedAsSelf

\* A login gives the session the name of the one client that knows its id.
LEMMA HandleKeepsOwned ==
    ASSUME PlainType, Shape, OwnedInv, NEW c \in Conns, Handle(c)
    PROVE  OwnedInv'
<1> SUFFICES ASSUME "restart" \notin mishaps' PROVE Owned' /\ ServedAsSelf'
  BY DEF OwnedInv
<1>1. Owned /\ ServedAsSelf /\ "restart" \notin mishaps
  BY DEF OwnedInv, Handle
<1>2. sess[c] \in Ids /\ req[c].client \in Clients
  BY DEF Handle, Shape, Found, Request
<1>3. UNCHANGED <<req, sess, counter>> /\ \A d \in Conns : pc'[d] = "handle" => pc[d] = "handle"
  BY DEF Handle, PlainType
<1>4. \A k \in Clients : TakesOn(k)
  BY DEF Handle, TakesOn, PlainType
<1>5. \A k \in Clients, i \in Ids : Holds(k, i)' => Holds(k, i)
  BY <1>3, <1>4, NothingLearnt DEF PassesOn
<1>6. ASSUME NEW k \in Clients, Holds(k, sess[c]) PROVE k = req[c].client
  BY <1>1, <1>2, <1>6 DEF Owned, Holds
<1>7. \/ user' = user
      \/ user' = [user EXCEPT ![sess[c]] = req[c].client]
  BY DEF Handle, Login, PlainType
<1>8. \A i \in Ids : user'[i] = user[i] \/ (i = sess[c] /\ user'[i] = req[c].client)
  BY <1>7 DEF PlainType
<1>9. None \notin Clients
  BY ServerApiAssumption
<1>10. \A i \in logged' : user'[i] # None
  <2>1. CASE req[c].kind = "LOGIN" /\ req[c].good
    <3>1. logged' = logged \cup {sess[c]} /\ user'[sess[c]] = req[c].client
      BY <1>2, <2>1 DEF Handle, Login, PlainType
    <3> QED  BY <1>1, <1>2, <1>8, <1>9, <3>1 DEF Owned, PlainType
  <2>2. CASE ~(req[c].kind = "LOGIN" /\ req[c].good)
    <3>1. logged' \subseteq logged
      BY <2>2 DEF Handle, Login
    <3> QED  BY <1>1, <1>2, <1>8, <1>9, <3>1 DEF Owned, PlainType
  <2> QED  BY <2>1, <2>2
<1>11. Owned'
  <2>1. ASSUME NEW k \in Clients, NEW i \in Ids, Holds(k, i)'
        PROVE  i < counter' /\ user'[i] \in {None, k}
    BY <1>1, <1>3, <1>5, <1>6, <1>8, <2>1 DEF Owned
  <2>2. ASSUME NEW k \in Clients, NEW l \in Clients, NEW i \in Ids, Holds(k, i)', Holds(l, i)'
        PROVE  k = l
    BY <1>1, <1>5, <2>2 DEF Owned
  <2> QED  BY <1>10, <2>1, <2>2 DEF Owned, Ids
<1>12. ASSUME NEW d \in Conns, pc'[d] = "handle", req[d].kind # "LOGIN"
       PROVE  user'[sess[d]] = req[d].client
  <2>1. user[sess[d]] = req[d].client /\ sess[d] \in Ids /\ req[d].client \in Clients
    <3>1. pc[d] = "handle"
      BY <1>3, <1>12
    <3>2. user[sess[d]] = req[d].client
      BY <1>1, <1>12, <3>1 DEF ServedAsSelf
    <3>3. sess[d] \in Ids /\ req[d] \in Request
      BY <3>1 DEF Shape, Found
    <3> QED  BY <3>2, <3>3 DEF Request
  <2>2. sess[d] = sess[c] => req[d].client = req[c].client
    BY <1>6, <2>1 DEF Holds
  <2> QED  BY <1>8, <2>1, <2>2
<1> QED  BY <1>3, <1>11, <1>12 DEF ServedAsSelf

LEMMA OwnedStep == PlainType /\ Shape /\ OwnedInv /\ [Next]_vars => OwnedInv'
<1> SUFFICES ASSUME PlainType, Shape, OwnedInv, [Next]_vars PROVE OwnedInv'
  OBVIOUS
<1>1. ASSUME NEW c \in Conns, NEW k \in Clients, NEW kind \in Kinds, Connect(k, kind, c)
      PROVE  OwnedInv'
  <2>1. /\ pc[c] = "free" /\ pc'[c] = "backlog" /\ sess'[c] = 0 /\ UNCHANGED <<cookie, table, mishaps>>
        /\ req'[c].client = k /\ req'[c].cookie = cookie[k]
        /\ \A d \in Conns \ {c} : pc'[d] = pc[d] /\ req'[d] = req[d] /\ sess'[d] = sess[d]
    BY <1>1 DEF Connect, PlainType, Shape
  <2>2. \A l \in Clients, i \in Ids : Holds(l, i)' => Holds(l, i)
    BY <2>1, NothingLearnt DEF PassesOn, TakesOn
  <2> QED  BY <2>1, <2>2, NothingLearntKeeps DEF table
<1>2. ASSUME NEW c \in Conns, Sever(c) \/ Accept(c) \/ Discard(c) PROVE OwnedInv'
  <2>1. /\ UNCHANGED <<cookie, sess, table>> /\ mishaps \subseteq mishaps'
        /\ \A d \in Conns : pc'[d] = "handle" => (pc[d] = "handle" /\ d # c) \/ UNCHANGED <<pc, req>>
        /\ \A d \in Conns : req'[d] = req[d] \/ (d = c /\ req'[d].client \notin Clients)
    BY <1>2, ServerApiAssumption DEF Sever, Accept, Discard, Goto, Mishap, PlainType, clientVars, NoRequest
  <2>2. \A l \in Clients, i \in Ids : Holds(l, i)' => Holds(l, i)
    BY <2>1, NothingLearnt DEF PassesOn, TakesOn
  <2> QED  BY <2>1, <2>2, NothingLearntKeeps DEF table
<1>3. ASSUME NEW c \in Conns, Thread(c) PROVE OwnedInv'
  <2>1. CASE ReceiveFails(c)
    <3>1. PICK id \in {0, req[c].cookie} : req' = [req EXCEPT ![c].cookie = id]
      BY <2>1 DEF ReceiveFails
    <3>2. req[c] \in Request
      BY <2>1 DEF ReceiveFails, Goto, Shape
    <3>3. \A d \in Conns : /\ req'[d].client = req[d].client /\ req'[d].cookie \in {0, req[d].cookie}
                           /\ d # c => req'[d] = req[d]
      BY <3>1, <3>2 DEF PlainType, Request
    <3>4. UNCHANGED <<cookie, sess, table>> /\ mishaps \subseteq mishaps'
          /\ \A d \in Conns : pc'[d] = "handle" => pc[d] = "handle" /\ d # c
      BY <2>1 DEF ReceiveFails, Goto, Mishap, PlainType
    <3>5. \A l \in Clients, i \in Ids : Holds(l, i)' => Holds(l, i)
      BY <3>3, <3>4, NothingLearnt DEF PassesOn, TakesOn
    <3> QED  BY <3>3, <3>4, <3>5, NothingLearntKeeps DEF table
  <2>2. CASE Receive(c)
    <3>0. mishaps \subseteq mishaps'
      BY <2>2 DEF Receive, Search, Race, Mishap
    <3>1. CASE /\ pc[c] = "receive" /\ pc' = [pc EXCEPT ![c] = "check"]
               /\ sess' = [sess EXCEPT ![c] = req[c].cookie]
               /\ UNCHANGED <<user, logged, counter>>
      <4>1. UNCHANGED <<cookie, req>>
        BY <2>2 DEF Receive, clientVars
      <4>2. \A d \in Conns : sess'[d] \in {sess[d], req[d].cookie} /\ (d # c => sess'[d] = sess[d])
        BY <3>1 DEF PlainType
      <4>3. \A l \in Clients, i \in Ids : Holds(l, i)' => Holds(l, i)
        BY <4>1, <4>2, NothingLearnt DEF PassesOn, TakesOn
      <4>4. \A d \in Conns : pc'[d] = "handle" => pc[d] = "handle" /\ d # c
        BY <3>1 DEF PlainType
      <4> QED  BY <3>0, <3>1, <4>1, <4>2, <4>3, <4>4, NothingLearntKeeps
    <3>2. CASE /\ pc[c] = "receive" /\ pc' = [pc EXCEPT ![c] = "insert"]
               /\ counter \in Ids /\ counter' = counter + 1
               /\ sess' = [sess EXCEPT ![c] = counter]
               /\ user' = [user EXCEPT ![counter] = None] /\ logged' = logged \ {counter}
      BY <2>2, <3>0, <3>2, NewIdKeeps DEF Receive, clientVars
    <3> QED  BY <2>2, <3>1, <3>2 DEF Receive, Search, NextId, Goto
  <2>3. CASE Insert(c) \/ Admit(c) \/ Refuse(c) \/ Erase(c)
    <3>1. UNCHANGED <<req, sess, user, logged, counter>> /\ mishaps \subseteq mishaps'
      BY <2>3 DEF Insert, InsertSession, Race, Mishap, Admit, Refuse, Erase, table
    <3>2. ASSUME NEW d \in Conns, pc'[d] = "handle"
          PROVE  pc[d] = "handle" \/ (pc[d] = "check" /\ (req[d].kind = "LOGIN" \/ sess[d] \in logged))
      BY <2>3, <3>2 DEF Insert, Admit, Refuse, Erase, Goto, PlainType
    <3>3. \A k \in Clients : TakesOn(k)
      BY <2>3 DEF Insert, Admit, Refuse, Erase, TakesOn, PlainType, clientVars
    <3>4. \A l \in Clients, i \in Ids : Holds(l, i)' => Holds(l, i)
      BY <3>1, <3>3, NothingLearnt DEF PassesOn
    <3> QED  BY <3>1, <3>2, <3>4, NothingLearntKeeps
  <2>4. CASE Handle(c)
    BY <2>4, HandleKeepsOwned
  <2>5. CASE PauseFind(c) \/ PauseInsert(c)
    <3>0. mishaps \subseteq mishaps' /\ cookie' = cookie
      BY <2>5 DEF PauseFind, PauseInsert, InsertSession, Search, Race, Mishap, clientVars
    <3>1. CASE /\ pc' = [pc EXCEPT ![c] = "free"] /\ req' = [req EXCEPT ![c] = NoRequest]
               /\ sess' = [sess EXCEPT ![c] = 0] /\ UNCHANGED <<user, logged, counter>>
      <4>1. \A d \in Conns : /\ d # c => pc'[d] = pc[d] /\ req'[d] = req[d] /\ sess'[d] = sess[d]
                             /\ d = c => pc'[d] = "free" /\ req'[d].client \notin Clients
        BY <3>1, ServerApiAssumption DEF PlainType, NoRequest
      <4>2. \A l \in Clients, i \in Ids : Holds(l, i)' => Holds(l, i)
        BY <3>0, <4>1, NothingLearnt DEF PassesOn, TakesOn
      <4> QED  BY <3>0, <3>1, <4>1, <4>2, NothingLearntKeeps
    <3>2. CASE /\ pc[c] = "pauseFind" /\ pc' = [pc EXCEPT ![c] = "pauseInsert"] /\ req' = req
               /\ counter \in Ids /\ counter' = counter + 1
               /\ sess' = [sess EXCEPT ![c] = counter]
               /\ user' = [user EXCEPT ![counter] = None] /\ logged' = logged \ {counter}
      BY <3>0, <3>2, NewIdKeeps
    <3> QED  BY <2>5, <3>1, <3>2 DEF PauseFind, PauseInsert, Search, Leave, NextId, Goto
  <2> QED  BY <1>3, <2>1, <2>2, <2>3, <2>4, <2>5 DEF Thread
<1>4. CASE Restart
  BY <1>4 DEF Restart, Mishap, OwnedInv
<1>5. CASE UNCHANGED vars
  <2>1. \A l \in Clients, i \in Ids : Holds(l, i)' => Holds(l, i)
    BY <1>5 DEF vars, clientVars, connVars, Holds
  <2> QED  BY <1>5, <2>1, NothingLearntKeeps DEF vars, connVars, table
<1> QED  BY <1>1, <1>2, <1>3, <1>4, <1>5 DEF Next

-----------------------------------------------------------------------------
(***************************************************************************)
(* What a client that is in, and a request that is waited for, rely on.    *)
(***************************************************************************)

\* Only an END erases a session.
ErasesAtEnd == \A c \in Conns : pc[c] = "erase" => req[c].kind = "END"

LEMMA ErasesAtEndStep == PlainType /\ ErasesAtEnd /\ [Next]_vars => ErasesAtEnd'
<1> SUFFICES ASSUME PlainType, ErasesAtEnd, [Next]_vars, NEW c \in Conns, pc'[c] = "erase"
             PROVE  req'[c].kind = "END"
  BY DEF ErasesAtEnd
<1>1. ASSUME NEW d \in Conns, NEW k \in Clients, NEW kind \in Kinds, Connect(k, kind, d)
      PROVE  pc[c] = "erase" /\ req'[c] = req[c]
  BY <1>1 DEF Connect, PlainType
<1>2. ASSUME NEW d \in Conns, Sever(d) \/ Accept(d) \/ Discard(d)
      PROVE  pc[c] = "erase" /\ req'[c] = req[c]
  BY <1>2 DEF Sever, Accept, Discard, Goto, PlainType, clientVars
<1>3. ASSUME NEW d \in Conns, Thread(d)
      PROVE  req'[c] = req[c] /\ (pc[c] = "erase" \/ req[c].kind = "END")
  <2>1. CASE ReceiveFails(d) \/ Receive(d) \/ Insert(d) \/ Admit(d) \/ Refuse(d)
    BY <2>1 DEF ReceiveFails, Receive, Insert, Admit, Refuse, Search, Goto, PlainType
  <2>2. CASE Handle(d)
    BY <2>2 DEF Handle, PlainType
  <2>3. CASE Erase(d) \/ PauseFind(d) \/ PauseInsert(d)
    BY <2>3 DEF Erase, PauseFind, PauseInsert, Search, Leave, Goto, PlainType
  <2> QED  BY <1>3, <2>1, <2>2, <2>3 DEF Thread
<1>4. CASE Restart
  BY <1>4 DEF Restart
<1>5. CASE UNCHANGED vars
  BY <1>5 DEF vars, connVars, ErasesAtEnd
<1> QED  BY <1>1, <1>2, <1>3, <1>4, <1>5 DEF Next, ErasesAtEnd

\* What the answer to a request will find: the session is in the table, and
\* that of a probe is the one the client's cookie names.
Answerable == \A c \in open :
    /\ pc[c] \in {"check", "handle"} => sess[c] \in sessions
    /\ "break" \notin mishaps /\ req[c].kind = "PROBE" /\ pc[c] \in Found
          => pc[c] # "insert" /\ sess[c] = cookie[req[c].client]

KeptInv == mishaps \subseteq {"break"} => Answerable /\ SessionKept

\* No step of the server's table touches the session a client is in with.
Undisturbed ==
    /\ \A k \in Clients : stage'[k] = "in" => stage[k] = "in" /\ cookie'[k] = cookie[k]
    /\ \A k \in Clients, i \in sessions : stage'[k] = "in" /\ Holds(k, i)
          => i \in sessions' /\ user'[i] = user[i] /\ (i \in logged => i \in logged')

LEMMA UndisturbedKeeps ==
    ASSUME PlainType, SessionKept, Undisturbed, mishaps \subseteq mishaps'
    PROVE  SessionKept'
  BY DEF PlainType, SessionKept, Undisturbed, Holds

\* A connection other than c is found as it was, and its client keeps the
\* cookie a probe relies on.
LEMMA AnswerableElsewhere ==
    ASSUME PlainType, Answerable, NEW c \in Conns, mishaps \subseteq mishaps',
           \A d \in Conns \ {c} : pc'[d] = pc[d] /\ req'[d] = req[d] /\ sess'[d] = sess[d],
           open' \subseteq open \cup {c},
           \A d \in open \ {c} : sess[d] \in sessions => sess[d] \in sessions',
           \A d \in open \ {c} : req[d].kind = "PROBE"
              => cookie'[req[d].client] = cookie[req[d].client],
           c \in open' => /\ pc'[c] \in {"check", "handle"} => sess'[c] \in sessions'
                          /\ "break" \notin mishaps /\ req'[c].kind = "PROBE" /\ pc'[c] \in Found
                                => pc'[c] # "insert" /\ sess'[c] = cookie'[req'[c].client]
    PROVE  Answerable'
<1> SUFFICES ASSUME NEW d \in open'
             PROVE  /\ pc'[d] \in {"check", "handle"} => sess'[d] \in sessions'
                    /\ "break" \notin mishaps' /\ req'[d].kind = "PROBE" /\ pc'[d] \in Found
                          => pc'[d] # "insert" /\ sess'[d] = cookie'[req'[d].client]
  BY DEF Answerable, Found
<1>1. CASE d = c
  BY <1>1
<1>2. CASE d # c
  BY <1>2 DEF Answerable, PlainType
<1> QED  BY <1>1, <1>2

\* A mishap leaves its mark for good.
LEMMA MishapsGrow ==
    ASSUME [Next]_vars
    PROVE  mishaps \subseteq mishaps'
<1>1. ASSUME NEW c \in Conns, NEW k \in Clients, NEW kind \in Kinds, Connect(k, kind, c)
      PROVE  mishaps \subseteq mishaps'
  BY <1>1 DEF Connect
<1>2. ASSUME NEW c \in Conns, Sever(c) \/ Accept(c) \/ Discard(c)
      PROVE  mishaps \subseteq mishaps'
  BY <1>2 DEF Sever, Accept, Discard, Mishap
<1>3. ASSUME NEW c \in Conns, Thread(c)
      PROVE  mishaps \subseteq mishaps'
  BY <1>3 DEF Thread, ReceiveFails, Receive, Insert, Admit, Refuse, Handle, Erase, PauseFind,
              PauseInsert, InsertSession, Search, Race, Mishap
<1>4. CASE Restart
  BY <1>4 DEF Restart, Mishap
<1>5. CASE UNCHANGED vars
  BY <1>5 DEF vars
<1> QED  BY <1>1, <1>2, <1>3, <1>4, <1>5 DEF Next

\* Everything a step may rely on when nothing but connections went wrong.
LEMMA KeptStep ==
    PlainType /\ Shape /\ DialogueInv /\ OwnedInv /\ ErasesAtEnd /\ KeptInv /\ [Next]_vars => KeptInv'
<1> SUFFICES ASSUME PlainType, Shape, DialogueInv, OwnedInv, ErasesAtEnd, KeptInv, [Next]_vars,
                    mishaps' \subseteq {"break"}
             PROVE  Answerable' /\ SessionKept'
  BY DEF KeptInv
<1>0. mishaps \subseteq mishaps' /\ mishaps \subseteq {"break"}
  BY MishapsGrow
<1>1. Owned /\ ServedAsSelf /\ Answerable /\ SessionKept
  BY <1>0 DEF OwnedInv, KeptInv
<1>2. ~\E c \in Conns : Race(c)
  BY DEF Race, Mishap
<1>3. ASSUME NEW c \in open
      PROVE  c \in Conns /\ req[c] \in Request /\ req[c].client \in Clients /\ pc[c] \in Asked
  BY <1>3 DEF Shape, Asked, PlainType, Request
<1>4. ASSUME NEW c \in Conns, NEW k \in Clients, NEW kind \in Kinds, Connect(k, kind, c)
      PROVE  Answerable' /\ SessionKept'
  <2>1. /\ \A d \in Conns \ {c} : pc'[d] = pc[d] /\ req'[d] = req[d] /\ sess'[d] = sess[d]
        /\ open' = open \cup {c} /\ pc'[c] = "backlog"
        /\ UNCHANGED <<stage, cookie, sessions, user, logged>>
    BY <1>4 DEF Connect, PlainType, table
  <2>2. Answerable'
    BY <1>0, <1>1, <2>1, AnswerableElsewhere DEF Found
  <2> QED  BY <1>0, <1>1, <2>1, <2>2, UndisturbedKeeps DEF Undisturbed
<1>5. ASSUME NEW c \in Conns, Sever(c) \/ Accept(c) \/ Discard(c)
      PROVE  Answerable' /\ SessionKept'
  <2>1. /\ UNCHANGED <<cookie, sess, sessions, user, logged>> /\ open' \subseteq open
        /\ \A k \in Clients : stage'[k] = "in" => stage[k] = "in"
    BY <1>5 DEF Sever, WithoutAnswer, Accept, Discard, clientVars, table
  <2>2. /\ \A d \in Conns \ {c} : pc'[d] = pc[d] /\ req'[d] = req[d]
        /\ c \in open' => req'[c] = req[c] /\ (pc'[c] = pc[c] \/ pc'[c] \notin {"check", "handle"} \cup Found)
    BY <1>5 DEF Sever, Accept, Discard, Goto, PlainType, Found
  <2>3. Answerable'
    BY <1>0, <1>1, <2>1, <2>2, AnswerableElsewhere DEF Answerable
  <2> QED  BY <1>0, <1>1, <2>1, <2>3, UndisturbedKeeps DEF Undisturbed
<1>6. ASSUME NEW c \in Conns, ReceiveFails(c)
      PROVE  Answerable' /\ SessionKept'
  <2>1. /\ UNCHANGED <<cookie, sess, sessions, user, logged>> /\ open' = open \ {c}
        /\ \A k \in Clients : stage'[k] = "in" => stage[k] = "in"
        /\ \A d \in Conns \ {c} : pc'[d] = pc[d] /\ req'[d] = req[d]
    BY <1>6 DEF ReceiveFails, Goto, WithoutAnswer, table, PlainType
  <2>2. Answerable'
    BY <1>0, <1>1, <2>1, AnswerableElsewhere
  <2> QED  BY <1>0, <1>1, <2>1, <2>2, UndisturbedKeeps DEF Undisturbed
<1>7. ASSUME NEW c \in Conns, Receive(c)
      PROVE  Answerable' /\ SessionKept'
  <2>0. UNCHANGED <<stage, cookie, req, open, sessions>> /\ pc[c] = "receive"
        /\ \A d \in Conns \ {c} : pc'[d] = pc[d] /\ sess'[d] = sess[d]
    BY <1>7 DEF Receive, Search, Goto, PlainType, clientVars
  <2>1. CASE /\ req[c].cookie \in sessions /\ UNCHANGED <<user, logged>>
             /\ pc'[c] = "check" /\ sess'[c] = req[c].cookie
    <3>1. Answerable'
      BY <1>0, <1>1, <1>3, <2>0, <2>1, AnswerableElsewhere DEF DialogueInv, Dialogue, InStage
    <3> QED  BY <1>0, <1>1, <2>0, <2>1, <3>1, UndisturbedKeeps DEF Undisturbed
  <2>2. CASE /\ req[c].cookie \notin sessions /\ pc'[c] = "insert" /\ counter \in Ids
             /\ user' = [user EXCEPT ![counter] = None] /\ logged' = logged \ {counter}
    <3>1. ASSUME c \in open, "break" \notin mishaps PROVE req[c].kind # "PROBE"
      BY <1>1, <1>0, <1>3, <2>2, <3>1 DEF DialogueInv, Dialogue, InStage, SessionKept
    <3>2. Answerable'
      BY <1>0, <1>1, <2>0, <2>2, <3>1, AnswerableElsewhere
    <3>3. \A k \in Clients, i \in Ids : Holds(k, i) => i # counter
      BY <1>1 DEF Owned, Ids
    <3>4. Undisturbed
      BY <2>0, <2>2, <3>3 DEF Undisturbed, PlainType
    <3> QED  BY <1>0, <1>1, <3>2, <3>4, UndisturbedKeeps
  <2> QED  BY <1>2, <1>7, <2>1, <2>2 DEF Receive, Search, NextId, Goto, PlainType
<1>8. ASSUME NEW c \in Conns, Insert(c)
      PROVE  Answerable' /\ SessionKept'
  <2>1. /\ UNCHANGED <<stage, cookie, req, open, sess, user, logged>> /\ pc[c] = "insert"
        /\ sessions' = sessions \cup {sess[c]} /\ pc'[c] = "check"
        /\ \A d \in Conns \ {c} : pc'[d] = pc[d]
    BY <1>2, <1>8 DEF Insert, InsertSession, Goto, PlainType, clientVars
  <2>2. Answerable'
    BY <1>0, <1>1, <2>1, AnswerableElsewhere DEF Answerable, Found
  <2> QED  BY <1>0, <1>1, <2>1, <2>2, UndisturbedKeeps DEF Undisturbed
<1>9. ASSUME NEW c \in Conns, Admit(c)
      PROVE  Answerable' /\ SessionKept'
  <2>1. /\ UNCHANGED <<stage, cookie, req, open, sess, sessions, user, logged>>
        /\ pc[c] = "check" /\ pc'[c] = "handle"
        /\ \A d \in Conns \ {c} : pc'[d] = pc[d]
    BY <1>9 DEF Admit, Goto, PlainType, clientVars, table
  <2>2. Answerable'
    BY <1>0, <1>1, <2>1, AnswerableElsewhere DEF Answerable, Found
  <2> QED  BY <1>0, <1>1, <2>1, <2>2, UndisturbedKeeps DEF Undisturbed
<1>10. ASSUME NEW c \in Conns, Refuse(c)
       PROVE  Answerable' /\ SessionKept'
  <2>1. /\ UNCHANGED <<req, sess, sessions, user, logged>> /\ open' = open \ {c}
        /\ pc[c] = "check" /\ req[c].kind # "LOGIN" /\ sess[c] \notin logged
        /\ \A d \in Conns \ {c} : pc'[d] = pc[d]
        /\ \A k \in Clients : /\ cookie'[k] = cookie[k] \/ (c \in open /\ req[c].client = k)
                              /\ stage'[k] = "in" => stage[k] = "in"
                              /\ stage'[k] = "in" /\ cookie'[k] # cookie[k]
                                    => cookie'[k] = 0 /\ req[c].kind \notin {"PUSH", "END"}
    BY <1>10 DEF Refuse, Goto, WithoutAnswer, PlainType, table
  <2>2. ASSUME NEW d \in open \ {c}, req[d].kind = "PROBE"
        PROVE  cookie'[req[d].client] = cookie[req[d].client]
    BY <1>3, <2>1, <2>2 DEF DialogueInv, Dialogue, OnlyPushesTogether
  <2>3. Answerable'
    BY <1>0, <1>1, <2>1, <2>2, AnswerableElsewhere
  <2>4. ASSUME NEW k \in Clients, stage'[k] = "in", cookie'[k] # cookie[k]
        PROVE  cookie'[k] = 0 /\ "break" \in mishaps
    <3>1. /\ c \in open /\ req[c].client = k /\ req[c].kind = "PROBE" /\ cookie'[k] = 0
          /\ stage[k] = "in"
      BY <1>3, <2>1, <2>4 DEF Request, Kinds
    <3>2. CASE "break" \notin mishaps
      <4>1. sess[c] = cookie[k]
        BY <1>1, <2>1, <3>1, <3>2 DEF Answerable, Found
      <4>2. cookie[k] \in logged
        BY <1>0, <1>1, <3>1, <3>2 DEF SessionKept
      <4> QED  BY <2>1, <4>1, <4>2
    <3> QED  BY <3>1, <3>2
  <2>5. SessionKept'
    BY <1>0, <1>1, <2>1, <2>4 DEF SessionKept
  <2> QED  BY <2>3, <2>5
<1>11. ASSUME NEW c \in Conns, Handle(c)
       PROVE  Answerable' /\ SessionKept'
  <2>1. /\ UNCHANGED <<req, sess, sessions, mishaps>> /\ open' = open \ {c} /\ pc[c] = "handle"
        /\ \A d \in Conns \ {c} : pc'[d] = pc[d]
    BY <1>11 DEF Handle, PlainType
  <2>2. req[c].client \in Clients /\ sess[c] \in Ids
    BY <2>1 DEF Shape, Request, Found
  <2>3. ASSUME NEW k \in Clients, k # req[c].client \/ c \notin open \/ req[c].kind = "PUSH"
        PROVE  stage'[k] = stage[k] /\ cookie'[k] = cookie[k]
    BY <1>11, <2>3 DEF Handle, PlainType
  <2>4. ASSUME NEW d \in open \ {c}, req[d].kind = "PROBE"
        PROVE  cookie'[req[d].client] = cookie[req[d].client]
    BY <1>3, <2>3, <2>4 DEF DialogueInv, Dialogue, OnlyPushesTogether
  <2>5. Answerable'
    BY <1>0, <1>1, <2>1, <2>4, AnswerableElsewhere
  <2>6. ASSUME NEW i \in Ids, i # sess[c] \/ req[c].kind # "LOGIN"
        PROVE  user'[i] = user[i] /\ (i \in logged' <=> i \in logged)
    BY <1>11, <2>6 DEF Handle, Login, PlainType
  <2>7. user'[sess[c]] = user[sess[c]] \/ user'[sess[c]] = req[c].client
    BY <1>11, <2>2 DEF Handle, Login, PlainType
  <2>8. SessionKept'
    <3> SUFFICES ASSUME NEW k \in Clients, stage'[k] = "in"
                 PROVE  \/ cookie'[k] \in sessions \cap logged' /\ user'[cookie'[k]] = k
                        \/ /\ "break" \in mishaps
                           /\ cookie'[k] = 0 \/ (cookie'[k] \in sessions /\ user'[cookie'[k]] = k)
      BY <2>1 DEF SessionKept
    <3>1. CASE k = req[c].client /\ c \in open /\ req[c].kind # "PUSH"
      <4>1. cookie'[k] = sess[c] /\ sess[c] \in sessions
        BY <1>1, <1>11, <2>1, <3>1 DEF Handle, Answerable, PlainType
      <4>2. CASE req[c].kind = "LOGIN"
        <5>1. req[c].good
          <6>1. stage[k] = "new"
            BY <3>1, <4>2 DEF DialogueInv, Dialogue, InStage
          <6> QED  BY <1>11, <3>1, <4>2, <6>1 DEF Handle
        <5>2. user'[sess[c]] = k /\ sess[c] \in logged'
          BY <1>11, <2>2, <3>1, <4>2, <5>1 DEF Handle, Login, PlainType
        <5> QED  BY <4>1, <5>2
      <4>3. CASE req[c].kind = "PROBE"
        <5>1. user[sess[c]] = k
          BY <1>0, <1>1, <2>1, <3>1, <4>3 DEF ServedAsSelf
        <5>2. user' = user /\ logged' = logged
          BY <1>11, <4>3 DEF Handle
        <5>3. CASE "break" \notin mishaps
          <6>1. sess[c] = cookie[k] /\ stage[k] = "in"
            BY <1>1, <2>1, <3>1, <4>3, <5>3 DEF Answerable, Found, DialogueInv, Dialogue, InStage
          <6> QED  BY <1>0, <1>1, <4>1, <5>2, <5>3, <6>1 DEF SessionKept
        <5> QED  BY <4>1, <5>1, <5>2, <5>3
      <4>4. CASE req[c].kind = "END"
        <5>1. stage'[k] = "done"
          BY <1>11, <2>2, <3>1, <4>4 DEF Handle, PlainType
        <5> QED  BY <5>1
      <4> QED  BY <1>3, <3>1, <4>2, <4>3, <4>4 DEF Request, Kinds
    <3>2. CASE ~(k = req[c].client /\ c \in open /\ req[c].kind # "PUSH")
      <4>1. stage[k] = "in" /\ cookie'[k] = cookie[k]
        BY <2>3, <3>2
      <4>2. cookie[k] \in Ids \cup {0}
        BY DEF PlainType
      <4>3. CASE cookie[k] \in Ids /\ cookie[k] = sess[c] /\ req[c].kind = "LOGIN"
        <5>1. k = req[c].client
          BY <1>1, <2>2, <4>3 DEF Owned, Holds
        <5>2. c \notin open
          BY <3>2, <4>3, <5>1
        <5>3. "break" \in mishaps
          BY <2>1, <5>2 DEF DialogueInv, Awaited, Asked
        <5> QED  BY <1>0, <1>1, <2>7, <4>1, <4>3, <5>1, <5>3 DEF SessionKept
      <4>4. CASE cookie[k] \in Ids /\ (cookie[k] # sess[c] \/ req[c].kind # "LOGIN")
        BY <1>0, <1>1, <2>6, <4>1, <4>4 DEF SessionKept
      <4>5. CASE cookie[k] = 0
        <5>1. 0 \notin sessions
          BY DEF PlainType, Ids
        <5> QED  BY <1>0, <1>1, <4>1, <4>5, <5>1 DEF SessionKept
      <4> QED  BY <4>2, <4>3, <4>4, <4>5
    <3> QED  BY <3>1, <3>2
  <2> QED  BY <2>5, <2>8
<1>12. ASSUME NEW c \in Conns, Erase(c)
       PROVE  Answerable' /\ SessionKept'
  <2>1. /\ UNCHANGED <<stage, cookie, req, open, sess, user, logged>>
        /\ sessions' = sessions \ {sess[c]} /\ pc[c] = "erase"
        /\ \A d \in Conns \ {c} : pc'[d] = pc[d]
    BY <1>2, <1>12 DEF Erase, Goto, PlainType, clientVars
  <2>2. c \notin open /\ req[c].client \in Clients /\ sess[c] \in Ids
    BY <2>1 DEF Shape, Asked, Found, Request
  <2>3. stage[req[c].client] = "done"
    BY <2>1, <2>2 DEF ErasesAtEnd, DialogueInv, Dialogue, EndsClient
  <2>4. ASSUME NEW k \in Clients, Holds(k, sess[c]) PROVE stage[k] = "done"
    BY <1>1, <2>2, <2>3, <2>4 DEF Owned, Holds
  <2>5. ASSUME NEW d \in open PROVE sess[d] # sess[c]
    BY <1>3, <2>4, <2>5 DEF Holds, DialogueInv, Dialogue, InStage
  <2>6. Answerable'
    BY <1>0, <1>1, <2>1, <2>2, <2>5, AnswerableElsewhere
  <2>7. Undisturbed
    BY <2>1, <2>4 DEF Undisturbed
  <2> QED  BY <1>0, <1>1, <2>6, <2>7, UndisturbedKeeps
<1>13. ASSUME NEW c \in Conns, PauseFind(c) \/ PauseInsert(c)
       PROVE  Answerable' /\ SessionKept'
  <2>1. /\ UNCHANGED <<stage, cookie, open>> /\ sessions \subseteq sessions' /\ c \notin open
        /\ \A d \in Conns \ {c} : pc'[d] = pc[d] /\ req'[d] = req[d] /\ sess'[d] = sess[d]
    BY <1>13 DEF PauseFind, PauseInsert, InsertSession, Search, Leave, Goto, Shape, Asked,
                 PlainType, clientVars
  <2>2. Answerable'
    BY <1>0, <1>1, <2>1, AnswerableElsewhere
  <2>3. UNCHANGED <<user, logged>>
        \/ (counter \in Ids /\ user' = [user EXCEPT ![counter] = None] /\ logged' = logged \ {counter})
    BY <1>13 DEF PauseFind, PauseInsert, Search, NextId
  <2>4. \A k \in Clients, i \in Ids : Holds(k, i) => i # counter
    BY <1>1 DEF Owned, Ids
  <2>5. Undisturbed
    BY <2>1, <2>3, <2>4 DEF Undisturbed, PlainType
  <2> QED  BY <1>0, <1>1, <2>2, <2>5, UndisturbedKeeps
<1>14. ~Restart
  BY DEF Restart, Mishap
<1>15. CASE UNCHANGED vars
  BY <1>1, <1>15 DEF vars, clientVars, connVars, table, Answerable, SessionKept
<1> QED  BY <1>4, <1>5, <1>6, <1>7, <1>8, <1>9, <1>10, <1>11, <1>12, <1>13, <1>14, <1>15 DEF Next, Thread

-----------------------------------------------------------------------------
SessionInv == DialogueInv /\ OwnedInv /\ ErasesAtEnd /\ KeptInv

LEMMA SessionInvInit == Init => SessionInv
<1> SUFFICES ASSUME Init PROVE SessionInv
  OBVIOUS
<1>1. DialogueInv
  BY DEF Init, DialogueInv, Dialogue, OnlyPushesTogether, InStage, EndsClient, Awaited, Asked
<1>2. \A k \in Clients, i \in Ids : ~Holds(k, i)
  BY ServerApiAssumption DEF Init, Holds, Ids, NoRequest
<1>3. OwnedInv
  BY <1>2 DEF Init, OwnedInv, Owned, ServedAsSelf
<1>4. ErasesAtEnd /\ KeptInv
  BY DEF Init, ErasesAtEnd, KeptInv, Answerable, SessionKept
<1> QED  BY <1>1, <1>3, <1>4 DEF SessionInv

THEOREM SessionInvariant == Spec => []SessionInv
<1>1. TypeInv /\ SessionInv /\ [Next]_vars => SessionInv'
  BY DialogueStep, OwnedStep, ErasesAtEndStep, KeptStep DEF TypeInv, SessionInv
<1> QED  BY SessionInvInit, <1>1, TypeInvariant, PTL DEF Spec

\* As long as the server is not restarted no request is handled as another
\* user than the one who sent it, for any number of clients and connections,
\* requests and mishaps.
THEOREM RequestsServedAsSelf == Spec => []ServedAsSelf
<1>1. SessionInv => ServedAsSelf
  BY DEF SessionInv, OwnedInv, ServedAsSelf
<1> QED  BY <1>1, SessionInvariant, PTL

\* A client that is in keeps its session until it ends, as long as nothing but
\* connections goes wrong.
THEOREM SessionIsKept == Spec => []SessionKept
<1>1. SessionInv => SessionKept
  BY DEF SessionInv, KeptInv, SessionKept
<1> QED  BY <1>1, SessionInvariant, PTL
===============================================================================
