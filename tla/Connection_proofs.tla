-------------------------- MODULE Connection_proofs --------------------------
(***************************************************************************)
(* Proofs about Connection, for any set of requests: a busy server alone   *)
(* makes none but a long one fail, and each is served at most once.        *)
(***************************************************************************)
EXTENDS Connection, TLAPS

\* The server could not make sense of its header, and its caller could not go on.
Spoiled(r) == /\ r \in Illegible /\ peer[r] = "gone" /\ answer[r] = "error"
              /\ at[r] \in {"sending", "failed"}

\* What is true of a request whatever becomes of it.  The server has not served
\* one whose answer is still to come, and has not one that its caller is about
\* to make; and without an answer no connection ends by itself.
Sound(r) ==
    /\ served[r] \in {0, 1}
    /\ peer[r] # "gone" => served[r] = 0 /\ answer[r] = "none"
    /\ at[r] = "idle" => peer[r] = "none"
    /\ at[r] \in {"opening", "sleeping"} => peer[r] \in {"none", "gone"} /\ served[r] = 0
    /\ answer[r] = "busy" => served[r] = 0
    /\ at[r] \in {"okay", "refused"} => served[r] = 1
    /\ answer[r] \in {"okay", "error"} => served[r] = 1 \/ Spoiled(r)
    /\ at[r] = "sending" => ~wire[r] /\ served[r] = 0 /\ peer[r] # "handle"
    /\ link[r] \in {"down", "silent"} => r \in hurt
    /\ link[r] = "none" => peer[r] = "none"
    /\ peer[r] = "gone" /\ answer[r] = "none" /\ at[r] \notin Ended => r \in hurt
    /\ at[r] = "failed" => \/ r \in hurt
                          \/ /\ r \in Long /\ peer[r] = "gone" /\ served[r] = 0
                             /\ answer[r] = "busy" \/ r \in Illegible

ConnInv == ConnTypeOK /\ \A r \in Requests : Sound(r)

\* The variables at request r.
Of(r) == <<at[r], link[r], wire[r], peer[r], answer[r], served[r]>>

\* A step concerns the request it is taken for.
LEMMA Others ==
    ASSUME ConnInv, NEW r \in Requests, ConnTypeOK', Sound(r)', hurt \subseteq hurt',
           \A s \in Requests \ {r} : UNCHANGED Of(s)
    PROVE  ConnInv'
<1>1. ASSUME NEW s \in Requests \ {r} PROVE Sound(s)'
  <2>1. Sound(s) /\ UNCHANGED Of(s)
    BY DEF ConnInv
  <2> QED  BY <2>1 DEF Sound, Spoiled, Of
<1> QED  BY <1>1 DEF ConnInv

LEMMA CallerKeeps ==
    ASSUME ConnInv, NEW r \in Requests, Call(r) \/ Caller(r)
    PROVE  ConnInv'
<1> USE DEF ConnInv, ConnTypeOK, Step, Waiting, Ended
<1>1. hurt' = hurt /\ ConnTypeOK' /\ \A s \in Requests \ {r} : UNCHANGED Of(s)
  <2>1. CASE Call(r) \/ Open(r) \/ ReceiveFails(r) \/ Retry(r)
    BY <2>1 DEF Call, Open, Fresh, ReceiveFails, Retry, Of
  <2>2. CASE Send(r)
    BY <2>2 DEF Send, Of
  <2>3. CASE Receive(r)
    BY <2>3 DEF Receive, Outcome, Of
  <2> QED  BY <2>1, <2>2, <2>3 DEF Caller
<1>2. Sound(r)'
  <2>1. CASE Call(r)
    BY <2>1 DEF Call, Sound, Spoiled
  <2>2. CASE Open(r)
    BY <2>2 DEF Open, Fresh, Sound, Spoiled
  <2>3. CASE Send(r)
    BY <2>3, ConnectionAssumption DEF Send, Sound, Spoiled
  <2>4. CASE Receive(r)
    BY <2>4 DEF Receive, Outcome, Sound, Spoiled
  <2>5. CASE ReceiveFails(r)
    BY <2>5 DEF ReceiveFails, NothingToRead, Sound, Spoiled
  <2>6. CASE Retry(r)
    BY <2>6 DEF Retry, Sound, Spoiled
  <2> QED  BY <2>1, <2>2, <2>3, <2>4, <2>5, <2>6 DEF Caller
<1> QED  BY <1>1, <1>2, Others

LEMMA ServerKeeps ==
    ASSUME ConnInv, NEW r \in Requests,
           Server(r) \/ \E reply \in {"okay", "error"} : Handle(r, reply)
    PROVE  ConnInv'
<1> USE DEF ConnInv, ConnTypeOK, Serve, Waiting, Ended
<1>1. hurt' = hurt /\ ConnTypeOK' /\ \A s \in Requests \ {r} : UNCHANGED Of(s)
  BY ConnectionAssumption DEF Server, Accept, Discard, Take, Misread, TakeFails, Handle, Of
<1>2. Sound(r)'
  <2>1. CASE Accept(r)
    BY <2>1 DEF Accept, Sound, Spoiled
  <2>2. CASE Discard(r)
    <3>1. /\ peer'[r] = "gone" /\ answer'[r] = (IF link[r] = "up" THEN "busy" ELSE "none")
          /\ at'[r] = at[r] /\ link'[r] = link[r] /\ served'[r] = served[r] /\ wire'[r] = wire[r]
      BY <2>2 DEF Discard
    <3>2. Sound(r) /\ peer[r] = "backlog"
      BY <2>2 DEF Discard
    <3> QED  BY <1>1, <3>1, <3>2 DEF Sound, Spoiled
  <2>3. CASE Take(r)
    BY <2>3 DEF Take, Sound, Spoiled
  <2>4. CASE TakeFails(r)
    BY <2>4 DEF TakeFails, Sound, Spoiled
  <2>5. ASSUME NEW reply \in {"okay", "error"}, Handle(r, reply) PROVE Sound(r)'
    <3>1. /\ peer'[r] = "gone" /\ answer'[r] = (IF link[r] = "up" THEN reply ELSE "none")
          /\ at'[r] = at[r] /\ link'[r] = link[r] /\ served'[r] = served[r] + 1 /\ wire'[r] = wire[r]
      BY <2>5 DEF Handle
    <3>2. Sound(r) /\ peer[r] = "handle"
      BY <2>5 DEF Handle
    <3> QED  BY <1>1, <3>1, <3>2 DEF Sound, Spoiled
  <2>6. CASE Misread(r)
    <3>1. /\ peer'[r] = "gone" /\ answer'[r] = (IF link[r] = "up" THEN "error" ELSE "none")
          /\ at'[r] = at[r] /\ link'[r] = link[r] /\ served'[r] = served[r] /\ wire'[r] = wire[r]
      BY <2>6 DEF Misread
    <3>2. Sound(r) /\ peer[r] = "receive" /\ at[r] = "sending" /\ r \in Illegible
      BY <2>6 DEF Misread
    <3> QED  BY <1>1, <3>1, <3>2 DEF Sound, Spoiled
  <2> QED  BY <2>1, <2>2, <2>3, <2>4, <2>5, <2>6 DEF Server
<1> QED  BY <1>1, <1>2, Others

LEMMA NetworkKeeps ==
    ASSUME ConnInv, NEW r \in Requests, Network(r)
    PROVE  ConnInv'
<1> USE DEF ConnInv, ConnTypeOK, Step, Serve, Mishap, Waiting, Ended
<1>1. hurt' = hurt \cup {r} /\ ConnTypeOK' /\ \A s \in Requests \ {r} : UNCHANGED Of(s)
  BY DEF Network, OpenFails, Fresh, Timeout, Break, FallSilent, Of
<1>2. Sound(r)'
  BY <1>1 DEF Network, OpenFails, Fresh, Timeout, Break, FallSilent, Sound, Spoiled
<1> QED  BY <1>1, <1>2, Others

LEMMA AbandonKeeps ==
    ASSUME ConnInv, NEW S \in SUBSET Requests, Abandon(S)
    PROVE  ConnInv'
<1> USE DEF ConnInv, ConnTypeOK, Abandon, Waiting, Ended
<1>1. ConnTypeOK'
  OBVIOUS
<1>2. ASSUME NEW r \in Requests PROVE Sound(r)'
  BY DEF Sound, Spoiled
<1> QED  BY <1>1, <1>2

LEMMA ConnInvInit == ConnInit => ConnInv
  BY ConnectionAssumption DEF ConnInit, ConnInv, ConnTypeOK, Sound, Spoiled, Waiting, Ended

LEMMA ConnInvStep == ConnInv /\ [ConnNext]_connVars => ConnInv'
<1> SUFFICES ASSUME ConnInv, [ConnNext]_connVars PROVE ConnInv'
  OBVIOUS
<1>1. CASE UNCHANGED connVars
  BY <1>1 DEF ConnInv, ConnTypeOK, Sound, Spoiled, connVars
<1> QED  BY <1>1, CallerKeeps, ServerKeeps, NetworkKeeps, AbandonKeeps DEF ConnNext

\* The types are kept, and with them what is known of each request.
THEOREM ConnInvariant == ConnSpec => []ConnInv
<1> QED  BY ConnInvInit, ConnInvStep, PTL DEF ConnSpec

\* A busy server alone makes no request fail but a long one: send_and_receive
\* goes on asking.
THEOREM BusyServerComesBack == ConnSpec => []BusyComesBack
<1>1. ConnInv => BusyComesBack
  BY DEF ConnInv, Sound, BusyComesBack
<1> QED  BY <1>1, ConnInvariant, PTL

-----------------------------------------------------------------------------
\* How Connection implements AtMostOnce.
Told(r) == IF at[r] \in Waiting THEN "waiting" ELSE at[r]

LEMMA OnceInit == ConnInit => Once!Init
  BY DEF ConnInit, Once!Init, Waiting

LEMMA OnceStep ==
    ConnInv /\ [ConnNext]_connVars => [Once!Next]_<<[r \in Requests |-> Told(r)], served>>
<1> SUFFICES ASSUME ConnInv, [ConnNext]_connVars
             PROVE  [Once!Next]_<<[r \in Requests |-> Told(r)], served>>
  OBVIOUS
<1> DEFINE call == [r \in Requests |-> Told(r)]
<1> USE DEF ConnInv, ConnTypeOK, Told, Step, Waiting, Ended
<1>1. ASSUME NEW r \in Requests, Call(r) PROVE Once!Make(r)
  BY <1>1 DEF Call, Once!Make
<1>2. ASSUME NEW r \in Requests, Receive(r) \/ ReceiveFails(r) \/ Send(r) \/ OpenFails(r)
      PROVE  \/ UNCHANGED <<call, served>>
             \/ \E how \in {"okay", "refused", "failed"} : Once!Return(r, how)
  <2>1. CASE Receive(r)
    <3>1. Sound(r) /\ at[r] = "reading" /\ answer[r] \in {"okay", "error", "busy"}
      BY <2>1 DEF Receive
    <3>2. at' = [at EXCEPT ![r] = Outcome[answer[r]]] /\ served' = served
      BY <2>1 DEF Receive
    <3>3. CASE answer[r] = "busy"
      BY <3>1, <3>2, <3>3 DEF Outcome
    <3>4. CASE answer[r] = "okay"
      <4>1. served[r] = 1
        BY <3>1, <3>4 DEF Sound, Spoiled
      <4>2. at' = [at EXCEPT ![r] = "okay"]
        BY <3>2, <3>4 DEF Outcome
      <4>3. Once!Return(r, "okay")
        BY <3>1, <3>2, <4>1, <4>2 DEF Once!Return
      <4> QED  BY <4>3
    <3>5. CASE answer[r] = "error"
      <4>1. served[r] = 1
        BY <3>1, <3>5 DEF Sound, Spoiled
      <4>2. at' = [at EXCEPT ![r] = "refused"]
        BY <3>2, <3>5 DEF Outcome
      <4>3. Once!Return(r, "refused")
        BY <3>1, <3>2, <4>1, <4>2 DEF Once!Return
      <4> QED  BY <4>3
    <3> QED  BY <3>1, <3>3, <3>4, <3>5
  <2>2. CASE ReceiveFails(r)
    BY <2>2 DEF ReceiveFails, Once!Return
  <2>3. CASE Send(r)
    BY <2>3 DEF Send, Once!Return
  <2>4. CASE OpenFails(r)
    BY <2>4 DEF OpenFails, Once!Return
  <2> QED  BY <1>2, <2>1, <2>2, <2>3, <2>4
<1>3. ASSUME NEW r \in Requests, NEW reply \in {"okay", "error"}, Handle(r, reply) PROVE Once!Run(r)
  <2>1. Sound(r) /\ peer[r] = "handle" /\ served' = [served EXCEPT ![r] = @ + 1] /\ at' = at
    BY <1>3 DEF Handle, Serve
  <2>2. served[r] = 0 /\ call[r] # "idle"
    BY <2>1 DEF Sound, Spoiled
  <2> QED  BY <2>1, <2>2 DEF Once!Run
<1>4. ASSUME NEW S \in SUBSET Requests, Abandon(S)
      PROVE  \E T \in SUBSET {r \in Requests : call[r] = "waiting"} : Once!Abandon(T)
  <2>1. S \in SUBSET {r \in Requests : call[r] = "waiting"}
    BY <1>4 DEF Abandon
  <2>2. Once!Abandon(S)
    BY <1>4 DEF Abandon, Once!Abandon
  <2> QED  BY <2>1, <2>2
<1>5. ASSUME NEW r \in Requests,
             Open(r) \/ Retry(r) \/ Server(r) \/ Timeout(r) \/ Break(r) \/ FallSilent(r)
      PROVE  UNCHANGED <<call, served>>
  BY <1>5 DEF Open, Retry, Server, Accept, Discard, Take, Misread, TakeFails, Timeout, Break, FallSilent
<1>6. CASE UNCHANGED connVars
  BY <1>6 DEF connVars
<1> QED  BY <1>1, <1>2, <1>3, <1>4, <1>5, <1>6 DEF ConnNext, Caller, Network, Once!Next

\* Whoever calls send_and_receive may take it for AtMostOnce.
THEOREM ConnectionServesAtMostOnce == ConnSpec => ServedAtMostOnce
<1>1. ConnInv /\ [ConnNext]_connVars
      => [Once!Next]_<<[r \in Requests |-> IF at[r] \in Waiting THEN "waiting" ELSE at[r]], served>>
  BY OnceStep DEF Told
<1> QED  BY <1>1, OnceInit, ConnInvariant, PTL DEF ConnSpec, ServedAtMostOnce, Once!Spec
=============================================================================
