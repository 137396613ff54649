----------------------------- MODULE BackupWaits -----------------------------
(***************************************************************************)
(* Who waits for whom in Backup, and what can keep it waiting for ever.    *)
(*                                                                         *)
(* A push that finds its gate taken may sleep on the condition variable.   *)
(* As PushGate shows, the notification of the push before it may be lost:  *)
(* of several that sleep one is woken (WaitersMove, LosesAtMostOne), one   *)
(* that sleeps alone perhaps never, unless another push of its session     *)
(* comes by.  The same goes for the client's sender, which may sleep until *)
(* a thread of its pool ends, and miss that (ClientPool).  And a           *)
(* connection may fall silent, which a client that only reads never        *)
(* learns.                                                                 *)
(*                                                                         *)
(* Every step is one of Backup or leaves it alone.                         *)
(***************************************************************************)
EXTENDS Backup

VARIABLES
    asleep,    \* the pushes that sleep at their gates, by what names a push in flight
    silent,    \* requests of the client that runs whose connection fell silent
    overtaken  \* the sender sleeps, or is about to, and what would wake it is over

waits  == <<asleep, silent, overtaken>>
waitVars == <<vars, waits>>

Id(j) == <<j.sess, j.path, j.kind>>
Asleep(j) == Id(j) \in asleep

WaitInit == Init /\ asleep = {} /\ silent = 0 /\ overtaken = FALSE

-----------------------------------------------------------------------------
\* The pool of the client, and its condition variable.

\* The threads that async_send_and_receive counts.
Active == Cardinality(Own) + silent

AtPool == item # None /\ item.at = "send" /\ ~fresh
PoolFull == AtPool /\ Active >= MaxJobs

\* A thread that ends lowers the count and notifies without the mutex.  The
\* sender that has found the pool full may not sleep yet: then it misses that.
Notifies == IF (PoolFull \/ overtaken) /\ Active' < Active
            THEN overtaken' \in BOOLEAN
            ELSE UNCHANGED overtaken

WakesSpuriously == overtaken /\ overtaken' = FALSE /\ UNCHANGED <<vars, asleep, silent>>

-----------------------------------------------------------------------------
\* The gate's condition variable.

\* The flag is found set; whether the push has gone to sleep before the flag
\* is cleared and notified, or only after, is all the same to it now.
Sleeps(j) == /\ j.stage = "sent" /\ ~Refused(j) /\ ~GateFree(j.sess)
             /\ asleep' = asleep \cup {Id(j)}
             /\ UNCHANGED <<vars, silent, overtaken>>

\* A push at the gate goes through, woken if it slept.
GoesThrough(j) == EnterGate(j) /\ asleep' = asleep \ {Id(j)} /\ UNCHANGED <<silent, overtaken>>

Others(j) == {k \in jobs \ {j} : k.sess = j.sess /\ k.stage = "sent"}

\* It can rely on it if it is awake, or sleeps beside others.
Relies(j) == Asleep(j) => \E k \in Others(j) : Asleep(k)

-----------------------------------------------------------------------------
\* The connections.

\* A request is only lost before the server has it.
LosesRequest(j) == ~Asleep(j) /\ LoseRequest(j) /\ UNCHANGED <<asleep, silent>> /\ Notifies

\* The client learns that the answer is lost, or it does not: then the thread
\* of the push stays in its read and keeps its place among MaxJobs.  That the
\* push counts as failed makes no difference, as only who has waited for all
\* of them looks whether one has.
LosesAnswer(j) == LoseAnswer(j) /\ silent' \in {silent, silent + 1} /\ UNCHANGED asleep /\ Notifies

\* The probe exchanges its first and its last message with nothing else out.
Exchanging == \/ phase = "ask"
              \/ phase = "probeCreated" /\ todo = {} /\ item = None /\ ~sent

FallsSilent == /\ Exchanging /\ silent = 0 /\ faults["lose"] < MaxFaults["lose"]
               /\ silent' = 1
               /\ UNCHANGED <<vars, asleep, overtaken>>

-----------------------------------------------------------------------------
\* The client.

\* The barrier, and wait_all_async at the end of the probe, wait for a thread
\* that never ends; the exchanges of the probe read for ever; with all places
\* taken no push gets a thread; and an overtaken sender sleeps.
AtBarrier == item # None /\ item.at = "send" /\ fresh
ProbeWaits == phase = "probeCreated" /\ todo = {} /\ item = None

Hanging == \/ overtaken
           \/ silent > 0 /\ (AtBarrier \/ PoolFull \/ ProbeWaits \/ phase = "ask")

ClientGoes == Client /\ ~Hanging /\ UNCHANGED waits

\* Mutant: end does not wait for the requests.
EndsAtOnce == Quit /\ UNCHANGED waits

\* end waits for all requests, too.
Ends == silent = 0 /\ Quit /\ UNCHANGED waits

StatementFails(j) == DbFault(j) /\ UNCHANGED <<asleep, silent>> /\ Notifies
Crashes == Crash /\ asleep' = {} /\ UNCHANGED silent /\ Notifies
Killed == Kill /\ silent' = 0 /\ overtaken' = FALSE /\ UNCHANGED asleep

-----------------------------------------------------------------------------
Goes(j) == \/ GoesThrough(j)
           \/ (Refuse(j) \/ First(j) \/ Second(j)) /\ UNCHANGED <<asleep, silent>> /\ Notifies

WaitNext ==
    \/ ClientGoes \/ Ends \/ FallsSilent \/ WakesSpuriously \/ Crashes \/ Killed
    \/ \E j \in jobs : Sleeps(j) \/ Goes(j) \/ LosesRequest(j) \/ LosesAnswer(j) \/ StatementFails(j)
    \/ (User \/ Start) /\ UNCHANGED waits

WaitSpec == WaitInit /\ [][WaitNext]_waitVars

WorkerGoes == \E j \in jobs : Goes(j) /\ Relies(j)

\* The client's threads and the server's workers run, but a push that sleeps
\* alone is owed nothing, and no sender a spurious wake-up.  That one of several is let through is GateDecides,
\* GateReleased and WaitersMove of PushGate.  Edits, faults, the start and the
\* end of the program are nobody's duty.
FairSpec == WaitSpec /\ WF_waitVars(ClientGoes) /\ WF_waitVars(WorkerGoes)

-----------------------------------------------------------------------------
\* The values the variables take: nobody sleeps who is not at a gate, and a
\* client that is gone waits for nothing, however it came to its end.
WaitTypeOK ==
    /\ asleep \subseteq {Id(j) : j \in {k \in jobs : k.stage = "sent" /\ ~Refused(k)}}
    /\ silent \in Nat /\ overtaken \in BOOLEAN
    /\ phase = "off" => silent = 0
    /\ overtaken => AtPool

\* A push of the client sleeps, and no other push of its session is at the
\* server to wake it.
Stranded == \E j \in Own : Asleep(j) /\ \A k \in jobs : k.sess = j.sess => k = j

\* The sender was overtaken by all the threads that could wake it.
Forgotten == overtaken /\ Own = {}

\* When the user stops editing, the client comes to rest with the directory
\* on record as it is and delivered as it is on record, but for suspect paths,
\* or it has stopped, or it sits on a failure it has not noticed, or it waits
\* for a push stranded at the gate or for a server that fell silent, or its
\* sender is forgotten.
InSync == \A p \in Paths : /\ View(p) = local[p]
                           /\ p \in suspect \/ Delivered(disk, db, p) = View(p)
Settles == <>[]( \/ phase \in {"off", "halted"} \/ failed \/ InSync
                 \/ Stranded \/ Forgotten \/ silent > 0)

\* The pushes in flight are answered, refused or lost, however many of them meet
\* at the gate, but for one that is stranded: no barrier waits for ever for
\* anything else than that one or a connection that fell silent.
PushesEnd == []<>(Own = {} \/ Stranded)

-----------------------------------------------------------------------------
\* What the documentation says and the code does not keep.

\* README.md:88: the watcher notices all the changes.  A wake-up that is lost,
\* at the gate or at the pool, may keep it from that; it is not needed.
NoticesAll == <>[](phase = "off" \/ Stranded \/ Forgotten \/ \A p \in Paths : View(p) = local[p])
=============================================================================
